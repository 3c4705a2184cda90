-------------------------- MODULE CoordinatorProofs --------------------------
(***************************************************************************)
(* Proofs about Coordinator, for all constants: any number of workers,     *)
(* processes and generations, with crashes and cut connections.  Safety    *)
(* only: the fairness of CoordinatorSpec is not used.                      *)
(***************************************************************************)
EXTENDS Coordinator, RegistryRecords

-----------------------------------------------------------------------------
(* Connections                                                             *)

Verdicts == {"OK", "ERROR"}
Requests == {"HELLO", "REG_RT", "REG_SV", "REG_EP", "REG_CA", "REG_IN"}

ConnRecord ==
  [worker : Nat, gen : Nat, process : {"unborn", "running", "gone"}, step : Nat,
   wire : Requests \cup Verdicts \cup {"idle"}, thread : {"none", "running", "done"},
   boot : Nat, ack : Verdicts \cup {"none"}]

\* The requests of a worker in their order.
LEMMA ScriptFacts ==
  /\ Len(Script) = 6 /\ Range(Script) = Requests
  /\ Request(1) = "HELLO" /\ Request(2) = "REG_RT" /\ Request(3) = "REG_SV"
  /\ Request(4) = "REG_EP" /\ Request(5) = "REG_CA" /\ Request(6) = "REG_IN"
  /\ \A k \in Nat : k > 6 => Request(k) = "idle"
<1>1. Len(Script) = 6
  BY DEF Script
<1>2. /\ Request(1) = "HELLO" /\ Request(2) = "REG_RT" /\ Request(3) = "REG_SV"
      /\ Request(4) = "REG_EP" /\ Request(5) = "REG_CA" /\ Request(6) = "REG_IN"
  BY <1>1 DEF Request, Script
<1>3. \A k \in Nat : k > 6 => Request(k) = "idle"
  BY <1>1 DEF Request
<1>4. Range(Script) = Requests
  <2>1. DOMAIN Script = 1 .. 6
    BY DEF Script
  <2>2. \A k \in 1 .. 6 : k = 1 \/ k = 2 \/ k = 3 \/ k = 4 \/ k = 5 \/ k = 6
    OBVIOUS
  <2>3. /\ Script[1] = "HELLO" /\ Script[2] = "REG_RT" /\ Script[3] = "REG_SV"
        /\ Script[4] = "REG_EP" /\ Script[5] = "REG_CA" /\ Script[6] = "REG_IN"
    BY DEF Script
  <2>4. QED
    BY <2>1, <2>2, <2>3 DEF Range, Requests
<1>5. QED
  BY <1>1, <1>2, <1>3, <1>4

\* What a connection is after each of the actions that change it.
ConnsTyped == conn \in [Connections -> ConnRecord]

SameProcess(c) ==
  /\ conn'[c].worker = conn[c].worker /\ conn'[c].gen = conn[c].gen

LEMMA ConnectFields ==
  ASSUME ConnsTyped, NEW c \in Connections, NEW w \in Nat, NEW g \in Nat, Connect(c, w, g)
  PROVE  /\ ConnsTyped' /\ \A d \in Connections \ {c} : conn'[d] = conn[d]
         /\ conn'[c].worker = w /\ conn'[c].gen = g /\ conn'[c].process = "running"
         /\ conn'[c].step = 1 /\ conn'[c].wire = "HELLO" /\ conn'[c].thread = "running"
         /\ conn'[c].boot = None /\ conn'[c].ack = "none"
<1> DEFINE new == [Unborn EXCEPT !.worker = w, !.gen = g, !.process = "running",
                     !.wire = Request(1), !.thread = "running"]
<1>1. Unborn \in ConnRecord /\ Unborn.step = 1 /\ Unborn.boot = None /\ Unborn.ack = "none"
  BY DEF Unborn, ConnRecord, None
<1>2. Request(1) = "HELLO"
  BY ScriptFacts
<1>3. /\ new \in ConnRecord /\ new.worker = w /\ new.gen = g /\ new.process = "running"
      /\ new.step = 1 /\ new.wire = "HELLO" /\ new.thread = "running" /\ new.boot = None
      /\ new.ack = "none"
  BY <1>1, <1>2 DEF ConnRecord, Requests
<1>4. conn' = [conn EXCEPT ![c] = new]
  BY DEF Connect
<1> HIDE DEF new
<1>5. conn'[c] = new
  BY <1>4 DEF ConnsTyped
<1>6. QED
  BY <1>3, <1>4, <1>5 DEF ConnsTyped

LEMMA ReceiveFields ==
  ASSUME ConnsTyped, NEW c \in Connections, Receive(c)
  PROVE  /\ ConnsTyped' /\ \A d \in Connections \ {c} : conn'[d] = conn[d]
         /\ SameProcess(c) /\ conn'[c].process = "running"
         /\ conn'[c].step = conn[c].step + 1
         /\ conn'[c].wire = Request(conn[c].step + 1)
         /\ conn'[c].thread = conn[c].thread /\ conn'[c].boot = conn[c].boot
         /\ conn'[c].ack = IF Answered(c) THEN conn[c].wire ELSE "none"
<1> DEFINE k == conn[c].step + 1
           a == IF Answered(c) THEN conn[c].wire ELSE "none"
           new == [conn[c] EXCEPT !.wire = Request(k), !.step = k, !.ack = a]
<1>1. conn[c] \in ConnRecord /\ conn[c].process = "running"
  BY DEF ConnsTyped, Receive, Working
<1>2. k \in Nat
  BY <1>1 DEF ConnRecord
<1>3. Request(k) \in Requests \cup {"idle"}
  <2>1. CASE k \in 1 .. 6
    <3>1. k = 1 \/ k = 2 \/ k = 3 \/ k = 4 \/ k = 5 \/ k = 6
      BY <2>1
    <3>2. QED
      BY <3>1, ScriptFacts DEF Requests
  <2>2. CASE k > 6
    BY <1>2, <2>2, ScriptFacts
  <2>3. k >= 1
    BY <1>1 DEF ConnRecord
  <2>4. QED
    BY <1>2, <2>1, <2>2, <2>3
<1>4. a \in Verdicts \cup {"none"}
  BY DEF Answered, Verdicts
<1>5. conn' = [conn EXCEPT ![c] = new]
  BY <1>1 DEF Receive, ConnsTyped
<1> HIDE DEF k, a
<1>6. /\ new \in ConnRecord /\ new.worker = conn[c].worker /\ new.gen = conn[c].gen
      /\ new.process = conn[c].process /\ new.step = k /\ new.wire = Request(k)
      /\ new.thread = conn[c].thread /\ new.boot = conn[c].boot /\ new.ack = a
  BY <1>1, <1>2, <1>3, <1>4 DEF ConnRecord
<1> HIDE DEF new
<1>7. conn'[c] = new
  BY <1>5 DEF ConnsTyped
<1>8. QED
  BY <1>1, <1>5, <1>6, <1>7 DEF ConnsTyped, SameProcess, k, a

LEMMA CrashFields ==
  ASSUME ConnsTyped, NEW c \in Connections, Crash(c)
  PROVE  /\ ConnsTyped' /\ \A d \in Connections \ {c} : conn'[d] = conn[d]
         /\ SameProcess(c) /\ conn'[c].process = "gone" /\ conn'[c].step = 1
         /\ conn'[c].wire = conn[c].wire /\ conn'[c].thread = conn[c].thread
         /\ conn'[c].boot = conn[c].boot /\ conn'[c].ack = "none"
<1> DEFINE new == [conn[c] EXCEPT !.process = "gone", !.step = 1, !.ack = "none"]
<1>1. conn[c] \in ConnRecord
  BY DEF ConnsTyped
<1>2. /\ new \in ConnRecord /\ new.worker = conn[c].worker /\ new.gen = conn[c].gen
      /\ new.process = "gone" /\ new.step = 1 /\ new.wire = conn[c].wire
      /\ new.thread = conn[c].thread /\ new.boot = conn[c].boot /\ new.ack = "none"
  BY <1>1 DEF ConnRecord
<1>3. conn' = [conn EXCEPT ![c] = new]
  BY <1>1 DEF Crash, ConnsTyped
<1> HIDE DEF new
<1>4. conn'[c] = new
  BY <1>3 DEF ConnsTyped
<1>5. QED
  BY <1>2, <1>3, <1>4 DEF ConnsTyped, SameProcess

LEMMA ReplyFields ==
  ASSUME ConnsTyped, NEW c \in Connections, NEW v \in Verdicts, Reply(c, v)
  PROVE  /\ ConnsTyped' /\ \A d \in Connections \ {c} : conn'[d] = conn[d]
         /\ SameProcess(c) /\ conn'[c].process = conn[c].process
         /\ conn'[c].step = conn[c].step /\ conn'[c].wire = v
         /\ conn'[c].thread = conn[c].thread /\ conn'[c].boot = conn[c].boot
         /\ conn'[c].ack = conn[c].ack
<1> DEFINE new == [conn[c] EXCEPT !.wire = v]
<1>1. conn[c] \in ConnRecord
  BY DEF ConnsTyped
<1>2. /\ new \in ConnRecord /\ new.worker = conn[c].worker /\ new.gen = conn[c].gen
      /\ new.process = conn[c].process /\ new.step = conn[c].step /\ new.wire = v
      /\ new.thread = conn[c].thread /\ new.boot = conn[c].boot /\ new.ack = conn[c].ack
  BY <1>1 DEF ConnRecord
<1>3. conn' = [conn EXCEPT ![c] = new]
  BY <1>1 DEF Reply, ConnsTyped
<1> HIDE DEF new
<1>4. conn'[c] = new
  BY <1>3 DEF ConnsTyped
<1>5. QED
  BY <1>2, <1>3, <1>4 DEF ConnsTyped, SameProcess

LEMMA HelloFields ==
  ASSUME TypeOK, ConnsTyped, NEW c \in Connections, Hello(c)
  PROVE  /\ ConnsTyped' /\ \A d \in Connections \ {c} : conn'[d] = conn[d]
         /\ SameProcess(c) /\ conn'[c].process = conn[c].process
         /\ conn'[c].step = conn[c].step /\ conn'[c].wire = "OK"
         /\ conn'[c].thread = "running" /\ conn'[c].boot = next_boot + 1
         /\ conn'[c].ack = conn[c].ack
<1> DEFINE new == [conn[c] EXCEPT !.boot = next_boot + 1, !.wire = "OK"]
<1>1. conn[c] \in ConnRecord /\ next_boot + 1 \in Nat /\ conn[c].thread = "running"
  BY DEF ConnsTyped, TypeOK, Hello, Requested
<1>2. /\ new \in ConnRecord /\ new.worker = conn[c].worker /\ new.gen = conn[c].gen
      /\ new.process = conn[c].process /\ new.step = conn[c].step /\ new.wire = "OK"
      /\ new.thread = conn[c].thread /\ new.boot = next_boot + 1 /\ new.ack = conn[c].ack
  BY <1>1 DEF ConnRecord, Verdicts
<1>3. next_boot' = next_boot + 1
  BY DEF Hello, adopt_worker
<1>4. conn' = [conn EXCEPT ![c] = new]
  BY <1>1, <1>3 DEF Hello, ConnsTyped
<1> HIDE DEF new
<1>5. conn'[c] = new
  BY <1>4 DEF ConnsTyped
<1>6. QED
  BY <1>1, <1>2, <1>4, <1>5 DEF ConnsTyped, SameProcess

LEMMA LeaveFields ==
  ASSUME ConnsTyped, NEW c \in Connections, Leave(c)
  PROVE  /\ ConnsTyped' /\ \A d \in Connections \ {c} : conn'[d] = conn[d]
         /\ SameProcess(c) /\ conn'[c].process = conn[c].process
         /\ conn'[c].step = conn[c].step /\ conn'[c].wire = "idle"
         /\ conn'[c].thread = "done" /\ conn'[c].boot = conn[c].boot
         /\ conn'[c].ack = conn[c].ack
<1> DEFINE new == [conn[c] EXCEPT !.thread = "done", !.wire = "idle"]
<1>1. conn[c] \in ConnRecord
  BY DEF ConnsTyped
<1>2. /\ new \in ConnRecord /\ new.worker = conn[c].worker /\ new.gen = conn[c].gen
      /\ new.process = conn[c].process /\ new.step = conn[c].step /\ new.wire = "idle"
      /\ new.thread = "done" /\ new.boot = conn[c].boot /\ new.ack = conn[c].ack
  BY <1>1 DEF ConnRecord
<1>3. conn' = [conn EXCEPT ![c] = new]
  BY <1>1 DEF Leave, ConnsTyped
<1> HIDE DEF new
<1>4. conn'[c] = new
  BY <1>3 DEF ConnsTyped
<1>5. QED
  BY <1>2, <1>3, <1>4 DEF ConnsTyped, SameProcess

-----------------------------------------------------------------------------
(* Processes and threads                                                   *)

\* A connection between the steps: a process that was never started has no
\* thread, and what is on the wire fits the step of a worker that is served.
Orderly(c) ==
  /\ conn[c].process = "unborn" => conn[c].thread = "none" /\ conn[c].boot = None
  /\ conn[c].process # "unborn" =>
       conn[c].worker \in Workers /\ conn[c].gen \in Generations /\ conn[c].thread # "none"
  /\ conn[c].step \in 1 .. 7
  /\ conn[c].thread = "running" /\ conn[c].wire = "HELLO" => conn[c].boot = None
  /\ conn[c].thread = "running" /\ conn[c].process = "running" =>
       \/ conn[c].step <= 6 /\ conn[c].wire \in {Request(conn[c].step)} \cup Verdicts
       \/ conn[c].step = 7 /\ conn[c].wire = "idle"

\* Until main has begun its epoch nothing has happened; then every thread works
\* in the epoch of the registry.
Sessions ==
  /\ ConnsTyped /\ \A c \in Connections : Orderly(c)
  /\ session = None => Init /\ \A c \in Connections : conn[c].process = "unborn"
  /\ session # None => session = epoch /\ epoch \in 1 .. MaxEpoch

\* Every boot belongs to one connection, and to none that is closed if it lives.
ThreadBoots ==
  /\ live_boots \subseteq Boots
  /\ \A c \in Connections : conn[c].boot # None =>
       conn[c].boot \in Boots /\ conn[c].boot <= next_boot
  /\ \A c, d \in Connections : c # d /\ conn[c].boot # None => conn[c].boot # conn[d].boot
  /\ \A c \in Connections : conn[c].thread = "done" => conn[c].boot \notin live_boots
  /\ LiveBootHasThread

ProcessInv == TypeOK /\ AuthorityConsistent /\ Sessions /\ ThreadBoots

\* The requests other than HELLO: the thread answers, and no authority moves.
Served(c) ==
  \/ RegisterRuntime(c) \/ RegisterService(c) \/ RegisterEndpoint(c)
  \/ RegisterCapability(c) \/ RegisterInstance(c)

LEMMA ServedFields ==
  ASSUME NEW c \in Connections, Served(c)
  PROVE  /\ conn[c].thread = "running" /\ conn[c].wire \in Requests \ {"HELLO"}
         /\ \E v \in Verdicts : Reply(c, v)
         /\ UNCHANGED authority
<1>1. ASSUME NEW m, NEW kind, NEW in, NEW op, Answer(c, m, kind, in, op)
      PROVE  (\E v \in Verdicts : Reply(c, v)) /\ (op \/ UNCHANGED vars)
  BY <1>1 DEF Answer, Verdicts
<1>2. CASE RegisterRuntime(c)
  BY <1>1, <1>2 DEF RegisterRuntime, Requested, Requests, register_runtime, CatalogOnly, vars
<1>3. CASE RegisterService(c)
  BY <1>1, <1>3 DEF RegisterService, Requested, Requests, register_service, vars
<1>4. CASE RegisterEndpoint(c)
  BY <1>1, <1>4 DEF RegisterEndpoint, Requested, Requests, register_endpoint, vars
<1>5. CASE RegisterCapability(c)
  BY <1>1, <1>5 DEF RegisterCapability, Requested, Requests, register_capability, vars
<1>6. CASE RegisterInstance(c)
  BY <1>6 DEF RegisterInstance, Requested, Requests, register_instance, vars, Verdicts
<1>7. QED
  BY <1>2, <1>3, <1>4, <1>5, <1>6 DEF Served

\* A connection ends: its boot dies, if it has one.
Ends(c) == EndOfStream(c) \/ ShortRead(c)

LEMMA CoordinatorCases ==
  ASSUME [CoordinatorNext]_cvars
  PROVE  \/ Main
         \/ \E c \in Connections : \E w \in Workers, g \in Generations : Connect(c, w, g)
         \/ \E c \in Connections : Receive(c)
         \/ \E c \in Connections : Crash(c)
         \/ \E c \in Connections : Hello(c)
         \/ \E c \in Connections : Served(c)
         \/ \E c \in Connections : Ends(c)
         \/ UNCHANGED cvars
BY DEF CoordinatorNext, Handle, Served, Ends

-----------------------------------------------------------------------------
(* The threads do what Registry allows                                     *)

LEMMA AcceptedEnvelope ==
  ASSUME ProcessInv, NEW c \in Connections, validate_envelope(Envelope(c))
  PROVE  /\ Envelope(c) \in Envelopes /\ conn[c].boot \in OwnerBoots(Envelope(c))
         /\ conn[c].boot \in live_boots
<1>1. session = epoch /\ conn[c].boot \in live_boots
  BY DEF validate_envelope, Envelope, is_boot_live
<1>2. session # None
  BY <1>1 DEF ProcessInv, Sessions, Init, None
<1>3. session \in 1 .. MaxEpoch /\ conn[c].boot \in Boots
  BY <1>1, <1>2 DEF ProcessInv, Sessions, ThreadBoots
<1>4. QED
  BY <1>1, <1>3 DEF Envelope, Envelopes, OwnerBoots

LEMMA StartedWorker ==
  ASSUME ProcessInv, NEW c \in Connections, conn[c].thread = "running"
  PROVE  /\ conn[c].process # "unborn" /\ conn[c].worker \in Workers
         /\ conn[c].gen \in Generations /\ session # None
BY DEF ProcessInv, Sessions, Orderly

LEMMA RegistryStep == ProcessInv /\ [CoordinatorNext]_cvars => [Next]_vars
<1> SUFFICES ASSUME ProcessInv, [CoordinatorNext]_cvars PROVE [Next]_vars
  OBVIOUS
<1>1. CASE Main
  BY <1>1 DEF Main, Next, AuthorityNext
<1>2. ASSUME NEW c \in Connections, NEW w, NEW g, Connect(c, w, g)
      PROVE  UNCHANGED vars
  BY <1>2 DEF Connect
<1>3. ASSUME NEW c \in Connections, Receive(c) \/ Crash(c)
      PROVE  UNCHANGED vars
  BY <1>3 DEF Receive, Crash
<1>4. ASSUME NEW c \in Connections, Hello(c)
      PROVE  Next
  <2>1. adopt_worker(conn[c].worker) /\ conn[c].worker \in Workers
    BY <1>4, StartedWorker DEF Hello, Requested
  <2>2. QED
    BY <2>1 DEF Next, AuthorityNext
<1>5. ASSUME NEW c \in Connections, Served(c)
      PROVE  Next \/ UNCHANGED vars
  <2> DEFINE w == conn[c].worker
             g == conn[c].gen
             env == Envelope(c)
  <2>1. w \in Workers /\ g \in Generations
    BY <1>5, ServedFields, StartedWorker
  <2>2. /\ RuntimeRequest(w) \in CatalogInputs /\ ServiceRequest(w) \in ServiceInputs
        /\ EndpointRequest(w, g) \in EndpointInputs
        /\ CapabilityRequest(w) \in CapabilityInputs /\ InstanceRequest(w, g) \in InstanceInputs
    BY <2>1, RequestsAssumption
  <2>3. CASE RegisterRuntime(c)
    <3>1. register_runtime(env, RuntimeRequest(w)) \/ UNCHANGED vars
      BY <2>3 DEF RegisterRuntime, Answer
    <3>2. ASSUME register_runtime(env, RuntimeRequest(w)) PROVE CatalogNext
      <4>1. env \in Envelopes
        BY <3>2, AcceptedEnvelope DEF register_runtime
      <4>2. QED
        BY <3>2, <4>1, <2>2 DEF CatalogNext
    <3>3. QED
      BY <3>1, <3>2 DEF Next
  <2>4. CASE RegisterService(c)
    <3>1. register_service(env, ServiceRequest(w)) \/ UNCHANGED vars
      BY <2>4 DEF RegisterService, Answer
    <3>2. ASSUME register_service(env, ServiceRequest(w)) PROVE RegistrationNext
      <4>1. env \in Envelopes
        BY <3>2, AcceptedEnvelope DEF register_service
      <4>2. QED
        BY <3>2, <4>1, <2>2 DEF RegistrationNext
    <3>3. QED
      BY <3>1, <3>2 DEF Next
  <2>5. CASE RegisterEndpoint(c)
    <3>1. register_endpoint(env, EndpointRequest(w, g)) \/ UNCHANGED vars
      BY <2>5 DEF RegisterEndpoint, Answer
    <3>2. ASSUME register_endpoint(env, EndpointRequest(w, g)) PROVE RegistrationNext
      <4>1. env \in Envelopes
        BY <3>2, AcceptedEnvelope DEF register_endpoint
      <4>2. QED
        BY <3>2, <4>1, <2>2 DEF RegistrationNext
    <3>3. QED
      BY <3>1, <3>2 DEF Next
  <2>6. CASE RegisterCapability(c)
    <3>1. register_capability(env, CapabilityRequest(w)) \/ UNCHANGED vars
      BY <2>6 DEF RegisterCapability, Answer
    <3>2. ASSUME register_capability(env, CapabilityRequest(w)) PROVE RegistrationNext
      <4>1. env \in Envelopes
        BY <3>2, AcceptedEnvelope DEF register_capability
      <4>2. QED
        BY <3>2, <4>1, <2>2 DEF RegistrationNext
    <3>3. QED
      BY <3>1, <3>2 DEF Next
  <2>7. CASE RegisterInstance(c)
    <3>1. register_instance(env, InstanceRequest(w, g), conn[c].boot) \/ UNCHANGED vars
      BY <2>7 DEF RegisterInstance
    <3>2. ASSUME register_instance(env, InstanceRequest(w, g), conn[c].boot)
          PROVE  RegistrationNext
      <4>1. env \in Envelopes /\ conn[c].boot \in OwnerBoots(env)
        BY <3>2, AcceptedEnvelope DEF register_instance
      <4>2. QED
        BY <3>2, <4>1, <2>2 DEF RegistrationNext
    <3>3. QED
      BY <3>1, <3>2 DEF Next
  <2>8. QED
    BY <1>5, <2>3, <2>4, <2>5, <2>6, <2>7 DEF Served
<1>6. ASSUME NEW c \in Connections, Ends(c)
      PROVE  Next \/ UNCHANGED vars
  <2>1. Leave(c)
    BY <1>6 DEF Ends, EndOfStream, ShortRead
  <2>2. CASE conn[c].boot # None
    <3>1. mark_worker_died(conn[c].boot) /\ conn[c].boot \in Boots
      BY <2>1, <2>2 DEF Leave, ProcessInv, ThreadBoots
    <3>2. QED
      BY <3>1 DEF Next, AuthorityNext
  <2>3. CASE conn[c].boot = None
    BY <2>1, <2>3 DEF Leave
  <2>4. QED
    BY <2>2, <2>3
<1>7. CASE UNCHANGED cvars
  BY <1>7 DEF cvars
<1>8. QED
  BY <1>1, <1>2, <1>3, <1>4, <1>5, <1>6, <1>7, CoordinatorCases

-----------------------------------------------------------------------------
(* The invariant of processes and threads                                  *)

LEMMA OrderlyFrame ==
  ASSUME NEW d \in Connections, Orderly(d), conn'[d] = conn[d]
  PROVE  Orderly(d)'
BY DEF Orderly

\* Steps of one connection after main has begun its epoch.
LEMMA SessionsFrame ==
  ASSUME Sessions, session # None, UNCHANGED <<session, epoch>>, ConnsTyped',
         NEW c \in Connections, \A d \in Connections \ {c} : conn'[d] = conn[d], Orderly(c)'
  PROVE  Sessions'
<1>1. \A d \in Connections : Orderly(d)'
  BY OrderlyFrame DEF Sessions
<1>2. QED
  BY <1>1 DEF Sessions

LEMMA SessionsStep == ProcessInv /\ [CoordinatorNext]_cvars => Sessions'
<1> SUFFICES ASSUME ProcessInv, [CoordinatorNext]_cvars PROVE Sessions'
  OBVIOUS
<1>1. Sessions /\ ConnsTyped /\ TypeOK
  BY DEF ProcessInv, Sessions
<1>2. CASE Main
  <2>1. /\ session = None /\ session' = epoch' /\ conn' = conn
        /\ epoch' = epoch + 1 /\ epoch < MaxEpoch
    BY <1>2 DEF Main, begin_coordinator_epoch
  <2>2. epoch = 1
    BY <1>1, <2>1 DEF Sessions, Init
  <2>3. session' # None /\ epoch' \in 1 .. MaxEpoch
    BY <2>1, <2>2, BoundsAssumption DEF None
  <2>4. ConnsTyped' /\ \A c \in Connections : Orderly(c)'
    BY <1>1, <2>1, OrderlyFrame DEF Sessions, ConnsTyped
  <2>5. QED
    BY <2>1, <2>3, <2>4 DEF Sessions
<1>3. ASSUME NEW c \in Connections, NEW w \in Workers, NEW g \in Generations, Connect(c, w, g)
      PROVE  Sessions'
  <2>1. w \in Nat /\ g \in Nat
    BY BoundsAssumption, CoordinatorAssumption
  <2>2. session # None /\ UNCHANGED <<session, epoch>>
    BY <1>3 DEF Connect, vars, authority
  <2>3. Orderly(c)'
    BY <1>1, <1>3, <2>1, ConnectFields, ScriptFacts DEF Orderly, None
  <2>4. QED
    BY <1>1, <1>3, <2>1, <2>2, <2>3, ConnectFields, SessionsFrame
<1>4. ASSUME NEW c \in Connections, Receive(c)
      PROVE  Sessions'
  <2>1. conn[c].process = "running" /\ conn[c].step <= 6 /\ conn[c].step \in 1 .. 7 /\ Orderly(c)
    BY <1>1, <1>4, ScriptFacts DEF Receive, Working, Sessions, Orderly
  <2>2. session # None /\ UNCHANGED <<session, epoch>>
    BY <1>1, <1>4, <2>1 DEF Receive, Sessions, vars, authority
  <2>3. Request(conn[c].step + 1) # "HELLO" /\ conn[c].step + 1 \in 1 .. 7
    <3>1. \/ conn[c].step = 1 \/ conn[c].step = 2 \/ conn[c].step = 3
          \/ conn[c].step = 4 \/ conn[c].step = 5 \/ conn[c].step = 6
      BY <2>1
    <3>2. Request(7) = "idle"
      BY ScriptFacts
    <3>3. QED
      BY <3>1, <3>2, ScriptFacts
  <2>4. conn[c].step + 1 = 7 => Request(conn[c].step + 1) = "idle"
    BY ScriptFacts
  <2>5. Orderly(c)'
    BY <1>1, <1>4, <2>1, <2>3, <2>4, ReceiveFields DEF Orderly, SameProcess
  <2>6. QED
    BY <1>1, <1>4, <2>2, <2>5, ReceiveFields, SessionsFrame
<1>5. ASSUME NEW c \in Connections, Crash(c)
      PROVE  Sessions'
  <2>1. conn[c].process = "running" /\ Orderly(c)
    BY <1>1, <1>5 DEF Crash, Sessions
  <2>2. session # None /\ UNCHANGED <<session, epoch>>
    BY <1>1, <1>5, <2>1 DEF Crash, Sessions, vars, authority
  <2>3. Orderly(c)'
    BY <1>1, <1>5, <2>1, CrashFields DEF Orderly, SameProcess
  <2>4. QED
    BY <1>1, <1>5, <2>2, <2>3, CrashFields, SessionsFrame
<1>6. ASSUME NEW c \in Connections, Hello(c)
      PROVE  Sessions'
  <2>1. conn[c].thread = "running" /\ conn[c].wire = "HELLO" /\ Orderly(c)
    BY <1>1, <1>6 DEF Hello, Requested, Sessions
  <2>2. session # None /\ UNCHANGED <<session, epoch>>
    BY <1>6, <2>1, StartedWorker DEF Hello, adopt_worker
  <2>3. conn[c].process = "running" => conn[c].step <= 6
    BY <2>1 DEF Orderly
  <2>4. Orderly(c)'
    BY <1>1, <1>6, <2>1, <2>3, HelloFields DEF Orderly, SameProcess, Verdicts
  <2>5. QED
    BY <1>1, <1>6, <2>2, <2>4, HelloFields, SessionsFrame
<1>7. ASSUME NEW c \in Connections, Served(c)
      PROVE  Sessions'
  <2>1. PICK v \in Verdicts : Reply(c, v)
    BY <1>7, ServedFields
  <2>2. conn[c].thread = "running" /\ conn[c].wire \in Requests \ {"HELLO"} /\ Orderly(c)
    BY <1>1, <1>7, ServedFields DEF Sessions
  <2>3. session # None /\ UNCHANGED <<session, epoch>>
    BY <1>7, <2>1, <2>2, ServedFields, StartedWorker DEF Reply, authority
  <2>4. conn[c].process = "running" => conn[c].step <= 6
    BY <2>2 DEF Orderly, Requests
  <2>5. Orderly(c)'
    BY <1>1, <2>1, <2>2, <2>4, ReplyFields DEF Orderly, SameProcess, Verdicts
  <2>6. QED
    BY <1>1, <2>1, <2>3, <2>5, ReplyFields, SessionsFrame
<1>8. ASSUME NEW c \in Connections, Ends(c)
      PROVE  Sessions'
  <2>1. Leave(c) /\ conn[c].thread = "running" /\ Orderly(c)
    BY <1>1, <1>8 DEF Ends, EndOfStream, ShortRead, Sessions
  <2>2. session # None /\ UNCHANGED <<session, epoch>>
    BY <2>1, StartedWorker DEF Leave, mark_worker_died, vars, authority
  <2>3. Orderly(c)'
    BY <1>1, <2>1, LeaveFields DEF Orderly, SameProcess
  <2>4. QED
    BY <1>1, <2>1, <2>2, <2>3, LeaveFields, SessionsFrame
<1>9. CASE UNCHANGED cvars
  <2>1. conn' = conn /\ session' = session /\ UNCHANGED vars
    BY <1>9 DEF cvars
  <2>2. ConnsTyped' /\ \A c \in Connections : Orderly(c)'
    BY <1>1, <2>1, OrderlyFrame DEF Sessions, ConnsTyped
  <2>3. Init => Init'
    BY <2>1 DEF Init, vars, authority
  <2>4. epoch' = epoch
    BY <2>1 DEF vars, authority
  <2>5. QED
    BY <1>1, <2>1, <2>2, <2>3, <2>4 DEF Sessions
<1>10. QED
  BY <1>2, <1>3, <1>4, <1>5, <1>6, <1>7, <1>8, <1>9, CoordinatorCases

\* Steps that move no boot.
LEMMA BootsFrame ==
  ASSUME ThreadBoots, UNCHANGED <<live_boots, next_boot, boot_worker>>,
         \A d \in Connections :
           /\ conn'[d].boot = conn[d].boot
           /\ conn[d].thread = "running" =>
                conn'[d].thread = "running" /\ conn'[d].worker = conn[d].worker
           /\ conn'[d].thread = "done" => conn[d].thread = "done"
  PROVE  ThreadBoots'
<1>1. LiveBootHasThread'
  BY DEF ThreadBoots, LiveBootHasThread
<1>2. QED
  BY <1>1 DEF ThreadBoots

\* A worker says hello: its connection gets the boot that is issued.
LEMMA BootsHello ==
  ASSUME ProcessInv, NEW c \in Connections, Hello(c)
  PROVE  ThreadBoots'
<1> DEFINE w == conn[c].worker
           prev == Lookup(current_boot, w, None)
           new == next_boot + 1
<1>1. /\ ThreadBoots /\ TypeOK /\ ConnsTyped /\ AuthorityConsistent
      /\ conn[c].boot = None /\ conn[c].thread = "running"
  BY DEF ProcessInv, Sessions, Orderly, Hello, Requested
<1>2. /\ next_boot' = new /\ live_boots' = (live_boots \ {prev}) \cup {new}
      /\ boot_worker' = Put(RevokedOwners(prev), new, w) /\ next_boot < MaxBoot
  BY DEF Hello, adopt_worker
<1>3. /\ \A d \in Connections \ {c} : conn'[d] = conn[d]
      /\ conn'[c].worker = w /\ conn'[c].thread = "running" /\ conn'[c].boot = new
  BY <1>1, HelloFields DEF SameProcess
<1>4. next_boot \in Nat /\ FirstBoot \in Nat /\ MaxBoot \in Nat /\ next_boot >= FirstBoot
  BY <1>1, BoundsAssumption DEF TypeOK, AuthorityConsistent
<1>5. new \in Boots /\ new # None
  BY <1>2, <1>4 DEF Boots, None
<1>6. \A d \in Connections : conn[d].boot \in Nat
  BY <1>1 DEF ConnsTyped, ConnRecord
<1>7. \A d \in Connections : conn[d].boot # new
  BY <1>1, <1>4, <1>5, <1>6 DEF ThreadBoots
<1> HIDE DEF prev
<1>8. \A b \in live_boots \ {prev} : boot_worker'[b] = boot_worker[b] /\ b # new
  <2>1. /\ DOMAIN RevokedOwners(prev) = live_boots \ {prev}
        /\ \A b \in live_boots \ {prev} : RevokedOwners(prev)[b] = boot_worker[b]
    BY <1>1, RevokeAuthority
  <2>2. new \notin live_boots
    BY <1>1, <1>4 DEF AuthorityConsistent
  <2>3. QED
    BY <1>2, <2>1, <2>2 DEF Put
<1>9. boot_worker'[new] = w
  BY <1>2 DEF Put
<1>10. LiveBootHasThread'
  <2> SUFFICES ASSUME NEW b \in live_boots'
               PROVE  \E d \in Connections : /\ conn'[d].thread = "running" /\ conn'[d].boot = b
                                             /\ conn'[d].worker = boot_worker'[b]
    BY DEF LiveBootHasThread
  <2>1. CASE b = new
    BY <1>3, <1>9, <2>1
  <2>2. CASE b \in live_boots \ {prev}
    <3>1. PICK d \in Connections : /\ conn[d].thread = "running" /\ conn[d].boot = b
                                   /\ conn[d].worker = boot_worker[b]
      BY <1>1, <2>2 DEF ThreadBoots, LiveBootHasThread
    <3>2. None \notin live_boots
      BY <1>1, <1>4 DEF AuthorityConsistent, None
    <3>3. d # c
      BY <1>1, <2>2, <3>1, <3>2
    <3>4. QED
      BY <1>3, <1>8, <2>2, <3>1, <3>3
  <2>3. QED
    BY <1>2, <2>1, <2>2
<1>11. \A d \in Connections : conn'[d].boot # None =>
         conn'[d].boot \in Boots /\ conn'[d].boot <= next_boot'
  <2> SUFFICES ASSUME NEW d \in Connections, conn'[d].boot # None
               PROVE  conn'[d].boot \in Boots /\ conn'[d].boot <= next_boot'
    OBVIOUS
  <2>1. CASE d = c
    BY <1>2, <1>3, <1>4, <1>5, <2>1
  <2>2. CASE d # c
    BY <1>1, <1>2, <1>3, <1>4, <1>6, <2>2 DEF ThreadBoots
  <2>3. QED
    BY <2>1, <2>2
<1>12. \A d, e \in Connections : d # e /\ conn'[d].boot # None => conn'[d].boot # conn'[e].boot
  BY <1>1, <1>3, <1>7 DEF ThreadBoots
<1>13. \A d \in Connections : conn'[d].thread = "done" => conn'[d].boot \notin live_boots'
  BY <1>1, <1>2, <1>3, <1>7 DEF ThreadBoots
<1>14. live_boots' \subseteq Boots
  BY <1>1, <1>2, <1>5 DEF ThreadBoots
<1>15. QED
  BY <1>10, <1>11, <1>12, <1>13, <1>14 DEF ThreadBoots

\* A connection ends: its boot is not live any more, the others are.
LEMMA BootsEnd ==
  ASSUME ProcessInv, NEW c \in Connections, Ends(c)
  PROVE  ThreadBoots'
<1> DEFINE b == conn[c].boot
<1>1. Leave(c) /\ ThreadBoots /\ TypeOK /\ ConnsTyped /\ AuthorityConsistent
  BY DEF ProcessInv, Sessions, Ends, EndOfStream, ShortRead
<1>2. /\ \A d \in Connections \ {c} : conn'[d] = conn[d]
      /\ conn'[c].thread = "done" /\ conn'[c].boot = b
  BY <1>1, LeaveFields
<1>3. None \notin live_boots
  BY <1>1, BoundsAssumption DEF TypeOK, AuthorityConsistent, None
<1>4. /\ live_boots' = live_boots \ {b} /\ next_boot' = next_boot
      /\ \A x \in live_boots \ {b} : boot_worker'[x] = boot_worker[x]
  <2>1. CASE b # None
    <3>1. mark_worker_died(b)
      BY <1>1, <2>1 DEF Leave
    <3>2. \A x \in live_boots \ {b} : RevokedOwners(b)[x] = boot_worker[x]
      BY <1>1, RevokeAuthority
    <3>3. QED
      BY <3>1, <3>2 DEF mark_worker_died
  <2>2. CASE b = None
    BY <1>1, <1>3, <2>2 DEF Leave, vars, authority
  <2>3. QED
    BY <2>1, <2>2
<1>5. LiveBootHasThread'
  <2> SUFFICES ASSUME NEW x \in live_boots'
               PROVE  \E d \in Connections : /\ conn'[d].thread = "running" /\ conn'[d].boot = x
                                             /\ conn'[d].worker = boot_worker'[x]
    BY DEF LiveBootHasThread
  <2>1. x \in live_boots /\ x # b
    BY <1>4
  <2>2. PICK d \in Connections : /\ conn[d].thread = "running" /\ conn[d].boot = x
                                 /\ conn[d].worker = boot_worker[x]
    BY <1>1, <2>1 DEF ThreadBoots, LiveBootHasThread
  <2>3. QED
    BY <1>2, <1>4, <2>1, <2>2
<1>6. \A d \in Connections : conn'[d].boot = conn[d].boot
  BY <1>2
<1>7. \A d \in Connections : conn'[d].thread = "done" => conn'[d].boot \notin live_boots'
  BY <1>1, <1>2, <1>4 DEF ThreadBoots
<1>8. QED
  BY <1>1, <1>4, <1>5, <1>6, <1>7 DEF ThreadBoots

LEMMA ThreadBootsStep == ProcessInv /\ [CoordinatorNext]_cvars => ThreadBoots'
<1> SUFFICES ASSUME ProcessInv, [CoordinatorNext]_cvars PROVE ThreadBoots'
  OBVIOUS
<1>1. ThreadBoots /\ ConnsTyped /\ TypeOK /\ \A c \in Connections : Orderly(c)
  BY DEF ProcessInv, Sessions
<1>2. CASE Main
  <2>1. live_boots = {} /\ live_boots' = {} /\ next_boot' = next_boot /\ conn' = conn
    BY <1>2 DEF Main, begin_coordinator_epoch, ClearAuthority, ProcessInv, Sessions, Init
  <2>2. QED
    BY <1>1, <2>1 DEF ThreadBoots, LiveBootHasThread
<1>3. ASSUME NEW c \in Connections, NEW w \in Workers, NEW g \in Generations, Connect(c, w, g)
      PROVE  ThreadBoots'
  <2>1. w \in Nat /\ g \in Nat
    BY BoundsAssumption, CoordinatorAssumption
  <2>2. conn[c].thread = "none" /\ conn[c].boot = None
    BY <1>1, <1>3 DEF Connect, Orderly
  <2>3. UNCHANGED <<live_boots, next_boot, boot_worker>>
    BY <1>3 DEF Connect, vars, authority
  <2>4. /\ \A d \in Connections \ {c} : conn'[d] = conn[d]
        /\ conn'[c].thread = "running" /\ conn'[c].boot = None
    BY <1>1, <1>3, <2>1, ConnectFields
  <2>5. QED
    BY <1>1, <2>2, <2>3, <2>4, BootsFrame
<1>4. ASSUME NEW c \in Connections, Receive(c)
      PROVE  ThreadBoots'
  <2>1. UNCHANGED <<live_boots, next_boot, boot_worker>>
    BY <1>4 DEF Receive, vars, authority
  <2>2. QED
    BY <1>1, <1>4, <2>1, ReceiveFields, BootsFrame DEF SameProcess
<1>5. ASSUME NEW c \in Connections, Crash(c)
      PROVE  ThreadBoots'
  <2>1. UNCHANGED <<live_boots, next_boot, boot_worker>>
    BY <1>5 DEF Crash, vars, authority
  <2>2. QED
    BY <1>1, <1>5, <2>1, CrashFields, BootsFrame DEF SameProcess
<1>6. ASSUME NEW c \in Connections, Served(c)
      PROVE  ThreadBoots'
  <2>1. PICK v \in Verdicts : Reply(c, v)
    BY <1>6, ServedFields
  <2>2. UNCHANGED <<live_boots, next_boot, boot_worker>>
    BY <1>6, ServedFields DEF authority
  <2>3. QED
    BY <1>1, <2>1, <2>2, ReplyFields, BootsFrame DEF SameProcess
<1>7. CASE UNCHANGED cvars
  BY <1>1, <1>7, BootsFrame DEF cvars, vars, authority
<1>8. QED
  BY <1>2, <1>3, <1>4, <1>5, <1>6, <1>7, BootsHello, BootsEnd, CoordinatorCases

LEMMA ProcessInitial == CoordinatorInit => ProcessInv
<1> SUFFICES ASSUME CoordinatorInit PROVE ProcessInv
  OBVIOUS
<1>1. /\ Init /\ session = None /\ conn = [c \in Connections |-> Unborn]
  BY DEF CoordinatorInit
<1>2. TypeOK /\ AuthorityConsistent /\ live_boots = {}
  BY <1>1, TypeInit, AuthorityInit DEF Init
<1>3. Unborn \in ConnRecord
  BY DEF Unborn, ConnRecord, None
<1>4. \A c \in Connections : conn[c] = Unborn
  BY <1>1
<1>5. ConnsTyped
  BY <1>1, <1>3 DEF ConnsTyped
<1>6. \A c \in Connections : Orderly(c)
  BY <1>4 DEF Orderly, Unborn, None
<1>7. Sessions
  BY <1>1, <1>4, <1>5, <1>6 DEF Sessions, Unborn
<1>8. ThreadBoots
  BY <1>2, <1>4 DEF ThreadBoots, LiveBootHasThread, Unborn, None
<1>9. QED
  BY <1>2, <1>7, <1>8 DEF ProcessInv

LEMMA ProcessStep == ProcessInv /\ [CoordinatorNext]_cvars => ProcessInv'
<1>1. ProcessInv /\ [CoordinatorNext]_cvars => TypeOK' /\ AuthorityConsistent'
  BY RegistryStep, TypeNext, AuthorityStep DEF ProcessInv
<1>2. QED
  BY <1>1, SessionsStep, ThreadBootsStep DEF ProcessInv

LEMMA ProcessInvariant == CoordinatorSpec => []ProcessInv
BY ProcessInitial, ProcessStep, PTL DEF CoordinatorSpec

\* No incarnation is live without a thread that will declare it dead: HELLO
\* gives the new boot to a connection that is served, and the end of a
\* connection takes its boot with it (handle_connection).
THEOREM ThreadsCorrect == CoordinatorSpec => []LiveBootHasThread
BY ProcessInvariant, PTL DEF ProcessInv, ThreadBoots

\* The coordinator implements Registry: every step of its threads is one
\* operation of the registry or none.
THEOREM CoordinatorImplements == CoordinatorSpec => ImplementsRegistry
<1>1. CoordinatorInit => Init
  BY DEF CoordinatorInit
<1>2. QED
  BY <1>1, ProcessInvariant, RegistryStep, PTL DEF CoordinatorSpec, ImplementsRegistry, Spec

-----------------------------------------------------------------------------
(* What a worker that holds was told                                       *)

\* The k-th request of a running worker was answered, and what the last one,
\* which registers the instance, was answered with.
After(c, k) == conn[c].step > k \/ (conn[c].step = k /\ conn[c].wire \in Verdicts)
Told(c, v) ==
  \/ conn[c].step = 6 /\ conn[c].wire = v
  \/ conn[c].step = 7 /\ conn[c].ack = v

\* A worker that runs and whose incarnation is the live one.
Active(c) == conn[c].process = "running" /\ conn[c].boot \in live_boots

\* The process behind an endpoint of generation g, and the one behind an
\* instance.  A process that still runs has its answer.
EndpointBy(d, e, g) ==
  /\ conn[d].process # "unborn" /\ conn[d].worker = e /\ conn[d].gen = g
  /\ conn[d].process = "running" => After(d, 4)
InstanceBy(d, inst) ==
  /\ conn[d].boot # None /\ inst.boot = conn[d].boot
  /\ inst.service_id = ServiceOf(conn[d].worker)
  /\ inst.instance_generation = conn[d].gen /\ inst.endpoints = <<conn[d].worker>>
  /\ conn[d].process = "running" => After(d, 6)

\* What the requests of workers make of the records: no tombstones, one
\* required capability, and endpoints that are reachable or released.
Plain ==
  /\ DOMAIN tombstones = {} /\ next_id >= 1
  /\ \A i \in DOMAIN instances : i < next_id /\ i # None
  /\ \A s \in DOMAIN services : services[s].required_capabilities = {"CUDA_AVAILABLE"}
  /\ \A k \in DOMAIN capabilities :
       capabilities[k].kind = "CUDA_AVAILABLE" /\ capabilities[k].freshness = "CURRENT"
  /\ \A e \in DOMAIN endpoints :
       /\ endpoints[e].health = "HEALTHY"
       /\ endpoints[e].reachability \in {"REACHABLE", "UNREACHABLE"}

\* Every endpoint and every instance was written by some process.
Written ==
  /\ \A e \in DOMAIN endpoints :
       \E d \in Connections : EndpointBy(d, e, endpoints[e].generation)
  /\ \A i \in DOMAIN instances : \E d \in Connections : InstanceBy(d, instances[i])

\* An endpoint that is bound is bound to an instance of a live incarnation.
Bound ==
  \A e \in DOMAIN endpoints :
    LET owner == endpoints[e].service_instance
    IN  owner # None => /\ owner \in DOMAIN instances
                        /\ instances[owner].boot \in live_boots
                        /\ instances[owner].endpoints = <<e>>

\* The instance of a worker serves it.
IsServed(c) ==
  \E i \in DOMAIN instances :
    /\ instances[i].boot = conn[c].boot
    /\ endpoints[conn[c].worker].service_instance = i
    /\ \/ instances[i].lifecycle = "AVAILABLE"
       \/ instances[i].lifecycle = "UNREACHABLE" /\ Rivalled(c)

\* How far an active worker came: what its answers say is still so.
Progress(c) ==
  /\ After(c, 3) => ServiceOf(conn[c].worker) \in DOMAIN services
  /\ After(c, 4) =>
       /\ conn[c].worker \in DOMAIN endpoints
       /\ Rivalled(c) \/ endpoints[conn[c].worker].reachability = "REACHABLE"
  /\ After(c, 5) => conn[c].worker \in DOMAIN capabilities
  /\ Told(c, "OK") => IsServed(c)
  /\ Told(c, "ERROR") => Rivalled(c)

HoldingInv ==
  /\ Plain /\ Written /\ Bound
  /\ \A c \in Connections : Active(c) => Progress(c)

\* A process keeps its worker, its generation and, once it has one, its boot;
\* what was answered stays answered as long as it runs.
Onward(d) ==
  /\ conn[d].process # "unborn" => conn'[d].process # "unborn" /\ SameProcess(d)
  /\ conn[d].boot # None => conn'[d].boot = conn[d].boot
  /\ conn[d].process # "unborn" /\ conn'[d].process = "running" =>
       conn[d].process = "running" /\ \A k \in Nat : After(d, k) => After(d, k)'

LEMMA OnwardStep ==
  ASSUME ProcessInv, [CoordinatorNext]_cvars
  PROVE  \A d \in Connections : Onward(d)
<1>1. ConnsTyped /\ TypeOK /\ \A d \in Connections : Orderly(d)
  BY DEF ProcessInv, Sessions
<1>2. ASSUME NEW d \in Connections, conn'[d] = conn[d]
      PROVE  Onward(d)
  BY <1>2 DEF Onward, SameProcess, After
<1>3. \A d \in Connections : conn[d].step \in Nat
  BY <1>1 DEF ConnsTyped, ConnRecord
<1>4. CASE Main \/ UNCHANGED cvars
  BY <1>2, <1>4 DEF Main, cvars
<1>5. ASSUME NEW c \in Connections, NEW w \in Workers, NEW g \in Generations, Connect(c, w, g)
      PROVE  \A d \in Connections : Onward(d)
  <2>1. w \in Nat /\ g \in Nat
    BY BoundsAssumption, CoordinatorAssumption
  <2>2. conn[c].process = "unborn" /\ conn[c].boot = None
    BY <1>1, <1>5 DEF Connect, Orderly
  <2>3. \A d \in Connections \ {c} : conn'[d] = conn[d]
    BY <1>1, <1>5, <2>1, ConnectFields
  <2>4. Onward(c)
    BY <2>2 DEF Onward
  <2>5. QED
    BY <1>2, <2>3, <2>4
<1>6. ASSUME NEW c \in Connections, Receive(c)
      PROVE  \A d \in Connections : Onward(d)
  <2>1. /\ conn[c].process = "running" /\ conn'[c].process = "running"
        /\ conn'[c].step = conn[c].step + 1 /\ conn'[c].boot = conn[c].boot
        /\ SameProcess(c) /\ \A d \in Connections \ {c} : conn'[d] = conn[d]
    BY <1>1, <1>6, ReceiveFields DEF Receive, Working
  <2>2. \A k \in Nat : After(c, k) => After(c, k)'
    BY <1>3, <2>1 DEF After
  <2>3. Onward(c)
    BY <2>1, <2>2 DEF Onward
  <2>4. QED
    BY <1>2, <2>1, <2>3
<1>7. ASSUME NEW c \in Connections, Crash(c)
      PROVE  \A d \in Connections : Onward(d)
  <2>1. Onward(c)
    BY <1>1, <1>7, CrashFields DEF Onward
  <2>2. QED
    BY <1>1, <1>2, <1>7, <2>1, CrashFields
<1>8. ASSUME NEW c \in Connections, Hello(c)
      PROVE  \A d \in Connections : Onward(d)
  <2>1. conn[c].boot = None /\ conn[c].wire = "HELLO"
    BY <1>1, <1>8 DEF Hello, Requested, Orderly
  <2>2. Onward(c)
    BY <1>1, <1>8, <2>1, HelloFields DEF Onward, After, Verdicts
  <2>3. QED
    BY <1>1, <1>2, <1>8, <2>2, HelloFields
<1>9. ASSUME NEW c \in Connections, Served(c)
      PROVE  \A d \in Connections : Onward(d)
  <2>1. PICK v \in Verdicts : Reply(c, v)
    BY <1>9, ServedFields
  <2>2. Onward(c)
    BY <1>1, <2>1, ReplyFields DEF Onward, After
  <2>3. QED
    BY <1>1, <1>2, <2>1, <2>2, ReplyFields
<1>10. ASSUME NEW c \in Connections, Ends(c)
       PROVE  \A d \in Connections : Onward(d)
  <2>1. Leave(c)
    BY <1>10 DEF Ends, EndOfStream, ShortRead
  <2>2. conn[c].process = "gone" \/ conn[c].wire \in Requests
    BY <1>10, ScriptFacts DEF Ends, EndOfStream, ShortRead
  <2>3. Onward(c)
    BY <1>1, <2>1, <2>2, LeaveFields DEF Onward, After, Verdicts, Requests
  <2>4. QED
    BY <1>1, <1>2, <2>1, <2>3, LeaveFields
<1>11. QED
  BY <1>4, <1>5, <1>6, <1>7, <1>8, <1>9, <1>10, CoordinatorCases

\* So who wrote a record stays its author, and a rival stays a rival.
LEMMA AuthorsKept ==
  ASSUME \A d \in Connections : Onward(d)
  PROVE  /\ \A d \in Connections : \A e, g : EndpointBy(d, e, g) => EndpointBy(d, e, g)'
         /\ \A d \in Connections : conn[d].process # "unborn" =>
              \A inst : InstanceBy(d, inst) => InstanceBy(d, inst)'
         /\ \A d \in Connections : conn[d].process # "unborn" => (Rivalled(d) => Rivalled(d)')
<1>1. \A d \in Connections : \A e, g : EndpointBy(d, e, g) => EndpointBy(d, e, g)'
  BY DEF Onward, EndpointBy, SameProcess
<1>2. \A d \in Connections : conn[d].process # "unborn" =>
        \A inst : InstanceBy(d, inst) => InstanceBy(d, inst)'
  BY DEF Onward, InstanceBy, SameProcess
<1>3. \A d \in Connections : conn[d].process # "unborn" => (Rivalled(d) => Rivalled(d)')
  BY DEF Onward, Rivalled, SameProcess
<1>4. QED
  BY <1>1, <1>2, <1>3

\* A worker has one live incarnation, of one process.
LEMMA OneLiveProcess ==
  ASSUME ProcessInv, NEW c \in Connections, NEW d \in Connections,
         conn[c].boot \in live_boots, conn[d].boot \in live_boots,
         conn[c].worker = conn[d].worker
  PROVE  c = d
<1>1. ThreadBoots /\ AuthorityConsistent /\ TypeOK
  BY DEF ProcessInv
<1>2. None \notin live_boots
  BY <1>1, BoundsAssumption DEF TypeOK, AuthorityConsistent, None
<1>3. ASSUME NEW x \in Connections, conn[x].boot \in live_boots
      PROVE  Lookup(current_boot, conn[x].worker, None) = conn[x].boot
  <2>1. PICK y \in Connections : /\ conn[y].boot = conn[x].boot
                                 /\ conn[y].worker = boot_worker[conn[x].boot]
    BY <1>1, <1>3 DEF ThreadBoots, LiveBootHasThread
  <2>2. x = y
    BY <1>1, <1>2, <1>3, <2>1 DEF ThreadBoots
  <2>3. QED
    BY <1>1, <1>3, <2>1, <2>2 DEF AuthorityConsistent
<1>4. conn[c].boot = conn[d].boot
  BY <1>3
<1>5. QED
  BY <1>1, <1>2, <1>4 DEF ThreadBoots

LEMMA ActiveFacts ==
  ASSUME ProcessInv, NEW c \in Connections, Active(c)
  PROVE  /\ conn[c].boot # None /\ conn[c].thread = "running" /\ conn[c].process = "running"
         /\ conn[c].worker \in Workers /\ conn[c].gen \in Generations
         /\ session # None /\ session = epoch /\ validate_envelope(Envelope(c))
<1>1. None \notin live_boots
  BY BoundsAssumption DEF ProcessInv, TypeOK, AuthorityConsistent, None
<1>2. /\ conn[c].boot # None /\ conn[c].thread # "done" /\ Orderly(c) /\ conn[c].process = "running"
      /\ ConnsTyped
  BY <1>1 DEF Active, ProcessInv, ThreadBoots, Sessions
<1>3. conn[c].thread = "running"
  BY <1>2 DEF Orderly, ConnsTyped, ConnRecord
<1>4. session # None /\ session = epoch
  BY <1>2 DEF ProcessInv, Sessions
<1>5. validate_envelope(Envelope(c))
  BY <1>4 DEF Active, validate_envelope, Envelope, is_boot_live
<1>6. QED
  BY <1>2, <1>3, <1>4, <1>5 DEF Orderly

\* An instance has one author, by its boot.
LEMMA AuthorOf ==
  ASSUME ProcessInv, Written, NEW i \in DOMAIN instances, NEW c \in Connections,
         instances[i].boot = conn[c].boot
  PROVE  InstanceBy(c, instances[i])
<1>1. PICK d \in Connections : InstanceBy(d, instances[i])
  BY DEF Written
<1>2. d = c
  BY <1>1 DEF InstanceBy, ProcessInv, ThreadBoots
<1>3. QED
  BY <1>1, <1>2

\* A step that leaves alone what worker c depends on.
Spared(c) ==
  /\ DOMAIN services \subseteq DOMAIN services'
  /\ DOMAIN capabilities \subseteq DOMAIN capabilities'
  /\ conn[c].worker \in DOMAIN endpoints =>
       /\ conn[c].worker \in DOMAIN endpoints'
       /\ endpoints'[conn[c].worker] = endpoints[conn[c].worker]
  /\ \A i \in DOMAIN instances : instances[i].boot = conn[c].boot =>
       i \in DOMAIN instances' /\ instances'[i] = instances[i]

\* Such a step of somebody else keeps Progress, and so does reading a reply.
LEMMA ProgressSpared ==
  ASSUME ProcessInv, \A d \in Connections : Onward(d), NEW c \in Connections, Active(c),
         Progress(c), Spared(c), conn'[c] = conn[c] \/ Receive(c)
  PROVE  Progress(c)'
<1>1. /\ ConnsTyped /\ Orderly(c) /\ conn[c].thread = "running" /\ conn[c].process = "running"
      /\ conn[c].step \in 1 .. 7
  BY ActiveFacts DEF ProcessInv, Sessions, Orderly
<1>2. /\ conn'[c].worker = conn[c].worker /\ conn'[c].boot = conn[c].boot
      /\ Rivalled(c) => Rivalled(c)'
  BY <1>1, ActiveFacts, AuthorsKept DEF Onward, SameProcess
<1>3. /\ \A k \in Nat : After(c, k)' => After(c, k)
      /\ \A v \in Verdicts : Told(c, v)' => Told(c, v)
  <2>1. CASE conn'[c] = conn[c]
    BY <2>1 DEF After, Told
  <2>2. CASE Receive(c)
    <3>1. /\ conn[c].wire \in Verdicts /\ conn'[c].step = conn[c].step + 1
          /\ conn'[c].wire = Request(conn[c].step + 1) /\ conn'[c].ack = conn[c].wire
      BY <1>1, <2>2, ReceiveFields DEF Receive, Answered, Verdicts
    <3>2. Request(conn[c].step + 1) \notin Verdicts
      <4>1. \/ conn[c].step = 1 \/ conn[c].step = 2 \/ conn[c].step = 3
            \/ conn[c].step = 4 \/ conn[c].step = 5 \/ conn[c].step = 6 \/ conn[c].step + 1 > 6
        BY <1>1
      <4>2. QED
        BY <1>1, <4>1, ScriptFacts DEF Verdicts
    <3>3. QED
      BY <1>1, <3>1, <3>2 DEF After, Told
  <2>3. QED
    BY <2>1, <2>2
<1>4. \A v \in Verdicts : Told(c, v)' => After(c, 4)
  BY <1>3 DEF Told, After
<1>5. /\ After(c, 3)' => ServiceOf(conn'[c].worker) \in DOMAIN services'
      /\ After(c, 5)' => conn'[c].worker \in DOMAIN capabilities'
  BY <1>2, <1>3 DEF Progress, Spared
<1>6. After(c, 4)' => /\ conn'[c].worker \in DOMAIN endpoints'
                      /\ Rivalled(c)' \/ endpoints'[conn'[c].worker].reachability = "REACHABLE"
  BY <1>2, <1>3 DEF Progress, Spared
<1>7. Told(c, "OK")' => IsServed(c)'
  <2> SUFFICES ASSUME Told(c, "OK")' PROVE IsServed(c)'
    OBVIOUS
  <2>1. IsServed(c) /\ conn[c].worker \in DOMAIN endpoints
    BY <1>3, <1>4 DEF Progress, Verdicts
  <2>2. QED
    BY <1>2, <2>1 DEF IsServed, Spared
<1>8. Told(c, "ERROR")' => Rivalled(c)'
  BY <1>2, <1>3 DEF Progress, Verdicts
<1>9. QED
  BY <1>5, <1>6, <1>7, <1>8 DEF Progress

\* A step that leaves the registry alone.
LEMMA HoldingFrame ==
  ASSUME ProcessInv, HoldingInv, \A d \in Connections : Onward(d), UNCHANGED vars
  PROVE  /\ Plain' /\ Written' /\ Bound' /\ \A c \in Connections : Spared(c)
<1>1. UNCHANGED <<live_boots, next_id, services, endpoints, capabilities, instances, tombstones>>
  BY DEF vars, authority
<1>2. Plain' /\ Bound'
  BY <1>1 DEF HoldingInv, Plain, Bound
<1>3. Written'
  <2>1. \A d \in Connections : conn[d].boot # None => conn[d].process # "unborn"
    BY DEF ProcessInv, Sessions, Orderly
  <2>2. QED
    BY <1>1, <2>1, AuthorsKept DEF HoldingInv, Written, InstanceBy
<1>4. QED
  BY <1>1, <1>2, <1>3 DEF Spared

\* Every record a step leaves is an old one, in what names its author, or has
\* an author after the step.
LEMMA WrittenStep ==
  ASSUME ProcessInv, Written, \A d \in Connections : Onward(d),
         \A e \in DOMAIN endpoints' :
           \/ e \in DOMAIN endpoints /\ endpoints'[e].generation = endpoints[e].generation
           \/ \E d \in Connections : EndpointBy(d, e, endpoints[e].generation)',
         \A i \in DOMAIN instances' :
           \/ /\ i \in DOMAIN instances
              /\ instances'[i].boot = instances[i].boot
              /\ instances'[i].service_id = instances[i].service_id
              /\ instances'[i].endpoints = instances[i].endpoints
              /\ instances'[i].instance_generation = instances[i].instance_generation
           \/ \E d \in Connections : InstanceBy(d, instances[i])'
  PROVE  Written'
<1>1. ASSUME NEW e \in DOMAIN endpoints',
             e \in DOMAIN endpoints, endpoints'[e].generation = endpoints[e].generation
      PROVE  \E d \in Connections : EndpointBy(d, e, endpoints[e].generation)'
  <2>1. PICK d \in Connections : EndpointBy(d, e, endpoints[e].generation)
    BY <1>1 DEF Written
  <2>2. EndpointBy(d, e, endpoints[e].generation)'
    BY <1>1, <2>1 DEF EndpointBy, Onward, SameProcess
  <2>3. QED
    BY <2>2
<1>2. ASSUME NEW i \in DOMAIN instances', i \in DOMAIN instances,
             instances'[i].boot = instances[i].boot,
             instances'[i].service_id = instances[i].service_id,
             instances'[i].endpoints = instances[i].endpoints,
             instances'[i].instance_generation = instances[i].instance_generation
      PROVE  \E d \in Connections : InstanceBy(d, instances[i])'
  <2>1. PICK d \in Connections : InstanceBy(d, instances[i])
    BY <1>2 DEF Written
  <2>2. conn[d].process # "unborn"
    BY <2>1 DEF InstanceBy, ProcessInv, Sessions, Orderly
  <2>3. InstanceBy(d, instances[i])'
    BY <1>2, <2>1, <2>2 DEF InstanceBy, Onward, SameProcess
  <2>4. QED
    BY <2>3
<1>3. QED
  BY <1>1, <1>2 DEF Written

\* The loss of a boot: the records of other incarnations are left alone.
LEMMA HoldingRevoke ==
  ASSUME ProcessInv, HoldingInv, \A d \in Connections : Onward(d), NEW b, RevokeRecords(b),
         live_boots \ {b} \subseteq live_boots'
  PROVE  /\ Plain' /\ Written' /\ Bound'
         /\ \A c \in Connections : Active(c) /\ conn[c].boot # b => Spared(c)
<1> DEFINE gone(e) == \E i \in Orphans(b) : /\ e \in Range(instances[i].endpoints)
                                           /\ endpoints[e].service_instance = i
<1>1. /\ TypeOK /\ Plain /\ Written /\ Bound
      /\ UNCHANGED <<next_id, services, capabilities, tombstones>>
  BY DEF ProcessInv, HoldingInv, RevokeRecords
<1>2. /\ DOMAIN instances' = DOMAIN instances
      /\ \A i \in DOMAIN instances : i \notin Orphans(b) => instances'[i] = instances[i]
      /\ \A i \in DOMAIN instances :
           /\ instances'[i].boot = instances[i].boot
           /\ instances'[i].service_id = instances[i].service_id
           /\ instances'[i].endpoints = instances[i].endpoints
           /\ instances'[i].instance_generation = instances[i].instance_generation
  <2>1. instances' = RevokedInstances(b)
    BY DEF RevokeRecords
  <2>2. ASSUME NEW i \in DOMAIN instances
        PROVE  LET new == [instances[i] EXCEPT !.lifecycle = "STALE", !.freshness = "STALE",
                             !.reachability = "UNREACHABLE", !.readiness = "NOT_READY"] IN
               /\ new.service_id = instances[i].service_id /\ new.boot = instances[i].boot
               /\ new.endpoints = instances[i].endpoints
               /\ new.instance_generation = instances[i].instance_generation
    BY <1>1 DEF TypeOK, IsMap, ServiceInstance
  <2>3. QED
    BY <2>1, <2>2 DEF RevokedInstances
<1>3. /\ DOMAIN endpoints' = DOMAIN endpoints
      /\ \A e \in DOMAIN endpoints :
           /\ ~gone(e) => endpoints'[e] = endpoints[e]
           /\ gone(e) => /\ endpoints'[e].service_instance = None
                         /\ endpoints'[e].reachability = "UNREACHABLE"
                         /\ endpoints'[e].health = endpoints[e].health
                         /\ endpoints'[e].generation = endpoints[e].generation
  <2>1. endpoints' = ReleasedEndpoints(b)
    BY DEF RevokeRecords
  <2>2. ASSUME NEW e \in DOMAIN endpoints
        PROVE  LET new == [endpoints[e] EXCEPT !.service_instance = None,
                                               !.reachability = "UNREACHABLE"] IN
               /\ new.service_instance = None /\ new.reachability = "UNREACHABLE"
               /\ new.health = endpoints[e].health /\ new.generation = endpoints[e].generation
    BY <1>1 DEF TypeOK, IsMap, EndpointDescriptor
  <2>3. QED
    BY <2>1, <2>2 DEF ReleasedEndpoints
<1> HIDE DEF gone
<1>4. Plain'
  BY <1>1, <1>2, <1>3 DEF Plain
<1>5. Written'
  BY <1>1, <1>2, <1>3, WrittenStep
<1>6. Bound'
  <2> SUFFICES ASSUME NEW e \in DOMAIN endpoints', endpoints'[e].service_instance # None
               PROVE  /\ endpoints'[e].service_instance \in DOMAIN instances'
                      /\ instances'[endpoints'[e].service_instance].boot \in live_boots'
                      /\ instances'[endpoints'[e].service_instance].endpoints = <<e>>
    BY DEF Bound
  <2> DEFINE i == endpoints[e].service_instance
  <2>1. e \in DOMAIN endpoints /\ ~gone(e) /\ endpoints'[e].service_instance = i /\ i # None
    BY <1>3
  <2>2. i \in DOMAIN instances /\ instances[i].boot \in live_boots /\ instances[i].endpoints = <<e>>
    BY <1>1, <2>1 DEF Bound
  <2>3. e \in Range(instances[i].endpoints)
    BY <2>2 DEF Range
  <2>4. instances[i].boot # b
    BY <2>1, <2>2, <2>3 DEF gone, Orphans, is_boot_live
  <2>5. QED
    BY <1>2, <2>1, <2>2, <2>4
<1>7. ASSUME NEW c \in Connections, Active(c), conn[c].boot # b
      PROVE  Spared(c)
  <2> DEFINE w == conn[c].worker
  <2>1. ~gone(w)
    <3> SUFFICES ASSUME gone(w) PROVE FALSE
      OBVIOUS
    <3>1. PICK i \in Orphans(b) : w \in Range(instances[i].endpoints)
      BY DEF gone
    <3>2. i \in DOMAIN instances /\ instances[i].boot = b /\ b \in live_boots
      BY <3>1 DEF Orphans, is_boot_live
    <3>3. PICK d \in Connections : InstanceBy(d, instances[i])
      BY <1>1, <3>2 DEF Written
    <3>4. conn[d].boot = b /\ conn[d].worker = w
      BY <3>1, <3>2, <3>3 DEF InstanceBy, Range
    <3>5. QED
      BY <1>7, <3>2, <3>4, OneLiveProcess DEF Active
  <2>2. \A i \in DOMAIN instances : instances[i].boot = conn[c].boot => i \notin Orphans(b)
    BY <1>7 DEF Orphans
  <2>3. QED
    BY <1>1, <1>2, <1>3, <2>1, <2>2 DEF Spared
<1>8. QED
  BY <1>4, <1>5, <1>6, <1>7

\* A worker says hello: it has no answers to its later requests yet.
LEMMA HoldingHello ==
  ASSUME ProcessInv, HoldingInv, \A d \in Connections : Onward(d), NEW c \in Connections, Hello(c)
  PROVE  HoldingInv'
<1> DEFINE prev == Lookup(current_boot, conn[c].worker, None)
<1>1. /\ TypeOK /\ ConnsTyped /\ Orderly(c) /\ conn[c].thread = "running" /\ conn[c].wire = "HELLO"
      /\ ThreadBoots
  BY DEF ProcessInv, Sessions, Hello, Requested
<1>2. /\ live_boots' = (live_boots \ {prev}) \cup {next_boot + 1} /\ RevokeRecords(prev)
  BY DEF Hello, adopt_worker
<1> HIDE DEF prev
<1>3. /\ Plain' /\ Written' /\ Bound'
      /\ \A d \in Connections : Active(d) /\ conn[d].boot # prev => Spared(d)
  BY <1>2, HoldingRevoke
<1>4. ASSUME NEW d \in Connections, Active(d)'
      PROVE  Progress(d)'
  <2>1. CASE d = c
    <3>1. conn'[c].step = conn[c].step /\ conn'[c].process = conn[c].process
      BY <1>1, HelloFields
    <3>2. conn[c].process = "running"
      BY <1>4, <2>1, <3>1 DEF Active
    <3>3. conn[c].step \in 1 .. 6 /\ Request(conn[c].step) = "HELLO"
      BY <1>1, <3>2 DEF Orderly, Verdicts
    <3>4. \/ conn[c].step = 1 \/ conn[c].step = 2 \/ conn[c].step = 3
          \/ conn[c].step = 4 \/ conn[c].step = 5 \/ conn[c].step = 6
      BY <3>3
    <3>5. conn[c].step = 1
      BY <3>3, <3>4, ScriptFacts
    <3>6. QED
      BY <2>1, <3>1, <3>5 DEF Progress, After, Told
  <2>2. CASE d # c
    <3>1. conn'[d] = conn[d]
      BY <1>1, <2>2, HelloFields
    <3>2. conn[d].boot # next_boot + 1
      <4>1. conn[d].boot = None \/ conn[d].boot <= next_boot
        BY <1>1 DEF ThreadBoots
      <4>2. next_boot \in Nat /\ conn[d].boot \in Nat
        BY <1>1 DEF TypeOK, ConnsTyped, ConnRecord
      <4>3. QED
        BY <4>1, <4>2 DEF None
    <3>3. Active(d) /\ conn[d].boot # prev
      BY <1>2, <1>4, <3>1, <3>2 DEF Active
    <3>4. QED
      BY <1>3, <3>1, <3>3, ProgressSpared DEF HoldingInv
  <2>3. QED
    BY <2>1, <2>2
<1>5. QED
  BY <1>3, <1>4 DEF HoldingInv

\* A connection ends: the others keep what they had.
LEMMA HoldingEnd ==
  ASSUME ProcessInv, HoldingInv, \A d \in Connections : Onward(d), NEW c \in Connections, Ends(c)
  PROVE  HoldingInv'
<1> DEFINE b == conn[c].boot
<1>1. Leave(c) /\ TypeOK /\ ConnsTyped /\ AuthorityConsistent /\ ThreadBoots
  BY DEF ProcessInv, Sessions, Ends, EndOfStream, ShortRead
<1>2. None \notin live_boots
  BY <1>1, BoundsAssumption DEF TypeOK, AuthorityConsistent, None
<1>3. /\ live_boots' = live_boots \ {b} /\ Plain' /\ Written' /\ Bound'
      /\ \A d \in Connections : Active(d) /\ conn[d].boot # b => Spared(d)
  <2>1. CASE b # None
    <3>1. live_boots' = live_boots \ {b} /\ RevokeRecords(b)
      BY <1>1, <2>1 DEF Leave, mark_worker_died
    <3>2. QED
      BY <3>1, HoldingRevoke
  <2>2. CASE b = None
    <3>1. UNCHANGED vars /\ live_boots' = live_boots
      BY <1>1, <2>2 DEF Leave, vars, authority
    <3>2. QED
      BY <1>2, <2>2, <3>1, HoldingFrame
  <2>3. QED
    BY <2>1, <2>2
<1>4. ASSUME NEW d \in Connections, Active(d)'
      PROVE  Progress(d)'
  <2>1. conn'[c].boot = b /\ \A x \in Connections \ {c} : conn'[x] = conn[x]
    BY <1>1, LeaveFields
  <2>2. d # c /\ conn'[d] = conn[d]
    BY <1>3, <1>4, <2>1 DEF Active
  <2>3. Active(d) /\ conn[d].boot # b
    BY <1>3, <1>4, <2>2 DEF Active
  <2>4. QED
    BY <1>3, <2>2, <2>3, ProgressSpared DEF HoldingInv
<1>5. QED
  BY <1>3, <1>4 DEF HoldingInv

\* Processes start, read their replies and crash.
LEMMA HoldingProcess ==
  ASSUME ProcessInv, HoldingInv, \A d \in Connections : Onward(d), NEW c \in Connections,
         \/ \E w \in Workers, g \in Generations : Connect(c, w, g)
         \/ Receive(c) \/ Crash(c)
  PROVE  HoldingInv'
<1>1. ConnsTyped /\ AuthorityConsistent /\ TypeOK
  BY DEF ProcessInv, Sessions
<1>2. UNCHANGED vars /\ live_boots' = live_boots
  BY DEF Connect, Receive, Crash, vars, authority
<1>3. Plain' /\ Written' /\ Bound' /\ \A d \in Connections : Spared(d)
  BY <1>2, HoldingFrame
<1>4. None \notin live_boots
  BY <1>1, BoundsAssumption DEF TypeOK, AuthorityConsistent, None
<1>5. ASSUME NEW d \in Connections, Active(d)'
      PROVE  Active(d) /\ (conn'[d] = conn[d] \/ Receive(d))
  <2>1. ASSUME NEW w \in Workers, NEW g \in Generations, Connect(c, w, g)
        PROVE  conn'[d] = conn[d]
    <3>1. w \in Nat /\ g \in Nat
      BY BoundsAssumption, CoordinatorAssumption
    <3>2. conn'[c].boot = None /\ \A x \in Connections \ {c} : conn'[x] = conn[x]
      BY <1>1, <2>1, <3>1, ConnectFields
    <3>3. QED
      BY <1>2, <1>4, <1>5, <3>2 DEF Active
  <2>2. ASSUME Receive(c)
        PROVE  Active(d) /\ (conn'[d] = conn[d] \/ Receive(d))
    <3>1. conn[c].process = "running"
      BY <2>2 DEF Receive, Working
    <3>2. conn'[c].boot = conn[c].boot /\ \A x \in Connections \ {c} : conn'[x] = conn[x]
      BY <1>1, <2>2, ReceiveFields
    <3>3. QED
      BY <1>2, <1>5, <2>2, <3>1, <3>2 DEF Active
  <2>3. ASSUME Crash(c)
        PROVE  conn'[d] = conn[d]
    BY <1>1, <1>5, <2>3, CrashFields DEF Active
  <2>4. QED
    BY <1>2, <1>5, <2>1, <2>2, <2>3 DEF Active
<1>6. QED
  BY <1>3, <1>5, ProgressSpared DEF HoldingInv

\* Nothing is registered and nobody was started while main begins its epoch.
LEMMA HoldingMain ==
  ASSUME ProcessInv, Main
  PROVE  HoldingInv'
<1>1. /\ Init /\ \A c \in Connections : conn[c].process = "unborn"
  BY DEF ProcessInv, Sessions, Main
<1>2. DOMAIN EmptyMap = {}
  BY DEF EmptyMap
<1>3. /\ DOMAIN instances' = {} /\ DOMAIN endpoints' = {} /\ DOMAIN capabilities' = {}
      /\ DOMAIN services' = {} /\ DOMAIN tombstones' = {} /\ next_id' = 1 /\ conn' = conn
  BY <1>1, <1>2 DEF Main, begin_coordinator_epoch, Init
<1>4. Plain' /\ Written' /\ Bound'
  BY <1>3 DEF Plain, Written, Bound
<1>5. QED
  BY <1>1, <1>3, <1>4 DEF HoldingInv, Active

-----------------------------------------------------------------------------
(* The requests of workers                                                 *)

\* A request of a running worker is the one of its step, and its answer is the
\* answer to that step.
LEMMA AnsweredStep ==
  ASSUME ProcessInv, NEW c \in Connections, conn[c].process = "running", Served(c)
  PROVE  /\ conn[c].step \in 2 .. 6 /\ conn[c].wire = Request(conn[c].step)
         /\ conn'[c].step = conn[c].step /\ conn'[c].wire \in Verdicts
         /\ \A k \in Nat : After(c, k)' <=> k <= conn[c].step
         /\ \A v \in Verdicts : Told(c, v)' <=> conn[c].step = 6 /\ conn'[c].wire = v
<1>1. ConnsTyped /\ Orderly(c)
  BY DEF ProcessInv, Sessions
<1>2. PICK v \in Verdicts : Reply(c, v)
  BY ServedFields
<1>3. conn'[c].step = conn[c].step /\ conn'[c].wire = v
  BY <1>1, <1>2, ReplyFields
<1>4. conn[c].thread = "running" /\ conn[c].wire \in Requests \ {"HELLO"}
  BY ServedFields
<1>5. conn[c].step \in 1 .. 6 /\ conn[c].wire = Request(conn[c].step)
  BY <1>1, <1>4 DEF Orderly, Requests, Verdicts
<1>6. conn[c].step # 1
  BY <1>4, <1>5, ScriptFacts
<1>7. conn[c].step \in 2 .. 6
  BY <1>5, <1>6
<1>8. \A k \in Nat : After(c, k)' <=> k <= conn[c].step
  BY <1>3, <1>7 DEF After
<1>9. \A x \in Verdicts : Told(c, x)' <=> conn[c].step = 6 /\ conn'[c].wire = x
  BY <1>3, <1>7 DEF Told
<1>10. QED
  BY <1>3, <1>5, <1>7, <1>8, <1>9

\* The step of each request.
LEMMA StepOf ==
  ASSUME ProcessInv, NEW c \in Connections, conn[c].process = "running", Served(c)
  PROVE  /\ RegisterRuntime(c) => conn[c].step = 2
         /\ RegisterService(c) => conn[c].step = 3
         /\ RegisterEndpoint(c) => conn[c].step = 4
         /\ RegisterCapability(c) => conn[c].step = 5
         /\ RegisterInstance(c) => conn[c].step = 6
<1>1. conn[c].step \in 2 .. 6 /\ conn[c].wire = Request(conn[c].step)
  BY AnsweredStep
<1>2. \/ conn[c].step = 2 \/ conn[c].step = 3 \/ conn[c].step = 4
      \/ conn[c].step = 5 \/ conn[c].step = 6
  BY <1>1
<1>3. /\ RegisterRuntime(c) => conn[c].wire = "REG_RT"
      /\ RegisterService(c) => conn[c].wire = "REG_SV"
      /\ RegisterEndpoint(c) => conn[c].wire = "REG_EP"
      /\ RegisterCapability(c) => conn[c].wire = "REG_CA"
      /\ RegisterInstance(c) => conn[c].wire = "REG_IN"
  BY DEF RegisterRuntime, RegisterService, RegisterEndpoint, RegisterCapability,
         RegisterInstance, Requested
<1>4. QED
  BY <1>1, <1>2, <1>3, ScriptFacts

\* A request is answered: what is left to show of it.
LEMMA HoldingServed ==
  ASSUME ProcessInv, HoldingInv, \A d \in Connections : Onward(d), NEW c \in Connections, Served(c),
         Plain', Written', Bound',
         \A d \in Connections \ {c} : Active(d) => Spared(d),
         Active(c) => Progress(c)'
  PROVE  HoldingInv'
<1>1. ConnsTyped
  BY DEF ProcessInv, Sessions
<1>2. PICK v \in Verdicts : Reply(c, v)
  BY ServedFields
<1>3. /\ \A d \in Connections \ {c} : conn'[d] = conn[d]
      /\ conn'[c].process = conn[c].process /\ conn'[c].boot = conn[c].boot
  BY <1>1, <1>2, ReplyFields
<1>4. live_boots' = live_boots
  BY ServedFields DEF authority
<1>5. \A d \in Connections : Active(d)' => Active(d)
  BY <1>3, <1>4 DEF Active
<1>6. ASSUME NEW d \in Connections, Active(d)'
      PROVE  Progress(d)'
  BY <1>3, <1>5, <1>6, ProgressSpared DEF HoldingInv
<1>7. QED
  BY <1>6 DEF HoldingInv

\* A worker keeps what it has while its next request is answered.
LEMMA ProgressBase ==
  ASSUME ProcessInv, HoldingInv, \A d \in Connections : Onward(d), NEW c \in Connections,
         Active(c), Served(c)
  PROVE  /\ conn'[c].worker = conn[c].worker /\ conn'[c].boot = conn[c].boot
         /\ Rivalled(c) => Rivalled(c)'
         /\ \A k \in Nat : After(c, k)' /\ k # conn[c].step => After(c, k)
<1>1. conn[c].process = "running" /\ conn[c].boot # None
  BY ActiveFacts
<1>2. conn[c].step \in 2 .. 6 /\ \A k \in Nat : After(c, k)' <=> k <= conn[c].step
  BY <1>1, AnsweredStep
<1>3. \A k \in Nat : After(c, k)' /\ k # conn[c].step => After(c, k)
  BY <1>2 DEF After
<1>4. QED
  BY <1>1, <1>3, AuthorsKept DEF Onward, SameProcess

\* The other requests than REG_IN and REG_EP write what nobody loses.
LEMMA HoldingAdded ==
  ASSUME ProcessInv, HoldingInv, \A d \in Connections : Onward(d), NEW c \in Connections, Served(c),
         UNCHANGED <<live_boots, next_id, endpoints, instances, tombstones>>, Plain',
         DOMAIN services \subseteq DOMAIN services',
         DOMAIN capabilities \subseteq DOMAIN capabilities',
         Active(c) => /\ conn[c].step < 6
                      /\ conn[c].step = 3 => ServiceOf(conn[c].worker) \in DOMAIN services'
                      /\ conn[c].step = 5 => conn[c].worker \in DOMAIN capabilities'
                      /\ conn[c].step = 4 =>
                           /\ conn[c].worker \in DOMAIN endpoints
                           /\ Rivalled(c) \/ endpoints[conn[c].worker].reachability = "REACHABLE"
  PROVE  HoldingInv'
<1>1. Written' /\ Bound'
  BY WrittenStep DEF HoldingInv, Bound
<1>2. \A d \in Connections : Spared(d)
  BY DEF Spared
<1>3. ASSUME Active(c) PROVE Progress(c)'
  <2>1. Progress(c) /\ conn[c].step < 6 /\ conn[c].process = "running"
    BY <1>3, ActiveFacts DEF HoldingInv
  <2>2. \A v \in Verdicts : ~Told(c, v)'
    BY <2>1, AnsweredStep
  <2>3. /\ conn'[c].worker = conn[c].worker
        /\ Rivalled(c) => Rivalled(c)'
        /\ \A k \in Nat : After(c, k)' /\ k # conn[c].step => After(c, k)
    BY <1>3, ProgressBase
  <2>4. /\ After(c, 3)' => ServiceOf(conn'[c].worker) \in DOMAIN services'
        /\ After(c, 5)' => conn'[c].worker \in DOMAIN capabilities'
    BY <1>3, <2>1, <2>3 DEF Progress
  <2>5. After(c, 4)' => /\ conn'[c].worker \in DOMAIN endpoints'
                        /\ Rivalled(c)' \/ endpoints'[conn'[c].worker].reachability = "REACHABLE"
    BY <1>3, <2>1, <2>3 DEF Progress
  <2>6. QED
    BY <2>2, <2>4, <2>5 DEF Progress, Verdicts
<1>4. QED
  BY <1>1, <1>2, <1>3, HoldingServed

\* REG_RT: the catalog plays no part.
LEMMA HoldingRuntime ==
  ASSUME None \notin Workers, ProcessInv, HoldingInv, \A d \in Connections : Onward(d),
         NEW c \in Connections, RegisterRuntime(c)
  PROVE  HoldingInv'
<1>1. Served(c) /\ conn[c].worker # None
  BY StartedWorker DEF Served, RegisterRuntime, Requested
<1>2. UNCHANGED <<live_boots, next_id, services, capabilities, endpoints, instances, tombstones>>
  BY <1>1 DEF RegisterRuntime, Answer, register_runtime, TakeId, RuntimeRequest, CatalogOnly,
              vars, authority
<1>3. Active(c) => conn[c].step = 2
  BY <1>1, StepOf DEF Active
<1>4. Plain'
  BY <1>2 DEF HoldingInv, Plain
<1>5. QED
  BY <1>1, <1>2, <1>3, <1>4, HoldingAdded

\* REG_SV: the service is registered, now or before.
LEMMA HoldingService ==
  ASSUME ProcessInv, HoldingInv, \A d \in Connections : Onward(d),
         NEW c \in Connections, RegisterService(c)
  PROVE  HoldingInv'
<1> DEFINE in == ServiceRequest(conn[c].worker)
<1>1. Served(c) /\ DOMAIN tombstones = {} /\ Plain
  BY DEF Served, HoldingInv, Plain
<1>2. in.id = ServiceOf(conn[c].worker) /\ in.rec.required_capabilities = {"CUDA_AVAILABLE"}
  BY DEF ServiceRequest
<1>3. /\ UNCHANGED <<live_boots, next_id, capabilities, endpoints, instances, tombstones>>
      /\ \/ services' = Put(services, in.id, in.rec)
         \/ services' = services /\ ~(validate_envelope(Envelope(c))
                                        /\ Registrable(services, "ServiceId", in))
  BY DEF RegisterService, Answer, register_service, vars, authority
<1> HIDE DEF in
<1>4. Active(c) => in.id \in DOMAIN services'
  <2> SUFFICES ASSUME Active(c) PROVE in.id \in DOMAIN services'
    OBVIOUS
  <2>1. validate_envelope(Envelope(c))
    BY ActiveFacts
  <2>2. in.id \in DOMAIN services \/ Registrable(services, "ServiceId", in)
    BY <1>1 DEF Registrable, covered_by_tombstone
  <2>3. QED
    BY <1>3, <2>1, <2>2 DEF Put
<1>5. Active(c) => conn[c].step = 3
  BY <1>1, StepOf DEF Active
<1>6. Plain' /\ DOMAIN services \subseteq DOMAIN services'
  BY <1>1, <1>2, <1>3 DEF Plain, Put
<1>7. QED
  BY <1>1, <1>2, <1>3, <1>4, <1>5, <1>6, HoldingAdded

\* REG_CA: the capability is registered and current, now or before.
LEMMA HoldingCapability ==
  ASSUME None \notin Workers, ProcessInv, HoldingInv, \A d \in Connections : Onward(d),
         NEW c \in Connections, RegisterCapability(c)
  PROVE  HoldingInv'
<1> DEFINE in == CapabilityRequest(conn[c].worker)
<1>1. Served(c) /\ DOMAIN tombstones = {} /\ Plain /\ conn[c].worker # None
  BY StartedWorker DEF Served, HoldingInv, Plain, RegisterCapability, Requested
<1>2. in.id = conn[c].worker /\ in.rec.kind = "CUDA_AVAILABLE" /\ in.rec.freshness = "CURRENT"
  BY DEF CapabilityRequest
<1>3. /\ UNCHANGED <<live_boots, services, endpoints, instances, tombstones>>
      /\ \/ capabilities' = Put(capabilities, IdOf(in.id), in.rec) /\ TakeId(in.id)
         \/ /\ capabilities' = capabilities /\ next_id' = next_id
            /\ ~(validate_envelope(Envelope(c)) /\ Registrable(capabilities, "CapabilityId", in))
  BY DEF RegisterCapability, Answer, register_capability, vars, authority
<1> HIDE DEF in
<1>4. IdOf(in.id) = in.id /\ next_id' = next_id
  BY <1>1, <1>2, <1>3 DEF IdOf, TakeId
<1>5. Active(c) => in.id \in DOMAIN capabilities'
  <2> SUFFICES ASSUME Active(c) PROVE in.id \in DOMAIN capabilities'
    OBVIOUS
  <2>1. validate_envelope(Envelope(c))
    BY ActiveFacts
  <2>2. in.id \in DOMAIN capabilities \/ Registrable(capabilities, "CapabilityId", in)
    BY <1>1 DEF Registrable, covered_by_tombstone
  <2>3. QED
    BY <1>3, <1>4, <2>1, <2>2 DEF Put
<1>6. Active(c) => conn[c].step = 5
  BY <1>1, StepOf DEF Active
<1>7. Plain' /\ DOMAIN capabilities \subseteq DOMAIN capabilities'
  BY <1>1, <1>2, <1>3, <1>4 DEF Plain, Put
<1>8. QED
  BY <1>1, <1>2, <1>3, <1>4, <1>5, <1>6, <1>7, HoldingAdded

\* REG_EP: the endpoint is stored anew and reachable, unless it is there with
\* the same or a larger generation, which a rival gave it.
LEMMA HoldingEndpoint ==
  ASSUME None \notin Workers, ProcessInv, HoldingInv, \A d \in Connections : Onward(d),
         NEW c \in Connections, RegisterEndpoint(c)
  PROVE  HoldingInv'
<1> DEFINE w == conn[c].worker
           g == conn[c].gen
           in == EndpointRequest(w, g)
           env == Envelope(c)
<1>1. /\ Served(c) /\ DOMAIN tombstones = {} /\ Plain /\ Written /\ Bound
      /\ w \in Workers /\ w # None /\ w \in Nat /\ g \in Nat /\ TypeOK
  BY StartedWorker, BoundsAssumption, CoordinatorAssumption
     DEF Served, HoldingInv, Plain, RegisterEndpoint, Requested, ProcessInv
<1>2. /\ in.id = w /\ in.rec.generation = g /\ in.rec.service_instance = None
      /\ in.rec.health = "HEALTHY" /\ in.rec.reachability = "REACHABLE"
  BY DEF EndpointRequest
<1>3. \/ register_endpoint(env, in)
      \/ UNCHANGED vars /\ ~(validate_envelope(env) /\ Registrable(endpoints, "EndpointId", in))
  BY DEF RegisterEndpoint, Answer
<1> HIDE DEF in
<1>4. Active(c) => conn[c].step = 4 /\ conn[c].wire = "REG_EP" /\ conn[c].process = "running"
  BY <1>1, StepOf DEF Active, RegisterEndpoint, Requested
<1>5. CASE UNCHANGED vars /\ ~(validate_envelope(env) /\ Registrable(endpoints, "EndpointId", in))
  <2>1. UNCHANGED <<live_boots, next_id, services, capabilities, endpoints, instances, tombstones>>
    BY <1>5 DEF vars, authority
  <2>2. ASSUME Active(c) PROVE w \in DOMAIN endpoints /\ Rivalled(c)
    <3>1. validate_envelope(env)
      BY <2>2, ActiveFacts
    <3>2. w \in DOMAIN endpoints /\ ~(g > endpoints[w].generation)
      BY <1>1, <1>2, <1>5, <3>1 DEF Registrable, covered_by_tombstone
    <3>3. PICK d \in Connections : EndpointBy(d, w, endpoints[w].generation)
      BY <1>1, <3>2 DEF Written
    <3>4. d # c
      BY <1>4, <2>2, <3>3 DEF EndpointBy, After, Verdicts
    <3>5. endpoints[w].generation \in Nat
      BY <1>1, <3>2 DEF TypeOK, IsMap, EndpointDescriptor
    <3>6. conn[d].gen >= g
      BY <1>1, <3>2, <3>3, <3>5 DEF EndpointBy
    <3>7. QED
      BY <3>2, <3>3, <3>4, <3>6 DEF Rivalled, EndpointBy
  <2>3. Plain'
    BY <1>1, <2>1 DEF Plain
  <2>4. QED
    BY <1>1, <1>4, <2>1, <2>2, <2>3, HoldingAdded
<1>6. CASE register_endpoint(env, in)
  <2>1. /\ UNCHANGED <<live_boots, services, capabilities, instances, tombstones>>
        /\ endpoints' = Put(endpoints, IdOf(in.id), in.rec) /\ TakeId(in.id)
        /\ validate_envelope(env)
    BY <1>6 DEF register_endpoint, authority
  <2>2. IdOf(in.id) = w /\ next_id' = next_id
    BY <1>1, <1>2, <2>1 DEF IdOf, TakeId
  <2>3. conn[c].boot \in live_boots
    BY <2>1, AcceptedEnvelope
  <2>4. /\ DOMAIN endpoints' = DOMAIN endpoints \cup {w} /\ endpoints'[w] = in.rec
        /\ \A e \in DOMAIN endpoints : e # w => endpoints'[e] = endpoints[e]
    BY <2>1, <2>2 DEF Put
  <2>5. Plain'
    BY <1>1, <1>2, <2>1, <2>2, <2>4 DEF Plain
  <2>6. Bound'
    BY <1>1, <1>2, <2>1, <2>4 DEF Bound
  <2>7. ASSUME NEW e \in DOMAIN endpoints', e = w
        PROVE  EndpointBy(c, e, endpoints[e].generation)'
    <3>1. conn[c].process # "unborn"
      BY <1>1, StartedWorker DEF RegisterEndpoint, Requested
    <3>2. conn[c].process = "running" => After(c, 4)'
      <4> SUFFICES ASSUME conn[c].process = "running" PROVE After(c, 4)'
        OBVIOUS
      <4>1. conn[c].step = 4
        BY <1>1, StepOf
      <4>2. QED
        BY <1>1, <4>1, AnsweredStep
    <3>3. QED
      BY <1>2, <2>4, <2>7, <3>1, <3>2 DEF EndpointBy, Onward, SameProcess
  <2>8. Written'
    <3>1. \A e \in DOMAIN endpoints' :
            \/ e \in DOMAIN endpoints /\ endpoints'[e].generation = endpoints[e].generation
            \/ \E d \in Connections : EndpointBy(d, e, endpoints[e].generation)'
      BY <2>4, <2>7
    <3>2. QED
      BY <1>1, <2>1, <3>1, WrittenStep
  <2>9. ASSUME NEW d \in Connections \ {c}, Active(d) PROVE Spared(d)
    <3>1. conn[d].worker # w
      BY <2>3, <2>9, OneLiveProcess DEF Active
    <3>2. QED
      BY <2>1, <2>4, <3>1 DEF Spared
  <2>10. ASSUME Active(c) PROVE Progress(c)'
    <3>1. conn[c].step = 4 /\ conn[c].process = "running" /\ Progress(c)
      BY <1>4, <2>10 DEF HoldingInv
    <3>2. /\ \A k \in Nat : After(c, k)' <=> k <= 4
          /\ \A v \in Verdicts : ~Told(c, v)'
      BY <1>1, <3>1, AnsweredStep
    <3>3. After(c, 3) /\ conn'[c].worker = w
      BY <1>1, <2>10, <3>1, ProgressBase DEF After
    <3>4. QED
      BY <1>2, <2>1, <2>4, <3>1, <3>2, <3>3 DEF Progress, Verdicts
  <2>11. QED
    BY <1>1, <2>5, <2>6, <2>8, <2>9, <2>10, HoldingServed
<1>7. QED
  BY <1>3, <1>5, <1>6

\* How the instance of a worker is classified: its one endpoint decides.
LEMMA WorkerClass ==
  ASSUME Plain, NEW inst \in ServiceInstance, NEW w, NEW eps,
         inst.endpoints = <<w>>, inst.capabilities = {w}, inst.lease = None,
         inst.health = "HEALTHY", inst.readiness = "READY", inst.freshness = "CURRENT",
         inst.boot \in live_boots, w \in DOMAIN capabilities,
         w \in DOMAIN eps, eps[w].health = "HEALTHY",
         eps[w].reachability \in {"REACHABLE", "UNREACHABLE"}
  PROVE  /\ eps[w].reachability = "REACHABLE" =>
              reclassify_lifecycle(inst, eps).lifecycle = "AVAILABLE"
         /\ eps[w].reachability = "UNREACHABLE" =>
              reclassify_lifecycle(inst, eps).lifecycle = "UNREACHABLE"
<1> DEFINE h == aggregate_health(inst, eps)
           r == aggregate_reachability(inst, eps)
           k == classify(inst, h, r)
<1>1. DOMAIN inst.endpoints = {1} /\ inst.endpoints[1] = w /\ Range(inst.endpoints) = {w}
      /\ inst.endpoints # << >>
  BY DEF Range
<1>2. h = "HEALTHY"
  <2>1. {eps[e].health : e \in Range(inst.endpoints) \cap DOMAIN eps} = {"HEALTHY"}
    BY <1>1
  <2>2. QED
    BY <2>1 DEF aggregate_health
<1>3. r = eps[w].reachability
  <2> DEFINE reach(x) == IF inst.endpoints[x] \in DOMAIN eps
                         THEN eps[inst.endpoints[x]].reachability ELSE "MISSING"
             unusable == {x \in DOMAIN inst.endpoints : reach(x) \notin {"REACHABLE", "DEGRADED"}}
             first == CHOOSE x \in unusable : \A j \in unusable : x <= j
  <2>1. reach(1) = eps[w].reachability
    BY <1>1
  <2>2. CASE eps[w].reachability = "REACHABLE"
    <3>1. unusable = {} /\ ~\E x \in DOMAIN inst.endpoints : reach(x) = "DEGRADED"
      BY <1>1, <2>1, <2>2
    <3>2. QED
      BY <1>1, <2>2, <3>1 DEF aggregate_reachability
  <2>3. CASE eps[w].reachability = "UNREACHABLE"
    <3>1. unusable = {1}
      BY <1>1, <2>1, <2>3
    <3>2. first = 1
      BY <3>1
    <3>3. QED
      BY <1>1, <2>1, <2>3, <3>1, <3>2 DEF aggregate_reachability
  <2>4. QED
    BY <2>2, <2>3
<1>4. lease_valid(inst) /\ capabilities_present(inst) /\ is_boot_live(inst.boot)
  BY DEF lease_valid, capabilities_present, is_boot_live, Plain
<1>5. /\ eps[w].reachability = "REACHABLE" => k = "AVAILABLE"
      /\ eps[w].reachability = "UNREACHABLE" => k = "UNREACHABLE"
  BY <1>2, <1>3, <1>4 DEF classify
<1>6. reclassify_lifecycle(inst, eps)
        = [inst EXCEPT !.health = h, !.reachability = r, !.lifecycle = k]
  BY DEF reclassify_lifecycle
<1> HIDE DEF h, r, k
<1>7. QED
  BY <1>5, <1>6 DEF ServiceInstance

\* Installing an instance with one endpoint: it claims it, or nothing is
\* installed.
LEMMA InstallOne ==
  ASSUME NEW is, NEW id, NEW inst, NEW w, inst.endpoints = <<w>>, Install(is, id, inst)
  PROVE  /\ DOMAIN endpoints' = DOMAIN endpoints
         /\ \A e \in DOMAIN endpoints : e # w => endpoints'[e] = endpoints[e]
         /\ \/ /\ Claimable(is, id, w) /\ w \in DOMAIN endpoints
               /\ endpoints'[w] = Claimed(endpoints[w], id)
               /\ instances' = Put(is, id, reclassify_lifecycle(inst, endpoints'))
            \/ /\ ~Claimable(is, id, w) /\ instances' = is
               /\ \A e \in DOMAIN endpoints : endpoints'[e] = endpoints[e]
<1> DEFINE refused == {k \in DOMAIN inst.endpoints : ~Claimable(is, id, inst.endpoints[k])}
           claimed == {inst.endpoints[k] : k \in {k \in DOMAIN inst.endpoints :
                                                    \A r \in refused : k < r}}
<1>1. DOMAIN inst.endpoints = {1} /\ inst.endpoints[1] = w
  OBVIOUS
<1>2. /\ endpoints' = [e \in DOMAIN endpoints |->
                         IF e \in claimed THEN Claimed(endpoints[e], id) ELSE endpoints[e]]
      /\ refused = {} => instances' = Put(is, id, reclassify_lifecycle(inst, endpoints'))
      /\ refused # {} => instances' = is
  BY DEF Install
<1>3. CASE Claimable(is, id, w)
  <2>1. refused = {}
    BY <1>1, <1>3
  <2>2. claimed = {w}
    BY <1>1, <2>1
  <2>3. w \in DOMAIN endpoints
    BY <1>3 DEF Claimable
  <2> HIDE DEF refused, claimed
  <2>4. QED
    BY <1>2, <1>3, <2>1, <2>2, <2>3
<1>4. CASE ~Claimable(is, id, w)
  <2>1. refused = {1}
    BY <1>1, <1>4
  <2>2. claimed = {}
    BY <1>1, <2>1
  <2> HIDE DEF refused, claimed
  <2>3. QED
    BY <1>2, <1>4, <2>1, <2>2
<1>5. QED
  BY <1>3, <1>4

\* REG_IN with a valid envelope, in the terms of the worker w of generation g:
\* refused, or installed over instances with at most one, of the same service,
\* marked SUPERSEDED.
LEMMA InstanceCases ==
  ASSUME ProcessInv, Plain, NEW c \in Connections, RegisterInstance(c),
         validate_envelope(Envelope(c)), NEW w, w = conn[c].worker, NEW g, g = conn[c].gen
  PROVE  LET inst == [InstanceRequest(w, g).rec EXCEPT !.boot = conn[c].boot] IN
         \/ /\ instances' = instances /\ UNCHANGED <<endpoints, next_id>>
            /\ ServiceOf(w) \notin DOMAIN services
         \/ /\ instances' = instances /\ endpoints' = endpoints /\ next_id' = next_id + 1
            /\ \E i \in DOMAIN instances : /\ instances[i].service_id = ServiceOf(w)
                                           /\ g <= instances[i].instance_generation
         \/ /\ next_id' = next_id + 1
            /\ \E is : /\ IsMap(is, Nat, ServiceInstance) /\ SameLinks(instances, is)
                       /\ \A i \in DOMAIN instances :
                            is[i].instance_generation = instances[i].instance_generation
                       /\ \A i \in DOMAIN instances :
                            instances[i].service_id # ServiceOf(w) => is[i] = instances[i]
                       /\ Install(is, next_id, inst)
<1> DEFINE in == InstanceRequest(w, g)
           inst == [in.rec EXCEPT !.boot = conn[c].boot]
<1>1. TypeOK /\ DOMAIN tombstones = {} /\ IsMap(instances, Nat, ServiceInstance)
  BY DEF ProcessInv, Plain, TypeOK
<1>2. RegisterOver(instances, in, inst)
  BY DEF RegisterInstance, register_instance
<1>3. in.id = None /\ inst.service_id = ServiceOf(w) /\ inst.instance_generation = g
  BY DEF InstanceRequest
<1> HIDE DEF in, inst
<1>4. ~covered_by_tombstone("ServiceId", inst.service_id, inst.instance_generation)
  BY <1>1 DEF covered_by_tombstone
<1>5. IdOf(in.id) = next_id /\ (TakeId(in.id) => next_id' = next_id + 1)
  BY <1>3 DEF IdOf, TakeId
<1>6. CASE inst.service_id \notin DOMAIN services
  BY <1>2, <1>3, <1>6 DEF RegisterOver, Refuse
<1>7. ASSUME inst.service_id \in DOMAIN services, TakeId(in.id),
             NEW i \in Newest(instances, inst.service_id),
             inst.instance_generation <= instances[i].instance_generation, Refuse(instances)
      PROVE  /\ instances' = instances /\ endpoints' = endpoints /\ next_id' = next_id + 1
             /\ i \in DOMAIN instances /\ instances[i].service_id = ServiceOf(w)
             /\ g <= instances[i].instance_generation
  BY <1>3, <1>5, <1>7 DEF Refuse, Newest
<1>8. ASSUME inst.service_id \in DOMAIN services, TakeId(in.id),
             NEW i \in Newest(instances, inst.service_id),
             Install([instances EXCEPT ![i].lifecycle = "SUPERSEDED"], IdOf(in.id), inst)
      PROVE  /\ next_id' = next_id + 1
             /\ \E is : /\ IsMap(is, Nat, ServiceInstance) /\ SameLinks(instances, is)
                        /\ \A j \in DOMAIN instances :
                             is[j].instance_generation = instances[j].instance_generation
                        /\ \A j \in DOMAIN instances :
                             instances[j].service_id # ServiceOf(w) => is[j] = instances[j]
                        /\ Install(is, next_id, inst)
  <2> DEFINE is == [instances EXCEPT ![i].lifecycle = "SUPERSEDED"]
  <2>1. i \in DOMAIN instances /\ instances[i].service_id = ServiceOf(w)
    BY <1>3 DEF Newest
  <2>2. IsMap(is, Nat, ServiceInstance) /\ SameLinks(instances, is)
    BY <1>1, <2>1, MarkType, MarkLinks DEF Lifecycle
  <2>3. /\ \A j \in DOMAIN instances :
             is[j].instance_generation = instances[j].instance_generation
        /\ \A j \in DOMAIN instances :
             instances[j].service_id # ServiceOf(w) => is[j] = instances[j]
    <3>1. LET new == [instances[i] EXCEPT !.lifecycle = "SUPERSEDED"] IN
          new.instance_generation = instances[i].instance_generation
      BY <1>1, <2>1 DEF IsMap, ServiceInstance
    <3>2. QED
      BY <2>1, <3>1
  <2>4. Install(is, next_id, inst)
    BY <1>5, <1>8
  <2> HIDE DEF is
  <2>5. QED
    BY <1>5, <1>8, <2>2, <2>3, <2>4
<1>9. ASSUME inst.service_id \in DOMAIN services, TakeId(in.id),
             Install(instances, IdOf(in.id), inst)
      PROVE  /\ next_id' = next_id + 1
             /\ \E is : /\ IsMap(is, Nat, ServiceInstance) /\ SameLinks(instances, is)
                        /\ \A j \in DOMAIN instances :
                             is[j].instance_generation = instances[j].instance_generation
                        /\ \A j \in DOMAIN instances :
                             instances[j].service_id # ServiceOf(w) => is[j] = instances[j]
                        /\ Install(is, next_id, inst)
  <2>1. SameLinks(instances, instances)
    BY DEF SameLinks
  <2>2. QED
    BY <1>1, <1>5, <1>9, <2>1
<1>10. CASE inst.service_id \in DOMAIN services
  <2>1. TakeId(in.id)
    BY <1>2, <1>10 DEF RegisterOver
  <2>2. \/ \E i \in Newest(instances, inst.service_id) :
             \/ /\ inst.instance_generation <= instances[i].instance_generation
                /\ Refuse(instances)
             \/ Install([instances EXCEPT ![i].lifecycle = "SUPERSEDED"], IdOf(in.id), inst)
        \/ Install(instances, IdOf(in.id), inst)
    BY <1>2, <1>4, <1>10 DEF RegisterOver
  <2>3. CASE Install(instances, IdOf(in.id), inst)
    BY <1>9, <1>10, <2>1, <2>3 DEF inst, in
  <2>4. ASSUME NEW i \in Newest(instances, inst.service_id),
               inst.instance_generation <= instances[i].instance_generation, Refuse(instances)
        PROVE  /\ instances' = instances /\ endpoints' = endpoints /\ next_id' = next_id + 1
               /\ i \in DOMAIN instances /\ instances[i].service_id = ServiceOf(w)
               /\ g <= instances[i].instance_generation
    BY <1>7, <1>10, <2>1, <2>4
  <2>5. ASSUME NEW i \in Newest(instances, inst.service_id),
               Install([instances EXCEPT ![i].lifecycle = "SUPERSEDED"], IdOf(in.id), inst)
        PROVE  /\ next_id' = next_id + 1
               /\ \E is : /\ IsMap(is, Nat, ServiceInstance) /\ SameLinks(instances, is)
                          /\ \A j \in DOMAIN instances :
                               is[j].instance_generation = instances[j].instance_generation
                          /\ \A j \in DOMAIN instances :
                               instances[j].service_id # ServiceOf(w) => is[j] = instances[j]
                          /\ Install(is, next_id, inst)
    BY <1>8, <1>10, <2>1, <2>5
  <2>6. QED
    BY <2>2, <2>3, <2>4, <2>5 DEF inst, in
<1>11. QED
  BY <1>6, <1>10

\* The answer to REG_IN: what a worker needs then.
LEMMA InstanceAnswered ==
  ASSUME ProcessInv, HoldingInv, \A d \in Connections : Onward(d), NEW c \in Connections,
         RegisterInstance(c), Active(c),
         UNCHANGED <<services, capabilities>>, DOMAIN endpoints' = DOMAIN endpoints,
         \A e \in DOMAIN endpoints : endpoints[e].reachability = "REACHABLE" =>
           endpoints'[e].reachability = "REACHABLE",
         conn'[c].wire = "OK" => IsServed(c)', conn'[c].wire = "ERROR" => Rivalled(c)
  PROVE  Progress(c)'
<1>1. Served(c) /\ Progress(c) /\ conn[c].process = "running"
  BY DEF Served, HoldingInv, Active
<1>2. conn[c].step = 6
  BY <1>1, StepOf
<1>3. /\ After(c, 3) /\ After(c, 4) /\ After(c, 5)
  BY <1>2 DEF After
<1>4. conn'[c].worker = conn[c].worker /\ (Rivalled(c) => Rivalled(c)')
  BY <1>1, ProgressBase
<1>5. \A v \in Verdicts : Told(c, v)' => conn'[c].wire = v
  BY <1>1, AnsweredStep
<1>6. QED
  BY <1>1, <1>3, <1>4, <1>5 DEF Progress, Verdicts

\* REG_IN refused: nothing is written but the allocator.
LEMMA HoldingRefused ==
  ASSUME ProcessInv, HoldingInv, \A d \in Connections : Onward(d), NEW c \in Connections,
         RegisterInstance(c), instances' = instances, endpoints' = endpoints,
         next_id' \in {next_id, next_id + 1},
         UNCHANGED <<live_boots, services, capabilities, tombstones>>,
         Active(c) => Rivalled(c) /\ conn'[c].wire # "OK"
  PROVE  HoldingInv'
<1>1. Served(c) /\ TypeOK
  BY DEF Served, ProcessInv
<1>2. Plain'
  BY <1>1 DEF HoldingInv, Plain, TypeOK, IsMap
<1>3. Written' /\ Bound'
  BY WrittenStep DEF HoldingInv, Bound
<1>4. \A d \in Connections : Spared(d)
  BY DEF Spared
<1>5. Active(c) => Progress(c)'
  BY InstanceAnswered
<1>6. QED
  BY <1>1, <1>2, <1>3, <1>4, <1>5, HoldingServed

\* REG_IN installed, or stopped at its endpoint.
LEMMA HoldingInstalled ==
  ASSUME ProcessInv, HoldingInv, \A d \in Connections : Onward(d), NEW c \in Connections,
         RegisterInstance(c), conn[c].boot \in live_boots,
         UNCHANGED <<live_boots, services, capabilities, tombstones>>, next_id' = next_id + 1,
         conn'[c].wire = IF next_id \in DOMAIN instances' THEN "OK" ELSE "ERROR",
         NEW w, w = conn[c].worker, NEW g, g = conn[c].gen,
         NEW inst, inst = [InstanceRequest(w, g).rec EXCEPT !.boot = conn[c].boot],
         NEW is, IsMap(is, Nat, ServiceInstance), SameLinks(instances, is),
         \A i \in DOMAIN instances : is[i].instance_generation = instances[i].instance_generation,
         \A i \in DOMAIN instances : instances[i].service_id # ServiceOf(w) => is[i] = instances[i],
         Install(is, next_id, inst)
  PROVE  HoldingInv'
<1>1. /\ Served(c) /\ TypeOK /\ Plain /\ Written /\ Bound /\ conn[c].thread = "running"
      /\ next_id \in Nat /\ next_id # None /\ next_id \notin DOMAIN instances
  BY DEF Served, ProcessInv, HoldingInv, Plain, TypeOK, None, RegisterInstance, Requested
<1>2. w \in Workers /\ g \in Generations /\ w \in Nat /\ g \in Nat /\ conn[c].boot \in Nat
  BY <1>1, StartedWorker, BoundsAssumption, CoordinatorAssumption
     DEF TypeOK
<1>3. conn[c].boot # None
  BY BoundsAssumption DEF ProcessInv, TypeOK, AuthorityConsistent, None
<1>4. /\ inst \in ServiceInstance /\ inst.endpoints = <<w>> /\ inst.capabilities = {w}
      /\ inst.lease = None /\ inst.health = "HEALTHY" /\ inst.readiness = "READY"
      /\ inst.freshness = "CURRENT" /\ inst.boot = conn[c].boot
      /\ inst.service_id = ServiceOf(w) /\ inst.instance_generation = g
  <2>1. InstanceRequest(w, g) \in InstanceInputs
    BY <1>2, RequestsAssumption
  <2>2. InstanceRequest(w, g).rec \in ServiceInstance
    BY <2>1, InputsAssumption
  <2>3. inst \in ServiceInstance
    BY <1>2, <2>2 DEF ServiceInstance
  <2>4. QED
    BY <2>3 DEF InstanceRequest
<1> DEFINE new == reclassify_lifecycle(inst, endpoints')
           stored == Claimable(is, next_id, w)
<1>5. /\ DOMAIN endpoints' = DOMAIN endpoints
      /\ \A e \in DOMAIN endpoints : e # w => endpoints'[e] = endpoints[e]
      /\ stored => /\ w \in DOMAIN endpoints /\ endpoints'[w] = Claimed(endpoints[w], next_id)
                   /\ instances' = Put(is, next_id, new)
      /\ ~stored => /\ instances' = is
                    /\ \A e \in DOMAIN endpoints : endpoints'[e] = endpoints[e]
  <2>1. Install(is, next_id, inst) /\ inst.endpoints = <<w>>
    BY <1>4
  <2> HIDE DEF new, stored
  <2>2. QED
    BY ONLY <2>1, InstallOne DEF new, stored
<1>6. /\ new.service_id = ServiceOf(w) /\ new.boot = conn[c].boot /\ new.endpoints = <<w>>
      /\ new.instance_generation = g
  BY ONLY <1>4, ReclassifyLinks
<1>7. stored => /\ endpoints'[w].service_instance = next_id
                /\ endpoints'[w].generation = endpoints[w].generation
                /\ endpoints'[w].health = endpoints[w].health
                /\ endpoints'[w].reachability \in {endpoints[w].reachability, "REACHABLE"}
  <2>1. ASSUME NEW ep \in EndpointDescriptor
        PROVE  /\ Claimed(ep, next_id).service_instance = next_id
               /\ Claimed(ep, next_id).generation = ep.generation
               /\ Claimed(ep, next_id).health = ep.health
               /\ Claimed(ep, next_id).reachability \in {ep.reachability, "REACHABLE"}
    BY <1>1 DEF Claimed, EndpointDescriptor
  <2>2. \A e \in DOMAIN endpoints : endpoints[e] \in EndpointDescriptor
    BY <1>1 DEF TypeOK, IsMap
  <2>3. QED
    BY <1>5, <2>1, <2>2
<1>8. /\ DOMAIN is = DOMAIN instances
      /\ \A i \in DOMAIN instances :
           is[i].boot = instances[i].boot /\ is[i].service_id = instances[i].service_id
           /\ is[i].endpoints = instances[i].endpoints
  BY DEF SameLinks
<1>9. /\ \A i \in DOMAIN instances : i \in DOMAIN instances' /\ instances'[i] = is[i]
      /\ stored => next_id \in DOMAIN instances' /\ instances'[next_id] = new
      /\ \A i \in DOMAIN instances' : i \in DOMAIN instances \/ (stored /\ i = next_id)
  <2> HIDE DEF stored, new
  <2>1. QED
    BY <1>1, <1>5, <1>8 DEF Put
<1> HIDE DEF new, stored
<1>10. Plain'
  <2>1. \A i \in DOMAIN instances' : i < next_id' /\ i # None
    <3>1. \A i \in DOMAIN instances : i \in Nat /\ i < next_id /\ i # None
      BY <1>1 DEF TypeOK, IsMap, Plain
    <3>2. QED
      BY <1>1, <1>9, <3>1
  <2>2. \A e \in DOMAIN endpoints' :
          /\ endpoints'[e].health = "HEALTHY"
          /\ endpoints'[e].reachability \in {"REACHABLE", "UNREACHABLE"}
    BY <1>1, <1>5, <1>7 DEF Plain
  <2>3. next_id' >= 1
    BY <1>1
  <2>4. QED
    BY <1>1, <2>1, <2>2, <2>3 DEF Plain
<1>11. Written'
  <2>1. ASSUME NEW i \in DOMAIN instances', i = next_id, stored
        PROVE  InstanceBy(c, instances[i])'
    <3>1. conn[c].process = "running" => After(c, 6)'
      <4> SUFFICES ASSUME conn[c].process = "running" PROVE After(c, 6)'
        OBVIOUS
      <4>1. conn[c].step = 6
        BY <1>1, StepOf
      <4>2. QED
        BY <1>1, <4>1, AnsweredStep
    <3>2. conn[c].process # "unborn"
      BY <1>1, StartedWorker
    <3>3. instances'[i] = new
      BY <1>9, <2>1
    <3>4. QED
      BY <1>3, <1>6, <3>1, <3>2, <3>3 DEF InstanceBy, Onward, SameProcess
  <2>2. \A i \in DOMAIN instances' :
          \/ /\ i \in DOMAIN instances
             /\ instances'[i].boot = instances[i].boot
             /\ instances'[i].service_id = instances[i].service_id
             /\ instances'[i].endpoints = instances[i].endpoints
             /\ instances'[i].instance_generation = instances[i].instance_generation
          \/ \E d \in Connections : InstanceBy(d, instances[i])'
    BY <1>8, <1>9, <2>1
  <2>3. \A e \in DOMAIN endpoints' :
          e \in DOMAIN endpoints /\ endpoints'[e].generation = endpoints[e].generation
    BY <1>5, <1>7
  <2>4. QED
    BY <1>1, <2>2, <2>3, WrittenStep
<1>12. Bound'
  <2> SUFFICES ASSUME NEW e \in DOMAIN endpoints', endpoints'[e].service_instance # None
               PROVE  /\ endpoints'[e].service_instance \in DOMAIN instances'
                      /\ instances'[endpoints'[e].service_instance].boot \in live_boots'
                      /\ instances'[endpoints'[e].service_instance].endpoints = <<e>>
    BY DEF Bound
  <2>1. CASE e = w /\ stored
    BY <1>6, <1>7, <1>9, <2>1
  <2>2. CASE ~(e = w /\ stored)
    <3>1. endpoints'[e] = endpoints[e] /\ e \in DOMAIN endpoints
      BY <1>5, <2>2
    <3>2. QED
      BY <1>1, <1>8, <1>9, <3>1 DEF Bound
  <2>3. QED
    BY <2>1, <2>2
<1>13. ASSUME NEW d \in Connections \ {c}, Active(d) PROVE Spared(d)
  <2>1. conn[d].worker # w /\ conn[d].worker \in Nat
    BY <1>13, OneLiveProcess, ActiveFacts, BoundsAssumption DEF Active
  <2>2. ASSUME NEW i \in DOMAIN instances, instances[i].boot = conn[d].boot
        PROVE  instances'[i] = instances[i]
    <3>1. instances[i].service_id = ServiceOf(conn[d].worker)
      BY <1>1, <2>2, AuthorOf DEF InstanceBy
    <3>2. instances[i].service_id # ServiceOf(w)
      BY <1>2, <2>1, <3>1 DEF ServiceOf
    <3>3. QED
      BY <1>9, <3>2
  <2>3. QED
    BY <1>5, <1>9, <2>1, <2>2 DEF Spared
<1>14. ASSUME Active(c) PROVE Progress(c)'
  <2>1. /\ Progress(c) /\ conn[c].process = "running" /\ conn[c].step = 6
        /\ conn[c].wire = "REG_IN"
    BY <1>1, <1>14, StepOf DEF HoldingInv, Active, RegisterInstance, Requested
  <2>2. /\ w \in DOMAIN endpoints /\ w \in DOMAIN capabilities
        /\ Rivalled(c) \/ endpoints[w].reachability = "REACHABLE"
    BY <2>1 DEF Progress, After
  <2>3. stored
    <3> DEFINE owner == endpoints[w].service_instance
    <3>1. owner = None
      <4> SUFFICES ASSUME owner # None PROVE FALSE
        OBVIOUS
      <4>1. /\ owner \in DOMAIN instances /\ instances[owner].boot \in live_boots
            /\ instances[owner].endpoints = <<w>>
        BY <1>1, <2>2 DEF Bound
      <4>2. PICK d \in Connections : InstanceBy(d, instances[owner])
        BY <1>1, <4>1 DEF Written
      <4>3. conn[d].boot \in live_boots /\ conn[d].worker = w
        BY <4>1, <4>2 DEF InstanceBy
      <4>4. d = c
        BY <4>3, OneLiveProcess
      <4>5. After(c, 6)
        BY <2>1, <4>2, <4>4 DEF InstanceBy
      <4>6. QED
        BY <2>1, <4>5 DEF After, Verdicts
    <3>2. QED
      BY <2>2, <3>1 DEF stored, Claimable
  <2>4. \/ new.lifecycle = "AVAILABLE"
        \/ new.lifecycle = "UNREACHABLE" /\ Rivalled(c)
    <3>1. /\ w \in DOMAIN endpoints' /\ endpoints'[w].health = "HEALTHY"
          /\ endpoints'[w].reachability \in {"REACHABLE", "UNREACHABLE"}
          /\ Rivalled(c) \/ endpoints'[w].reachability = "REACHABLE"
      BY <1>1, <1>5, <1>7, <2>2, <2>3 DEF Plain
    <3>2. /\ endpoints'[w].reachability = "REACHABLE" => new.lifecycle = "AVAILABLE"
          /\ endpoints'[w].reachability = "UNREACHABLE" => new.lifecycle = "UNREACHABLE"
      <4>1. inst.boot \in live_boots
        BY <1>4
      <4>2. QED
        BY ONLY <1>1, <1>4, <2>2, <3>1, <4>1, WorkerClass DEF new
    <3>3. QED
      BY <3>1, <3>2
  <2>5. conn'[c].worker = w /\ conn'[c].boot = conn[c].boot /\ (Rivalled(c) => Rivalled(c)')
    BY <1>1, <1>14, ProgressBase
  <2>6. IsServed(c)' /\ conn'[c].wire = "OK"
    BY <1>6, <1>7, <1>9, <2>3, <2>4, <2>5 DEF IsServed
  <2>7. \A e \in DOMAIN endpoints : endpoints[e].reachability = "REACHABLE" =>
          endpoints'[e].reachability = "REACHABLE"
    BY <1>5, <1>7
  <2>8. QED
    BY <1>5, <1>14, <2>6, <2>7, InstanceAnswered
<1>15. QED
  BY <1>1, <1>10, <1>11, <1>12, <1>13, <1>14, HoldingServed

LEMMA HoldingInstance ==
  ASSUME ProcessInv, HoldingInv, \A d \in Connections : Onward(d),
         NEW c \in Connections, RegisterInstance(c)
  PROVE  HoldingInv'
<1>1. /\ Served(c) /\ Plain /\ Written /\ TypeOK /\ ConnsTyped /\ conn[c].thread = "running"
      /\ next_id \notin DOMAIN instances
  BY DEF Served, HoldingInv, Plain, ProcessInv, Sessions, RegisterInstance, Requested, TypeOK
<1>2. UNCHANGED <<live_boots, services, capabilities, tombstones>>
  BY DEF RegisterInstance, register_instance, vars, authority
<1>3. CASE ~validate_envelope(Envelope(c))
  <2>1. UNCHANGED vars
    BY <1>3 DEF RegisterInstance, register_instance
  <2>2. ~Active(c)
    BY <1>3, ActiveFacts
  <2>3. QED
    BY <1>1, <2>1, <2>2, HoldingFrame, HoldingServed
<1>4. CASE validate_envelope(Envelope(c))
  <2>1. conn[c].boot \in live_boots
    BY <1>4, AcceptedEnvelope
  <2>2. conn'[c].wire = IF next_id \in DOMAIN instances' THEN "OK" ELSE "ERROR"
    <3> DEFINE v == IF next_id \in DOMAIN instances' THEN "OK" ELSE "ERROR"
    <3>1. Reply(c, v) /\ v \in Verdicts
      BY <1>4 DEF RegisterInstance, Verdicts
    <3> HIDE DEF v
    <3>2. conn'[c].wire = v
      BY <1>1, <3>1, ReplyFields
    <3>3. QED
      BY <3>2 DEF v
  <2>3. PICK w, g : w = conn[c].worker /\ g = conn[c].gen
    OBVIOUS
  <2>4. w \in Nat /\ g \in Nat
    BY <1>1, <2>3, StartedWorker, BoundsAssumption, CoordinatorAssumption
  <2> DEFINE inst == [InstanceRequest(w, g).rec EXCEPT !.boot = conn[c].boot]
  <2>5. Active(c) => ServiceOf(w) \in DOMAIN services /\ conn[c].step = 6 /\ conn[c].wire = "REG_IN"
    <3> SUFFICES ASSUME Active(c)
                 PROVE  /\ ServiceOf(w) \in DOMAIN services
                        /\ conn[c].step = 6 /\ conn[c].wire = "REG_IN"
      OBVIOUS
    <3>1. conn[c].step = 6 /\ conn[c].wire = "REG_IN"
      BY <1>1, StepOf DEF Active, RegisterInstance, Requested
    <3>2. After(c, 3) /\ Progress(c)
      BY <3>1 DEF After, HoldingInv
    <3>3. QED
      BY <2>3, <3>1, <3>2 DEF Progress
  <2>6. CASE /\ instances' = instances /\ UNCHANGED <<endpoints, next_id>>
             /\ ServiceOf(w) \notin DOMAIN services
    BY <1>2, <2>5, <2>6, HoldingRefused
  <2>7. ASSUME instances' = instances, endpoints' = endpoints, next_id' = next_id + 1,
               NEW i \in DOMAIN instances, instances[i].service_id = ServiceOf(w),
               g <= instances[i].instance_generation
        PROVE  HoldingInv'
    <3>1. ASSUME Active(c) PROVE Rivalled(c)
      <4>1. PICK d \in Connections : InstanceBy(d, instances[i])
        BY <1>1 DEF Written
      <4>2. conn[d].process # "unborn" /\ conn[d].worker \in Nat /\ conn[d].gen >= g
        BY <1>1, <2>7, <4>1 DEF InstanceBy, ProcessInv, Sessions, Orderly, ConnsTyped, ConnRecord
      <4>3. conn[d].worker = w
        BY <2>4, <2>7, <4>1, <4>2 DEF InstanceBy, ServiceOf
      <4>4. d # c
        BY <2>5, <3>1, <4>1 DEF InstanceBy, Active, After, Verdicts
      <4>5. QED
        BY <2>3, <4>2, <4>3, <4>4 DEF Rivalled
    <3>2. conn'[c].wire # "OK"
      BY <1>1, <2>2, <2>7
    <3>3. QED
      BY <1>2, <2>7, <3>1, <3>2, HoldingRefused
  <2>8. ASSUME next_id' = next_id + 1, NEW is, IsMap(is, Nat, ServiceInstance),
               SameLinks(instances, is),
               \A i \in DOMAIN instances :
                 is[i].instance_generation = instances[i].instance_generation,
               \A i \in DOMAIN instances :
                 instances[i].service_id # ServiceOf(w) => is[i] = instances[i],
               Install(is, next_id, inst)
        PROVE  HoldingInv'
    BY <1>2, <2>1, <2>2, <2>3, <2>8, HoldingInstalled
  <2>9. QED
    BY <1>1, <1>4, <2>3, <2>6, <2>7, <2>8, InstanceCases
<1>5. QED
  BY <1>3, <1>4

LEMMA HoldingInitial == CoordinatorInit => HoldingInv
<1> SUFFICES ASSUME CoordinatorInit PROVE HoldingInv
  OBVIOUS
<1>1. DOMAIN EmptyMap = {}
  BY DEF EmptyMap
<1>2. /\ DOMAIN instances = {} /\ DOMAIN endpoints = {} /\ DOMAIN capabilities = {}
      /\ DOMAIN services = {} /\ DOMAIN tombstones = {} /\ next_id = 1 /\ live_boots = {}
  BY <1>1 DEF CoordinatorInit, Init
<1>3. QED
  BY <1>2 DEF HoldingInv, Plain, Written, Bound, Active

LEMMA HoldingStep ==
  ASSUME None \notin Workers
  PROVE  ProcessInv /\ HoldingInv /\ [CoordinatorNext]_cvars => HoldingInv'
<1> SUFFICES ASSUME ProcessInv, HoldingInv, [CoordinatorNext]_cvars PROVE HoldingInv'
  OBVIOUS
<1>1. \A d \in Connections : Onward(d)
  BY OnwardStep
<1>2. ASSUME NEW c \in Connections, Served(c)
      PROVE  HoldingInv'
  BY <1>1, <1>2, HoldingRuntime, HoldingService, HoldingEndpoint, HoldingCapability,
     HoldingInstance DEF Served
<1>3. CASE UNCHANGED cvars
  <2>1. UNCHANGED vars /\ live_boots' = live_boots /\ conn' = conn
    BY <1>3 DEF cvars, vars, authority
  <2>2. Plain' /\ Written' /\ Bound' /\ \A d \in Connections : Spared(d)
    BY <1>1, <2>1, HoldingFrame
  <2>3. ASSUME NEW d \in Connections, Active(d)'
        PROVE  Progress(d)'
    <3>1. Active(d) /\ conn'[d] = conn[d]
      BY <2>1, <2>3 DEF Active
    <3>2. QED
      BY <1>1, <2>2, <3>1, ProgressSpared DEF HoldingInv
  <2>4. QED
    BY <2>2, <2>3 DEF HoldingInv
<1>4. QED
  BY <1>1, <1>2, <1>3, HoldingMain, HoldingProcess, HoldingHello, HoldingEnd, CoordinatorCases

LEMMA HoldingInvariant ==
  ASSUME None \notin Workers
  PROVE  CoordinatorSpec => [](ProcessInv /\ HoldingInv)
<1>1. CoordinatorInit => ProcessInv /\ HoldingInv
  BY ProcessInitial, HoldingInitial
<1>2. ProcessInv /\ HoldingInv /\ [CoordinatorNext]_cvars => (ProcessInv /\ HoldingInv)'
  BY ProcessStep, HoldingStep
<1>3. QED
  BY <1>1, <1>2, PTL DEF CoordinatorSpec

LEMMA HoldingTold ==
  ASSUME ProcessInv, HoldingInv, NEW c \in Connections, Holding(c), is_boot_live(conn[c].boot)
  PROVE  /\ conn[c].ack = "OK" => IsServed(c)
         /\ conn[c].ack = "ERROR" => Rivalled(c)
<1>1. conn[c].step = 7 /\ Active(c)
  <2>1. conn[c].step \in 1 .. 7
    BY DEF ProcessInv, Sessions, Orderly
  <2>2. QED
    BY <2>1, ScriptFacts DEF Holding, Active, is_boot_live
<1>2. Progress(c)
  BY <1>1 DEF HoldingInv
<1>3. QED
  BY <1>1, <1>2 DEF Progress, Told

\* A worker that holds with an accepted registration and a live incarnation is
\* served, however the requests, crashes and restarts of all processes
\* interleave (handle_connection, worker.cpp).  Worker id 0 is excepted: its
\* endpoint would be stored under an id of the allocator (register_endpoint).
THEOREM HoldingCorrect ==
  ASSUME None \notin Workers
  PROVE  CoordinatorSpec => []HoldingIsServed
<1>1. ProcessInv /\ HoldingInv => HoldingIsServed
  BY HoldingTold DEF HoldingIsServed, IsServed
<1>2. QED
  BY <1>1, HoldingInvariant, PTL

\* A live worker is refused its instance by the generation of a rival process
\* of the same worker and by nothing else: not by an endpoint, a capability or
\* a service that its own requests did not bring about (register_instance).
THEOREM FencingCorrect ==
  ASSUME None \notin Workers
  PROVE  CoordinatorSpec => []FencedByGenerationOnly
<1>1. ProcessInv /\ HoldingInv => FencedByGenerationOnly
  BY HoldingTold DEF FencedByGenerationOnly
<1>2. QED
  BY <1>1, HoldingInvariant, PTL
=============================================================================
