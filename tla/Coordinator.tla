----------------------------- MODULE Coordinator -----------------------------
(***************************************************************************)
(* The coordinator process (apps/coordinator.cpp) and the worker processes *)
(* that talk to it (apps/worker.cpp).  A worker process owns one TCP       *)
(* connection and the coordinator serves it with one thread; the threads   *)
(* share the registry, whose operations are those of Registry.             *)
(*                                                                         *)
(* A worker sends a request and waits for its reply, so a connection       *)
(* carries one message at a time.  Processes crash and are started again   *)
(* with the same worker id at any moment, also while the thread of an      *)
(* earlier process has not noticed that its peer is gone.                  *)
(*                                                                         *)
(* A worker in "idle" mode says HELLO and sends nothing more; a worker in  *)
(* "hold" mode that is not scheduled after its HELLO is in the same state. *)
(*                                                                         *)
(* Left out: framing (a request is received whole, lost, or cut short, see *)
(* recv_one, and a reply whole or not at all: module Framing has the bytes *)
(* and the worker that loses its place in them), the PING and QUERY        *)
(* requests, which change nothing, and the UH and UR requests, which no    *)
(* worker sends.                                                           *)
(***************************************************************************)
EXTENDS Registry

CONSTANTS
  MaxConnections,   \* bound: worker processes that are ever started
  Generations       \* the generations an operator starts workers with

ASSUME CoordinatorAssumption ==
  MaxConnections \in Nat /\ Generations \subseteq Nat /\ MaxEpoch >= 2

VARIABLES
  session,          \* the epoch main() captured, None before it did
  conn              \* worker processes with their connections and threads

cvars == <<vars, session, conn>>

Connections == 1 .. MaxConnections

\* The requests of a worker in "hold" mode, and what it sends as its k-th one.
Bug_ScriptInstanceFirst == <<"HELLO", "REG_RT", "REG_SV", "REG_EP", "REG_IN", "REG_CA">>
Script == <<"HELLO", "REG_RT", "REG_SV", "REG_EP", "REG_CA", "REG_IN">>
Request(k) == IF k <= Len(Script) THEN Script[k] ELSE "idle"

Unborn ==
  [worker |-> None, gen |-> None, process |-> "unborn", step |-> 1,
   wire |-> "idle", thread |-> "none", boot |-> None, ack |-> "none"]

CoordinatorInit ==
  /\ Init
  /\ session = None
  /\ conn = [c \in Connections |-> Unborn]

\* main: a fresh registry, a fresh epoch, and the epoch every thread will use.
Main ==
  /\ session = None
  /\ begin_coordinator_epoch
  /\ session' = epoch'
  /\ UNCHANGED conn

-----------------------------------------------------------------------------
(* Worker processes                                                        *)

\* A worker process starts, connects and says HELLO; main accepts and starts
\* a thread.
Connect(c, w, g) ==
  /\ session # None
  /\ conn[c].process = "unborn" /\ \A d \in 1 .. c - 1 : conn[d].process # "unborn"
  /\ conn' = [conn EXCEPT ![c] = [Unborn EXCEPT !.worker = w, !.gen = g, !.process = "running",
                                    !.wire = Request(1), !.thread = "running"]]
  /\ UNCHANGED <<vars, session>>

Working(c) == conn[c].process = "running" /\ conn[c].step <= Len(Script)
Answered(c) == conn[c].wire \in {"OK", "ERROR"}

\* The worker reads the reply, keeps it and sends its next request.  The end of
\* the connection is an empty line to recv_line, and the worker goes on.
Bug_ReceiveReplyOnly(c) ==
  /\ Working(c) /\ Answered(c)
  /\ conn' = [conn EXCEPT ![c].wire = Request(conn[c].step + 1), ![c].step = @ + 1,
                           ![c].ack = conn[c].wire]
  /\ UNCHANGED <<vars, session>>
Receive(c) ==
  /\ Working(c)
  /\ Answered(c) \/ conn[c].thread = "done"
  /\ conn' = [conn EXCEPT ![c].wire = Request(conn[c].step + 1), ![c].step = @ + 1,
                           ![c].ack = IF Answered(c) THEN conn[c].wire ELSE "none"]
  /\ UNCHANGED <<vars, session>>

\* The process is killed and its state is lost.  What it had sent may still
\* arrive.
Crash(c) ==
  /\ conn[c].process = "running"
  /\ conn' = [conn EXCEPT ![c].process = "gone", ![c].step = 1, ![c].ack = "none"]
  /\ UNCHANGED <<vars, session>>

-----------------------------------------------------------------------------
(* Coordinator threads: handle_connection                                  *)

\* The descriptors the coordinator builds from the fields of a request.
RuntimeRequest(w) ==
  [kind |-> "RuntimeInstanceId", id |-> w,
   rec |-> [generation |-> 1, runtime_id |-> w, runtime_instance |-> w, content |-> "cpp"]]
ServiceOf(w) == 100 + w
ServiceRequest(w) ==
  [id |-> ServiceOf(w), rec |-> [generation |-> 1, required_capabilities |-> {"CUDA_AVAILABLE"}]]
EndpointRequest(w, g) ==
  [id |-> w, rec |-> [service_instance |-> None, generation |-> g, transport |-> "TCP",
                      health |-> "HEALTHY", reachability |-> "REACHABLE", freshness |-> "CURRENT"]]
CapabilityRequest(w) ==
  [id |-> w, rec |-> [generation |-> 1, kind |-> "CUDA_AVAILABLE", freshness |-> "CURRENT",
                      provenance |-> "MEASURED"]]
Bug_InstanceRequestOtherEndpoint(w, g) ==
  [id |-> None, rec |-> [service_id |-> ServiceOf(w), instance_generation |-> g, boot |-> None,
     endpoints |-> <<ServiceOf(w)>>, capabilities |-> {w}, health |-> "HEALTHY", readiness |-> "READY",
     freshness |-> "CURRENT", reachability |-> "REACHABLE", lease |-> None,
     lifecycle |-> "REGISTERING"]]
InstanceRequest(w, g) ==
  [id |-> None, rec |-> [service_id |-> ServiceOf(w), instance_generation |-> g, boot |-> None,
     endpoints |-> <<w>>, capabilities |-> {w}, health |-> "HEALTHY", readiness |-> "READY",
     freshness |-> "CURRENT", reachability |-> "REACHABLE", lease |-> None,
     lifecycle |-> "REGISTERING"]]

\* Every request the coordinator builds is an input of Registry.
ASSUME RequestsAssumption ==
  \A w \in Workers, g \in Generations :
    /\ RuntimeRequest(w) \in CatalogInputs /\ ServiceRequest(w) \in ServiceInputs
    /\ EndpointRequest(w, g) \in EndpointInputs /\ CapabilityRequest(w) \in CapabilityInputs
    /\ InstanceRequest(w, g) \in InstanceInputs

Requested(c, op) == conn[c].thread = "running" /\ conn[c].wire = op
Reply(c, verdict) == conn' = [conn EXCEPT ![c].wire = verdict] /\ UNCHANGED session
Envelope(c) == [epoch |-> session, boot |-> conn[c].boot]

Hello(c) ==
  /\ Requested(c, "HELLO")
  /\ adopt_worker(conn[c].worker)
  /\ conn' = [conn EXCEPT ![c].boot = next_boot', ![c].wire = "OK"]
  /\ UNCHANGED session

\* A descriptor request: accepted, confirmed when it repeats what is stored,
\* or rejected.  Only the first changes the registry.
Answer(c, m, kind, in, operation) ==
  \/ operation /\ Reply(c, "OK")
  \/ /\ ~(validate_envelope(Envelope(c)) /\ Registrable(m, kind, in))
     /\ UNCHANGED vars
     /\ Reply(c, IF validate_envelope(Envelope(c)) /\ Lookup(m, in.id, None) = in.rec
                 THEN "OK" ELSE "ERROR")

RegisterRuntime(c) ==
  LET in == RuntimeRequest(conn[c].worker)
  IN  /\ Requested(c, "REG_RT")
      /\ Answer(c, catalog["RuntimeInstanceId"], "RuntimeInstanceId", in,
                register_runtime(Envelope(c), in))

RegisterService(c) ==
  LET in == ServiceRequest(conn[c].worker)
  IN  /\ Requested(c, "REG_SV")
      /\ Answer(c, services, "ServiceId", in, register_service(Envelope(c), in))

RegisterEndpoint(c) ==
  LET in == EndpointRequest(conn[c].worker, conn[c].gen)
  IN  /\ Requested(c, "REG_EP")
      /\ Answer(c, endpoints, "EndpointId", in, register_endpoint(Envelope(c), in))

RegisterCapability(c) ==
  LET in == CapabilityRequest(conn[c].worker)
  IN  /\ Requested(c, "REG_CA")
      /\ Answer(c, capabilities, "CapabilityId", in, register_capability(Envelope(c), in))

\* The reply carries the new id when the instance was stored.
Bug_RegisterInstanceUnchecked(c) ==
  LET in == InstanceRequest(conn[c].worker, conn[c].gen)
  IN  /\ Requested(c, "REG_IN")
      /\ RegisterOver(instances, in, [in.rec EXCEPT !.boot = conn[c].boot])
      /\ UNCHANGED <<authority, lease_gen, catalog, services, capabilities, leases,
                     tombstones, invalidations>>
      /\ Reply(c, IF next_id \in DOMAIN instances' THEN "OK" ELSE "ERROR")
RegisterInstance(c) ==
  LET in == InstanceRequest(conn[c].worker, conn[c].gen)
  IN  /\ Requested(c, "REG_IN")
      /\ \/ /\ register_instance(Envelope(c), in, conn[c].boot)
            /\ Reply(c, IF next_id \in DOMAIN instances' THEN "OK" ELSE "ERROR")
         \/ /\ ~validate_envelope(Envelope(c))
            /\ UNCHANGED vars
            /\ Reply(c, "ERROR")

Handle(c) ==
  \/ Hello(c) \/ RegisterRuntime(c) \/ RegisterService(c)
  \/ RegisterEndpoint(c) \/ RegisterCapability(c) \/ RegisterInstance(c)

\* The loop ends: the boot of the connection, if it said hello, is dead.
Bug_LeaveQuietly(c) ==
  /\ conn' = [conn EXCEPT ![c].thread = "done", ![c].wire = "idle"]
  /\ UNCHANGED <<vars, session>>
Leave(c) ==
  /\ IF conn[c].boot # None THEN mark_worker_died(conn[c].boot) ELSE UNCHANGED vars
  /\ conn' = [conn EXCEPT ![c].thread = "done", ![c].wire = "idle"]
  /\ UNCHANGED session

\* The peer is gone; a request still on the wire is read first or lost.
EndOfStream(c) ==
  /\ conn[c].thread = "running" /\ conn[c].process = "gone"
  /\ Leave(c)

\* recv returned fewer than the ten bytes of a header: recv_one gives up and
\* the loop ends although the process is alive.
ShortRead(c) ==
  /\ conn[c].thread = "running" /\ conn[c].wire \in Range(Script)
  /\ Leave(c)

-----------------------------------------------------------------------------
CoordinatorNext ==
  \/ Main
  \/ \E c \in Connections :
       \/ \E w \in Workers, g \in Generations : Connect(c, w, g)
       \/ Receive(c) \/ Crash(c)
       \/ Handle(c) \/ EndOfStream(c) \/ ShortRead(c)

\* Main, every thread and every running worker get to run.  Nobody has to be
\* started, to crash or to lose a frame.
Fairness ==
  /\ WF_cvars(Main)
  /\ \A c \in Connections :
       WF_cvars(Receive(c)) /\ WF_cvars(Handle(c) \/ EndOfStream(c))

CoordinatorSpec == CoordinatorInit /\ [][CoordinatorNext]_cvars /\ Fairness

-----------------------------------------------------------------------------
(* Properties                                                              *)

\* Every live boot is the boot of a thread that still serves its worker's
\* connection: no incarnation stays live with nobody left to declare it dead.
LiveBootHasThread ==
  \A b \in live_boots : \E c \in Connections :
    conn[c].thread = "running" /\ conn[c].boot = b /\ conn[c].worker = boot_worker[b]

Holding(c) == conn[c].process = "running" /\ conn[c].step > Len(Script)

\* Another process of the same worker was started with the same or a larger
\* generation.
Rivalled(c) ==
  \E d \in Connections \ {c} :
    /\ conn[d].process # "unborn"
    /\ conn[d].worker = conn[c].worker /\ conn[d].gen >= conn[c].gen

\* A worker that finished its script with an accepted registration, and whose
\* incarnation is live, is served: its instance owns the worker's endpoint and
\* is AVAILABLE, whatever restarts, crashes and late requests of other processes
\* happened in between ("registered and holding", worker.cpp).  Only a worker
\* whose generation is not its own may be UNREACHABLE: a death released the
\* endpoint it finds registered, and claiming a free endpoint leaves it so.
HoldingIsServed ==
  \A c \in Connections :
    Holding(c) /\ conn[c].ack = "OK" /\ is_boot_live(conn[c].boot) =>
      \E i \in DOMAIN instances :
        /\ instances[i].boot = conn[c].boot
        /\ endpoints[conn[c].worker].service_instance = i
        /\ \/ instances[i].lifecycle = "AVAILABLE"
           \/ instances[i].lifecycle = "UNREACHABLE" /\ Rivalled(c)

\* A live worker is refused its instance only because some other process of
\* the same worker was started with the same or a larger generation.
FencedByGenerationOnly ==
  \A c \in Connections :
    Holding(c) /\ conn[c].ack = "ERROR" /\ is_boot_live(conn[c].boot) => Rivalled(c)

\* The death of a process is noticed: its boot does not stay live.
DeathIsNoticed ==
  \A c \in Connections :
    conn[c].process = "gone" ~> conn[c].thread = "done" /\ conn[c].boot \notin live_boots

\* Nobody waits for ever: a started worker reaches the end of its script or
\* is killed, also when its connection was cut.
WorkersFinish ==
  \A c \in Connections : Working(c) ~> ~Working(c)

\* Each step of the threads is an operation of the registry, so what is proved
\* of Registry holds of the coordinator.
ImplementsRegistry == Spec
=============================================================================
