------------------------------ MODULE Recovery ------------------------------
(***************************************************************************)
(* Persistence and recovery (persistence.cpp): serialize_to writes the     *)
(* canonical records, the histories, the epoch and the allocators;         *)
(* load_from replaces them, drops all process authority, marks what has to *)
(* be observed again and rebuilds the index.                               *)
(*                                                                         *)
(* A file is saved at any moment and loaded at any later one, by the       *)
(* process that wrote it or by a new one that starts empty; the caller may *)
(* keep several, so that a registry can load a sound file after one that   *)
(* failed.                                                                 *)
(*                                                                         *)
(* get_instance refuses longer lists of ids than register_instance takes,  *)
(* so the registry can write a file it cannot read.  load_from then throws *)
(* at the first record that is too long, after it has cleared every map    *)
(* and refilled those it came to: the records stay as they were saved,     *)
(* under the authority, the allocators and the index from before.          *)
(*                                                                         *)
(* Left out: the byte layout (the sections are written and read in one     *)
(* order, field by field), the checks of magic, version, counts, CRC and   *)
(* digest, which throw before anything changes, the other lists with a     *)
(* limit, and files the registry did not write itself.                     *)
(***************************************************************************)
EXTENDS Registry, FiniteSetsExt

CONSTANTS
  Files,          \* the files a caller keeps
  MaxList         \* entries get_instance takes in a list: 4096 in the code

ASSUME MaxListAssumption == MaxList \in Nat

VARIABLES
  long_history,   \* instance_history_ holds a record that is too long
  disk,           \* file -> its snapshot, NoSnapshot before the first save
  floor,          \* history variable: the last boot issued before the snapshot
                  \*   that was loaded
  damaged         \* history variable: the last load failed

rvars == <<vars, long_history, disk, floor, damaged>>

NoSnapshot == << >>

\* serialize_to: what is persisted.  Authority over processes and the index
\* are not.  (sound, for the properties only: not saved in a damaged state)
serialize ==
  [epoch |-> epoch, next_boot |-> next_boot, next_id |-> next_id, lease_gen |-> lease_gen,
   catalog |-> catalog, services |-> services, instances |-> instances,
   endpoints |-> endpoints, capabilities |-> capabilities, leases |-> leases,
   tombstones |-> tombstones, invalidations |-> invalidations,
   long_history |-> long_history, sound |-> ~damaged]

RecoveryInit ==
  /\ Init /\ long_history = FALSE
  /\ disk = [f \in Files |-> NoSnapshot] /\ floor = FirstBoot /\ damaged = FALSE

Save(f) ==
  /\ disk' = [disk EXCEPT ![f] = serialize]
  /\ UNCHANGED <<vars, long_history, floor, damaged>>

\* The process is gone and another one constructs its registry.
Restart ==
  /\ epoch' = 1 /\ live_boots' = {}
  /\ current_boot' = EmptyMap /\ boot_worker' = EmptyMap
  /\ next_boot' = FirstBoot /\ next_id' = 1 /\ lease_gen' = 0
  /\ catalog' = [k \in CatalogKind |-> EmptyMap]
  /\ services' = EmptyMap /\ endpoints' = EmptyMap /\ capabilities' = EmptyMap
  /\ instances' = EmptyMap /\ leases' = EmptyMap /\ tombstones' = EmptyMap
  /\ invalidations' = {} /\ index_by_service' = rebuild_indexes(EmptyMap)
  /\ long_history' = FALSE /\ floor' = FirstBoot /\ damaged' = FALSE
  /\ UNCHANGED disk

-----------------------------------------------------------------------------
(* Reading a snapshot                                                      *)

\* get_instance: a list with too many entries makes the reader fail.
TooLong(inst) == Len(inst.endpoints) > MaxList \/ Cardinality(inst.capabilities) > MaxList

Unreadable(s) == {i \in DOMAIN s.instances : TooLong(s.instances[i])}
Readable(s) == Unreadable(s) = {} /\ ~s.long_history

\* What is in the maps when load_from throws: the sections are services,
\* instances by id, every other map, histories.
PartlyRead(s) ==
  IF Unreadable(s) = {} THEN [s EXCEPT !.long_history = FALSE]
  ELSE [s EXCEPT
          !.instances = [i \in {j \in DOMAIN @ : j < Min(Unreadable(s))} |-> @[i]],
          !.catalog = [k \in CatalogKind |-> EmptyMap],
          !.endpoints = EmptyMap, !.capabilities = EmptyMap, !.leases = EmptyMap,
          !.tombstones = EmptyMap, !.invalidations = {}, !.long_history = FALSE]

ReadInto(s) ==
  /\ catalog' = s.catalog /\ services' = s.services /\ instances' = s.instances
  /\ endpoints' = s.endpoints /\ capabilities' = s.capabilities /\ leases' = s.leases
  /\ tombstones' = s.tombstones /\ invalidations' = s.invalidations
  /\ long_history' = s.long_history

\* The records a snapshot is turned into once it is read.
Bug_RecoveredInNewEpoch(s) == [s EXCEPT !.epoch = @ + 1]
Bug_RecoveredAsSaved(s) == s
Bug_RecoveredBootsRestart(s) ==
  [s EXCEPT !.next_boot = FirstBoot,
     !.instances = [i \in DOMAIN @ |-> RevalidatedInstance(@[i])]]
Bug_RecoveredIdsRestart(s) == [s EXCEPT !.next_id = 1]
Recovered(s) ==
  [s EXCEPT
     !.instances = [i \in DOMAIN @ |-> RevalidatedInstance(@[i])],
     !.endpoints = [e \in DOMAIN @ |-> RevalidatedEndpoint(@[e])],
     !.capabilities = [c \in DOMAIN @ |-> RevalidatedCapability(@[c])],
     !.leases = [l \in DOMAIN @ |-> RevalidatedLease(@[l])]]

\* No process survives a recovery.
Bug_ForgetLiveBootsOnly == live_boots' = {} /\ UNCHANGED <<current_boot, boot_worker>>
ForgetProcesses == live_boots' = {} /\ current_boot' = EmptyMap /\ boot_worker' = EmptyMap

Bug_RecoveredIndex(insts) == index_by_service
RecoveredIndex(insts) == rebuild_indexes(insts)

load_from(f) ==
  LET s == Recovered(disk[f])
  IN  /\ disk[f] # NoSnapshot /\ Readable(disk[f])
      /\ ReadInto(s)
      /\ epoch' = s.epoch /\ next_boot' = s.next_boot
      /\ next_id' = s.next_id /\ lease_gen' = s.lease_gen
      /\ ForgetProcesses
      /\ index_by_service' = RecoveredIndex(s.instances)
      /\ floor' = disk[f].next_boot /\ damaged' = ~disk[f].sound /\ UNCHANGED disk

load_fails(f) ==
  /\ disk[f] # NoSnapshot /\ ~Readable(disk[f])
  /\ ReadInto(PartlyRead(disk[f]))
  /\ damaged' = TRUE
  /\ UNCHANGED <<authority, next_id, lease_gen, index_by_service, disk, floor>>

-----------------------------------------------------------------------------
\* An operation of the registry; register_instance adds the instance it
\* installs to instance_history_.
Operate ==
  /\ Next
  /\ long_history' = (long_history \/ \E i \in DOMAIN instances' : TooLong(instances'[i]))
  /\ UNCHANGED <<disk, floor, damaged>>

RecoveryNext ==
  \/ Operate \/ Restart
  \/ \E f \in Files : Save(f) \/ load_from(f) \/ load_fails(f)

RecoverySpec == RecoveryInit /\ [][RecoveryNext]_rvars

-----------------------------------------------------------------------------
(* Properties                                                              *)

\* A recovery, also one from a snapshot that has been through several
\* incarnations and epochs or one that repairs a failed load, leaves nothing
\* serving that no live incarnation stands behind.
WholeServes == ~damaged => ServingIsLive

\* It restores records that name each other and an index that fits them.
WholeResolves == ~damaged => RecordsResolve

\* No incarnation inherits what it did not register: an instance that came
\* back from a snapshot never serves again under the boot stored in it, since
\* no boot issued after the recovery has the number of one that owns a
\* recovered record ("live WorkerBootId authority is cleared", README).
ServedSinceRecovery ==
  ~damaged => \A i \in DOMAIN instances : Serving(i) => instances[i].boot > floor

\* Recovery is deterministic and idempotent: to load a snapshot, save and load
\* again gives the same durable state as loading once (load_from: "a
\* serialize/load round trip remains deterministic").
RoundTripStable ==
  \A f \in Files :
    disk[f] # NoSnapshot => Recovered(Recovered(disk[f])) = Recovered(disk[f])

\* The allocator stays ahead of the ids it has handed out, through restarts
\* and recoveries: an id that no caller chose and that is in use is never the
\* next one (next_id_ is persisted with the records).
Allocated(m, inputs) == DOMAIN m \ {in.id : in \in inputs}
AllocatorAhead ==
  ~damaged =>
    \A id \in Allocated(instances, InstanceInputs) \cup Allocated(endpoints, EndpointInputs)
               \cup Allocated(capabilities, CapabilityInputs)
               \cup Allocated(leases, LeaseInputs) \cup Allocated(tombstones, TombstoneInputs) :
      id < next_id
=============================================================================
