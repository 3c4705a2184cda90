--------------------------- MODULE RegistryTypes ---------------------------
(***************************************************************************)
(* The value domains of the registry (enums.hpp) and the descriptor        *)
(* records it stores (model.hpp, capability.hpp), cut down to the fields   *)
(* that some operation reads.  Every strong id and every generation is a   *)
(* natural number; 0 is the value of a default-constructed id, "none".     *)
(***************************************************************************)
EXTENDS Naturals, Sequences, Functions

None == 0

Health == {"HEALTHY", "DEGRADED", "UNHEALTHY", "UNAVAILABLE", "UNKNOWN"}

Readiness == {"READY", "PARTIALLY_READY", "NOT_READY", "DRAINING",
              "REVALIDATION_REQUIRED", "UNKNOWN"}

Freshness == {"CURRENT", "STALE", "REVALIDATION_REQUIRED", "UNKNOWN"}

Reachability == {"REACHABLE", "DEGRADED", "UNREACHABLE",
                 "REVALIDATION_REQUIRED", "UNKNOWN"}

Lifecycle == {"REGISTERING", "AVAILABLE", "DEGRADED", "DRAINING", "UNREADY",
              "STALE", "UNREACHABLE", "INVALIDATED", "SUPERSEDED",
              "TOMBSTONED", "RETIRED", "FAILED"}

TransportKind == {"TCP", "LOCAL_IPC", "SHARED_MEMORY", "IN_PROCESS",
                  "SYNTHETIC_REMOTE", "UNKNOWN"}

LeaseState == {"ACTIVE", "EXPIRED", "REVOKED", "REVALIDATION_REQUIRED",
               "UNKNOWN"}

EvidenceKind == {"MEASURED", "REPORTED", "DERIVED", "SYNTHETIC", "UNKNOWN"}

\* Provenance::is_physical: evidence that a recovery must observe again.
Physical == {"MEASURED", "REPORTED", "DERIVED"}

\* The maps of runtimes (under two keys), protocols, backends, devices and
\* nodes.  Fields no operation of the registry reads are one opaque content.
CatalogKind == {"RuntimeId", "RuntimeInstanceId", "ProtocolId", "BackendId",
                "DeviceId", "NodeId"}
CatalogDescriptor ==
  [generation : Nat, runtime_id : Nat, runtime_instance : Nat, content : STRING]

\* Kinds are compared for equality only, so any strings do.
ServiceDescriptor == [generation : Nat, required_capabilities : SUBSET STRING]

EndpointDescriptor ==
  [service_instance : Nat, generation : Nat, transport : TransportKind,
   health : Health, reachability : Reachability, freshness : Freshness]

CapabilityDescriptor ==
  [generation : Nat, kind : STRING, freshness : Freshness,
   provenance : EvidenceKind]

\* endpoints is a vector whose order matters to register_instance;
\* capabilities is only searched, so a set stands for the vector.
ServiceInstance ==
  [service_id : Nat, instance_generation : Nat, boot : Nat,
   endpoints : Seq(Nat), capabilities : SUBSET Nat,
   health : Health, readiness : Readiness, freshness : Freshness,
   reachability : Reachability, lease : Nat, lifecycle : Lifecycle]

LeaseDescriptor == [generation : Nat, service_instance : Nat, state : LeaseState]

\* Tombstones and invalidations name their target by a kind and an id.
TombstoneRecord == [target_kind : STRING, target : Nat, generation_floor : Nat]

InvalidationRecord == [target_kind : STRING, target : Nat]

\* The components of the envelope that validate_envelope compares; the record
\* generation that some operations also compare is a parameter of theirs.
AuthorityEnvelope == [epoch : Nat, boot : Nat]

-----------------------------------------------------------------------------
(* An unordered_map is a function on the set of its keys.                  *)

IsMap(f, K, V) == DOMAIN f \subseteq K /\ \A k \in DOMAIN f : f[k] \in V

\* m[k] = v
Put(m, k, v) == [x \in DOMAIN m \cup {k} |-> IF x = k THEN v ELSE m[x]]

\* find(k), or d when the key is absent.
Lookup(m, k, d) == IF k \in DOMAIN m THEN m[k] ELSE d

\* The empty map.
EmptyMap == [x \in {} |-> x]
=============================================================================
