---------------------------- MODULE MCSelection -----------------------------
(***************************************************************************)
(* Registry states and queries for Selection.  A catalog holds two         *)
(* instances that each differ from a good one in one way, next to a good   *)
(* one or alone, so that whatever a candidate is turned away for is also   *)
(* the only reason; the lifecycle is the one the registry stores with      *)
(* those status fields.                                                    *)
(***************************************************************************)
EXTENDS Selection

Good ==
  [service_id |-> 1, boot |-> 101, lifecycle |-> "AVAILABLE", freshness |-> "CURRENT",
   lease |-> None, readiness |-> "READY", health |-> "HEALTHY", reachability |-> "REACHABLE",
   protocols |-> {1}, capabilities |-> {1}, runtime_instance |-> 1, runtime_id |-> 1, node |-> 1]

\* Incarnation 100 is dead: revoked, or forgotten by a recovery.
Revoked == [Good EXCEPT !.boot = 100, !.lifecycle = "STALE", !.freshness = "STALE",
              !.reachability = "UNREACHABLE", !.readiness = "NOT_READY"]
Unconfirmed == [Good EXCEPT !.boot = 100, !.lifecycle = "UNREADY",
                  !.freshness = "REVALIDATION_REQUIRED", !.reachability = "REVALIDATION_REQUIRED"]

Variants ==
  {Good, Revoked, Unconfirmed}
  \cup {[Good EXCEPT !.lifecycle = l] : l \in {"SUPERSEDED", "RETIRED"}}
  \cup {[Good EXCEPT !.lease = l] : l \in 1 .. 2}
  \cup {[Good EXCEPT !.readiness = "DRAINING", !.lifecycle = "DRAINING"],
        [Good EXCEPT !.readiness = "PARTIALLY_READY", !.lifecycle = "DEGRADED"],
        [Good EXCEPT !.health = "DEGRADED", !.lifecycle = "DEGRADED"],
        [Good EXCEPT !.health = "UNHEALTHY", !.lifecycle = "UNREADY"],
        [Good EXCEPT !.reachability = "UNREACHABLE", !.lifecycle = "UNREACHABLE"]}
  \cup {[Good EXCEPT !.capabilities = c] : c \in {{}, {2}}}
  \cup {[Good EXCEPT !.protocols = p] : p \in {{}, {2}, {1, 2}}}
  \cup {[Good EXCEPT !.runtime_instance = r, !.runtime_id = 2] : r \in 2 .. 3}
  \cup {[Good EXCEPT !.service_id = 2], [Good EXCEPT !.node = 2]}

Catalog(insts) ==
  [instances |-> insts, live_boots |-> {101}, leases |-> <<"ACTIVE", "EXPIRED">>,
   services |->
     <<[kind |-> "MODEL_SERVER", api_version |-> <<1, 10, 0>>, abi_version |-> <<1, 0, 0>>, version |-> <<1, 0, 0>>],
       [kind |-> "SCHEDULER", api_version |-> <<1, 9, 0>>, abi_version |-> <<2, 0, 0>>, version |-> <<1, 2, 0>>]>>,
   capabilities |-> <<[kind |-> "CUDA_AVAILABLE", freshness |-> "CURRENT"],
                      [kind |-> "CUDA_AVAILABLE", freshness |-> "UNKNOWN"]>>,
   protocols |-> <<<<2, 1, 0>>, <<3, 0, 0>>>>,
   runtimes |-> <<[kind |-> "NATIVE_CPP", family |-> "cpp", architecture |-> "x64"],
                  [kind |-> "NATIVE_CPP", family |-> "cpp", architecture |-> "arm64"]>>]

MCCatalogs ==
  {Catalog(<<a, b>>) : a \in Variants, b \in Variants}
    \cup {Catalog(<<a, b, Good>>) : a \in Variants, b \in Variants}

\* A default-constructed RegistryQuery.
Default ==
  [service_kind |-> "UNKNOWN", exact_service_id |-> None, runtime_kind |-> "UNKNOWN",
   runtime_family |-> "", minimum_api |-> <<0, 0, 0>>, has_minimum_api |-> FALSE,
   abi_requirement |-> <<0, 0, 0>>, has_abi_requirement |-> FALSE,
   protocol_requirement |-> None, protocol_version |-> <<0, 0, 0>>, has_protocol_version |-> FALSE,
   required_capabilities |-> << >>, architecture |-> "", required_health |-> "UNKNOWN",
   required_readiness |-> "UNKNOWN", required_freshness |-> "CURRENT",
   required_reachability |-> "REACHABLE", preferred_node |-> None, preferred_runtime |-> None,
   prefer_recent |-> TRUE, current_only |-> TRUE, max_results |-> 32]

MCQueries ==
  {Default,
   [Default EXCEPT !.max_results = 1, !.preferred_node = 2],
   [Default EXCEPT !.required_freshness = "UNKNOWN", !.required_reachability = "UNKNOWN",
                   !.current_only = FALSE, !.max_results = 2],
   [Default EXCEPT !.service_kind = "MODEL_SERVER", !.required_capabilities = <<"CUDA_AVAILABLE">>,
                   !.required_readiness = "READY", !.required_health = "HEALTHY"],
   [Default EXCEPT !.has_minimum_api = TRUE, !.minimum_api = <<1, 10, 0>>,
                   !.has_abi_requirement = TRUE, !.abi_requirement = <<1, 1, 0>>,
                   !.runtime_kind = "NATIVE_CPP", !.architecture = "x64", !.prefer_recent = FALSE],
   [Default EXCEPT !.exact_service_id = 2, !.service_kind = "MODEL_SERVER"],
   [Default EXCEPT !.exact_service_id = 2, !.required_health = "DEGRADED", !.preferred_runtime = 2],
   [Default EXCEPT !.protocol_requirement = 1, !.has_protocol_version = TRUE,
                   !.protocol_version = <<2, 0, 0>>]}
=============================================================================
