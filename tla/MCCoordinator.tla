---------------------------- MODULE MCCoordinator ----------------------------
(***************************************************************************)
(* Small instances of the coordinator, in two scenarios.  "pairs": two     *)
(* processes, of worker 1 or of both, that crash and lose frames.  "trio": *)
(* three processes of worker 1 that stay, the last two with one generation *)
(* and the third started once the first one holds.                         *)
(*                                                                         *)
(* The inputs of Registry are the descriptors the coordinator builds.      *)
(***************************************************************************)
EXTENDS Coordinator

NoInputs == {}
AnyGeneration == {0}
TwoWorkers == {1, 2}
TwoGenerations == {1, 2}
MCRuntimes == {RuntimeRequest(w) : w \in Workers}
MCServices == {ServiceRequest(w) : w \in Workers}
MCEndpoints == {EndpointRequest(w, g) : w \in Workers, g \in Generations}
MCCapabilities == {CapabilityRequest(w) : w \in Workers}
MCInstances == {InstanceRequest(w, g) : w \in Workers, g \in Generations}

VARIABLE scenario

\* The processes that are started, and what may happen to them.
InScope ==
  /\ conn[1].worker \in {None, 1}
  /\ \/ scenario = "pairs" /\ conn[3].process = "unborn"
     \/ /\ scenario = "trio"
        /\ conn[3].process = "unborn" \/ Holding(1)
        /\ \A c \in Connections :
             /\ conn[c].worker \in {None, 1} /\ conn[c].gen \in {None, <<1, 2, 2>>[c]}
             /\ conn[c].process # "gone" /\ conn[c].thread # "done"

MCInit == CoordinatorInit /\ scenario \in {"pairs", "trio"}
MCNext == CoordinatorNext /\ UNCHANGED scenario /\ InScope'
MCSpec == MCInit /\ [][MCNext]_<<cvars, scenario>> /\ Fairness
=============================================================================
