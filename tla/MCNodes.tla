------------------------------ MODULE MCNodes ------------------------------
(***************************************************************************)
(* Instances of Nodes for TLC.                                             *)
(***************************************************************************)
EXTENDS Nodes, TLC

(* Edge nodes are alike, and so are requests, tasks and given names.       *)
Symmetry ==
  Permutations(NodeIds \ {MasterNode}) \cup Permutations(Handlers)
    \cup Permutations(Names) \cup Permutations(Tasks)

=============================================================================
