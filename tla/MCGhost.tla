------------------------------- MODULE MCGhost -------------------------------
(***************************************************************************)
(* One tree: forks at the genesis block g and one and two blocks above it, *)
(* a branch that forks twice and one that does not.  The votes select the  *)
(* part of it that is accessible, so all smaller trees are tried as well.  *)
(* The ids are not in the order of the tree.                               *)
(***************************************************************************)
EXTENDS Estimators, WeightTests, MessageTests

MCPrevblock ==
    [b \in Block |-> CASE b = "g" -> NoBlock
                       [] b \in {"a", "b", "c"} -> "g"
                       [] b \in {"aa", "ab"} -> "a"
                       [] b \in {"aaa", "aab"} -> "aa"
                       [] OTHER -> "b"]

MCId ==
    [b \in Block |-> CASE b = "g" -> 5 [] b = "a" -> 3 [] b = "b" -> 9
                       [] b = "c" -> 4 [] b = "aa" -> 8 [] b = "ab" -> 2
                       [] b = "aaa" -> 7 [] b = "aab" -> 1 [] OTHER -> 6]

\* Equal weights, a majority, and a validator without weight.
KnownWeightings == [Validator -> 0 .. 2]

\* carol is not in the weights.
UnknownWeightings == {[v \in Validator |-> IF v = "carol" THEN Absent ELSE 1]}
=============================================================================
