------------------------- MODULE MCCommunityCuration -------------------------
(* Two documents, whose communities and their first parts can be merged in any *)
(* order, and two curators at a time.                                         *)
EXTENDS CommunityCuration, TLC

MCDocs == {"a", "b"}
MCSplitOf == "a" :> "a-split-0" @@ "b" :> "b-split-0"
MCBackends == {"memory", "pg"}
CONSTANTS c1, c2
CuratorSymmetry == Permutations({c1, c2})
=============================================================================
