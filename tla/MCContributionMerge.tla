-------------------------- MODULE MCContributionMerge --------------------------
(***************************************************************************)
(* Values for TLC: two authors offer a document each to one project; the   *)
(* documents share an entity, one has a relation too, and the project      *)
(* holds an entity that an alignment pair may join with theirs.  One       *)
(* author is no member of the project.  One diff was first viewed by its   *)
(* author, who finds the pair, the other by the reviewer, who does not see *)
(* the author's document.  The CLI's system user merges too, in a process  *)
(* of its own.                                                             *)
(***************************************************************************)
EXTENDS ContributionMerge, TLC

CONSTANTS ann, bob, rae, sys, project, c1, c2, d1, d2, shared, held, link, p1

MCUsers == {ann, bob, rae, sys}
MCLibraries == {project}
MCRank == [l \in {project} |-> 1]
MCMembers == [l \in {project} |-> {ann, rae, sys}]
MCAssignable == [l \in {project} |-> {rae}]
MCPushUsers == {ann, bob}
ReviewerAndCli == {rae, sys}

Both == {c1, c2}
BothDocs == {d1, d2}
MCNames == {shared, held, link}
MCTriples == {link}
MCMentions == [d \in Docs |-> IF d = d1 THEN {shared, link} ELSE {shared}]
MCDocOf == [c \in Contributions |-> IF c = c1 THEN {d1} ELSE {d2}]
MCAuthor == [c \in Contributions |-> IF c = c1 THEN ann ELSE bob]
MCTarget == [c \in Contributions |-> project]
MCStored == held :> [home |-> project, level |-> 1, sources |-> {"library"}, prov |-> None]
MCLevel == [d \in Docs |-> IF d = d1 THEN 2 ELSE 1]
MCClearance == [u \in MCUsers |-> IF u = bob THEN 1 ELSE 2]
OnePair == {p1}
MCPairSource == [p \in Pairs |-> shared]
MCPairTarget == [p \in Pairs |-> held]
MCKind == [n \in MCNames |-> "person"]
MCLikeness == [p \in Pairs |-> 90]
AuthorThenReviewer == [c \in Contributions |-> IF c = c1 THEN ann ELSE rae]
InMemory == [suspends |-> FALSE, offered |-> {c1, c2}, viewer |-> AuthorThenReviewer,
             reingested |-> {d2}, users |-> {rae, sys}, cli |-> {sys}]
OnDatabase == [suspends |-> TRUE, offered |-> {c1}, viewer |-> AuthorThenReviewer,
               reingested |-> {}, users |-> {rae}, cli |-> {}]
BothSettings == {InMemory, OnDatabase}
DatabaseOnly == {OnDatabase}
Reviews == {"approve", "reject", "merge"}
ReviewsAndPairs == Reviews \cup Settlements

RequestSymmetry == Permutations(Requests)
=============================================================================
