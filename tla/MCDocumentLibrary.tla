------------------------- MODULE MCDocumentLibrary -------------------------
(* One demo file that an edit shortens and another, and an upload by each of *)
(* two users, of whom one is in the team and may approve pairs of what the   *)
(* other contributes; all of them speak of entity 1.                        *)
EXTENDS DocumentLibrary, TLC

C(text, names, links) == [text |-> text, names |-> names, links |-> links]
MCContents ==
    (1 :> (1 :> C(<<{1}, {2}>>, {1, 2}, {<<1, 2>>}) @@ 2 :> C(<<{1}>>, {1}, {})))
    @@ (2 :> (1 :> C(<<{3}>>, {3}, {})))
    @@ (3 :> (1 :> C(<<{1}>>, {1, 2}, {<<1, 2>>})))
    @@ (4 :> (1 :> C(<<{1, 3}>>, {1, 3}, {<<1, 3>>, <<3, 1>>})))
(* The same with every entity found in the text it comes from. *)
MCPlainContents == [MCContents EXCEPT ![3] = 1 :> C(<<{1}>>, {1}, {})]
MCSeeds == {1, 2}
MCUploads == {3, 4}
MCUploader == 3 :> "ann" @@ 4 :> "bob"
MCUsers == {"ann", "bob"}
MCMembers == {"ann"}
MCBackends == {"memory", "db"}
MCMemory == {"memory"}
=============================================================================
