--------------------------- MODULE MCAnalysisPipeline ---------------------------
(* The user ann, who may lose a level of clearance or leave the team, and a     *)
(* library with chunks of two levels, one of hers and one of somebody else.     *)
EXTENDS AnalysisPipeline

Ann(clearance, teams) == [user |-> "ann", clearance |-> clearance, teams |-> teams]
MCContexts == {Ann(2, {"team"}), Ann(1, {"team"}), Ann(2, {})}
Chunk(id, level, scope, owner, text) ==
    [id |-> id, level |-> level, scope |-> scope, owner |-> owner, text |-> text]
MCLibrary == {Chunk(<<1, 0>>, 1, "team", "team", <<"a", "b">>), Chunk(<<1, 1>>, 2, "team", "team", <<"c">>),
              Chunk(<<2, 0>>, 0, "personal", "ann", <<"a", "d", "e">>),
              Chunk(<<3, 0>>, 0, "personal", "bob", <<"f">>)}
MCGraph == {[name |-> n, word |-> IF n = 1 THEN "x" ELSE "y", level |-> n, scope |-> "team", owner |-> "team",
           sources |-> {<<1, n - 1>>}] : n \in {1, 2}}

Evidence(chunk, quote, conf) == [chunk |-> chunk, quote |-> quote, conf |-> conf]
Found == Evidence(<<1, 0>>, "a", Unsaid)
AlsoFound == Evidence(<<2, 0>>, "a", Low)
Misquoted == Evidence(<<1, 0>>, "c", High)
OfOther == Evidence(<<3, 0>>, "f", Low)
OfGraph == Evidence(Block, "x", High)
Blank == Evidence(<<1, 0>>, "", High)
Plain == [required |-> "good", optional |-> "good", conf |-> Unsaid, evidence |-> << >>, nested |-> << >>, unknown |-> FALSE]
With(evidence) == [Plain EXCEPT !.evidence = evidence]
Objects == {With(<<Found>>), [With(<<Misquoted, AlsoFound>>) EXCEPT !.optional = "absent"],
            [With(<<Found, AlsoFound, Found, Misquoted>>) EXCEPT !.conf = Low],
            [Plain EXCEPT !.conf = Wrong], [Plain EXCEPT !.optional = "bad"],
            [Plain EXCEPT !.required = "bad"], With(<<Blank>>)}
Items == {With(<<OfGraph, OfOther>>), [With(<<Found>>) EXCEPT !.unknown = TRUE],
          [Plain EXCEPT !.required = "absent"], With(<<Found>>)}

Reply(form, unknown, list, objects) ==
    [form |-> form, data |-> [unknown |-> unknown, list |-> list, objects |-> objects]]
Garbled == {Reply(form, FALSE, TRUE, <<Plain>>) : form \in {"broken", "no JSON"}}
Alone(objects) == {Reply("fenced", unknown, FALSE, <<o>>) : unknown \in BOOLEAN, o \in objects}
Pieces == Garbled \cup Alone(Objects)
(* What a custom report may have in its fields: a quotation of its own, one without *)
(* a quote, one of another text.                                                    *)
Open(o, evidence) == [o EXCEPT !.nested = evidence]
OpenPieces == Pieces \cup Alone({Open(With(<<AlsoFound>>), <<[OfOther EXCEPT !.conf = Wrong]>>),
                             Open(With(<<Blank>>), <<AlsoFound, Blank>>), Open(Plain, <<AlsoFound>>)})
Lists == Garbled \cup
    {Reply("object", FALSE, TRUE, <<o, q>>) : o \in Items \cup Objects, q \in Items}
    \cup {Reply("within prose", unknown, list, << >>) : unknown, list \in BOOLEAN}
(* Schemas: an object of a name and a list, with keys the code does not know; one   *)
(* that is too deep; a reference; too many keys; lists where objects are expected,  *)
(* one of them with a scalar property, no deeper than the limit and as large as it   *)
(* may be; a list and a title that hold objects.                                    *)
Tree(paths, kind(_)) == [p \in paths |-> kind(p)]
Leaves(p) == IF Last(<<"">> \o p) \in {"type", "default", "minLength", "$ref", "title"} THEN "scalar"
             ELSE IF Last(<<"">> \o p) \in {"enum", "required"} THEN "list" ELSE "dict"
Path(p) == {SubSeq(p, 1, n) : n \in 0 .. Len(p)}
Props == "properties"
Modest == Tree(Path(<<"type">>) \cup Path(<<Props, "name", "type">>) \cup Path(<<Props, "name", "minLength">>)
               \cup Path(<<"required", "0">>) \cup Path(<<"default">>), Leaves)
Listing == Tree(Path(<<"items", "type">>) \cup Path(<<"items", "default">>)
                \cup Path(<<"title">>) \cup Path(<<Props, "title">>), Leaves)
Deep == Tree(Path(<<Props, "a", Props, "b", "type">>), Leaves)
Referring == Tree(Path(<<Props, "a", "$ref">>), Leaves)
Many == Tree(UNION {Path(<<Props, a, "type">>) : a \in {"a", "b", "c", "d", "e"}}, Leaves)
Shallow == [p \in Path(<<"title">>) \cup Path(<<"items", "0">>) \cup Path(<<Props, "title">>) |->
               IF p = <<"items">> THEN "list" ELSE Leaves(p)]
Holding == [p \in Path(<<"enum", "0", "default">>) \cup Path(<<"title", "default">>) |->
               IF Len(p) = 1 /\ p[1] = "title" THEN "dict" ELSE Leaves(p)]
Odd == [p \in Path(<<Props, "", "default">>) |-> IF p = <<Props>> THEN "list" ELSE Leaves(p)]

MCSchemas == [modest |-> Modest, listing |-> Listing, deep |-> Deep, referring |-> Referring, many |-> Many,
              shallow |-> Shallow, holding |-> Holding, odd |-> Odd]
MCReplies == [summary |-> Pieces, timeline |-> Lists, relation_mapping |-> Lists, custom |-> OpenPieces, qa |-> {}, query |-> {}]
MCDense == {<<<<1, 0>>, <<2, 0>>, <<1, 1>>, <<3, 0>>>>, <<<<3, 0>>, <<1, 1>>, <<2, 0>>, <<1, 0>>>>}
MCRankings == {<<<<2, 0>>, <<1, 1>>>>, <<<<1, 1>>, <<1, 0>>, <<3, 0>>>>}
MCAnswers == {<< >>, <<<<1, 0>>>>, <<<<2, 0>>, <<3, 0>>>>, <<<<1, 1>>, <<1, 0>>, <<1, 1>>>>}
MCNamed == {{}, {<<1, 1>>, <<3, 0>>}, {<<1, 0>>, <<2, 0>>, <<3, 0>>, <<4, 0>>}}

Basic == [type |-> "summary", docs |-> << >>, schema |-> None, depth |-> 4, fields |-> 9, size |-> 20,
          image |-> FALSE, chunks |-> 3, words |-> 6, repair |-> TRUE, retries |-> 0,
          mode |-> "native_rag", top_k |-> 2, rewrite |-> FALSE, context |-> FALSE,
          corrective |-> FALSE, selfcheck |-> FALSE, enough |-> 2, reranker |-> "none", citable |-> {}]
Summary == [Basic EXCEPT !.retries = 1, !.repair = FALSE]
Cut == [Summary EXCEPT !.docs = <<2, 1>>, !.words = 2, !.retries = -1]
Few == [Summary EXCEPT !.chunks = 2, !.retries = 0]
Timeline == [Basic EXCEPT !.type = "timeline", !.docs = <<1>>, !.retries = 1]
Relations == [Timeline EXCEPT !.type = "relation_mapping", !.docs = << >>, !.words = 7, !.chunks = 4, !.retries = 0]
Custom == [Basic EXCEPT !.type = "custom", !.docs = <<2>>]
CustomOf == {[Custom EXCEPT !.schema = s, !.depth = IF s = "shallow" THEN 2 ELSE 4,
                              !.size = IF s = "shallow" THEN 9 ELSE 20] : s \in DOMAIN MCSchemas}
Question == [Basic EXCEPT !.type = "qa"]
Citable == [Question EXCEPT !.citable = {<<1, 0>>, <<1, 1>>, <<3, 0>>}]
Rewritten == [Question EXCEPT !.rewrite = TRUE, !.top_k = 1]
Enriched == [Rewritten EXCEPT !.type = "query", !.context = TRUE, !.top_k = 3]
Doubting == [Citable EXCEPT !.context = TRUE, !.corrective = TRUE, !.selfcheck = TRUE]
Remote == [Citable EXCEPT !.reranker = "remote", !.corrective = TRUE]
Local == [Citable EXCEPT !.type = "query", !.image = TRUE, !.reranker = "local", !.mode = "local",
                         !.selfcheck = TRUE]
Global == [Question EXCEPT !.type = "query", !.reranker = "remote", !.mode = "global"]

MCSettings == {Summary, Cut, Few, Timeline, Relations, Custom} \cup CustomOf
    \cup {Question, Citable, Rewritten, Enriched, Doubting, Remote, Local, Global}
=============================================================================
