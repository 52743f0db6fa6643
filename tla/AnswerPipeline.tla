----------------------------- MODULE AnswerPipeline -----------------------------
(***************************************************************************)
(* One question put to the search engine (retrieval/): hybrid retrieval    *)
(* with its decorators, reciprocal rank fusion, reranking, the answer and  *)
(* its sources, the corrective second query and the self-check.            *)
(*                                                                         *)
(* A query is a ranking of the library by each index; a chunk's id is the  *)
(* pair of its document and its ordinal.  The graph and community searches *)
(* are in DocumentLibrary; here they end with some ids of chunks, which    *)
(* are not looked at again.  Candidates are known by their ids; what they  *)
(* say is what the library says.                                           *)
(***************************************************************************)
EXTENDS Integers, SequencesExt

CONSTANTS
    None,
    Library,    \* the chunks that are stored
    Dense,      \* the orders in which the vector index may have all of them for a query
    Rankings,   \* the chunks that another index may find for one, in order
    MaxQueries, \* how many queries a rewriting may have; the model is asked for three
    Named,      \* the ids that a graph or a community search may end with: the sources of
                \* what the user may see, whether or not the user may see them too
    Answers,    \* what a model may answer: the ids a text cites
    Contexts,   \* the access contexts a user may have
    Settings    \* what a behaviour has: mode and top_k, the options of the engine (rewrite,
                \* context, corrective, selfcheck; enough: the sources a confident answer
                \* has), reranker and citable, the ids the pattern of a citation matches

Unrepeated(s) == \A i, j \in DOMAIN s : s[i] = s[j] => i = j

ASSUME SearchAssumption ==
    /\ \A s \in Dense \cup Rankings : s \in Seq(Nat \X Nat) /\ Unrepeated(s)
    /\ \A text \in Answers : text \in Seq(Nat \X Nat)
    /\ MaxQueries \in Nat
    /\ \A s \in Settings : s.top_k \in Nat

VARIABLES
    setting,
    ctx,        \* the user's access context now, None for an account that is not active
    search      \* the query of the engine under way

(* What the engine returns and how far it is; ctx is the caller's. *)
NoSearch == [pc |-> "idle", ctx |-> None, lanes |-> {}, found |-> << >>, shown |-> << >>,
             text |-> << >>, sources |-> << >>, again |-> FALSE, checked |-> FALSE]

Visible(r, c) ==
    /\ c.clearance >= r.level
    /\ \/ r.scope = "personal" /\ r.owner = c.user
       \/ r.scope = "team" /\ r.owner \in c.teams
Readable(c) == {r.id : r \in {x \in Library : Visible(x, c)}}

First(s, n) == SubSeq(s, 1, Min({n, Len(s)}))
Ordered(S, Before(_, _)) ==
    [i \in 1 .. Cardinality(S) |-> CHOOSE x \in S : Cardinality({y \in S : Before(y, x)}) = i - 1]
IdBefore(a, b) == a[1] < b[1] \/ (a[1] = b[1] /\ a[2] < b[2])

(* What a sequence has at some places, in its order. *)
At(s, places) ==
    LET order == Ordered(places, LAMBDA i, j : i < j) IN [k \in DOMAIN order |-> s[order[k]]]

(* Mutant: a chunk gets the same for every lane that finds it. *)
PointsOfAnyRank(lane, id) == IF id \in Range(lane) THEN 1000 * 1000 ELSE 0

(* 1 / (60 + rank), in parts of a whole. *)
Whole == 10000 * 10000
Points(lane, id) ==
    IF id \in Range(lane) THEN Whole \div (60 + CHOOSE i \in DOMAIN lane : lane[i] = id) ELSE 0

(* rrf: the sum over the lanes, rounded to six digits; ties by id. *)
Score(lanes, id) ==
    LET sum[n \in 0 .. Len(lanes)] == IF n = 0 THEN 0 ELSE sum[n - 1] + Points(lanes[n], id)
    IN (sum[Len(lanes)] + 50) \div 100
Merged(lanes) == UNION {Range(lanes[i]) : i \in DOMAIN lanes}
RRF(lanes, k) ==
    First(Ordered(Merged(lanes), LAMBDA a, b :
              \/ Score(lanes, a) > Score(lanes, b)
              \/ Score(lanes, a) = Score(lanes, b) /\ IdBefore(a, b)), k)

(* get_chunks_by_ids: those of the ids that are stored; nothing is said of who asks. *)
Kept(ids) == {r.id : r \in {x \in Library : x.id \in ids}}

(* The fetch limit of the lanes under a fusion. *)
Fetch(k) == Max({3 * k, 10})
Queries == [dense: Dense, sparse: Rankings]

(* What an index returns is visible to the caller. *)
Hits(ranking, k) ==
    First(At(ranking, {i \in DOMAIN ranking : ranking[i] \in Readable(search.ctx)}), k)

HybridLanes(q, k) == <<Hits(q.dense, Fetch(k)), Hits(q.sparse, Fetch(k))>>
InnerLanes(qs, k) ==
    IF setting.rewrite THEN [i \in DOMAIN qs |-> RRF(HybridLanes(qs[i], 2 * k), 2 * k)]
    ELSE HybridLanes(qs[1], k)

(* What the indexes return in the end, before any of it is fused. *)
InnermostLanes(own, qs, k) ==
    LET inner == IF setting.context THEN Fetch(k) ELSE k IN
    (IF setting.rewrite THEN UNION {Range(HybridLanes(qs[i], 2 * inner)) : i \in DOMAIN qs}
     ELSE Range(HybridLanes(qs[1], inner)))
    \cup (IF setting.context THEN {Hits(own.dense, Fetch(k))} ELSE {})

(* The vector of the question, scaled, ranks as the vector of the question does. *)
NativeLanes(own, qs, k) ==
    IF setting.context
    THEN <<RRF(InnerLanes(qs, Fetch(k)), Fetch(k)), Hits(own.dense, Fetch(k))>>
    ELSE InnerLanes(qs, k)

(* What the model makes of the question: other queries in its place, as many as it *)
(* likes, or the question itself if none can be parsed.                            *)
Rewritings(own) ==
    {<<own>>} \cup (IF setting.rewrite THEN BoundedSeq(Queries, MaxQueries) \ {<< >>} ELSE {})

Searched(s) == search' = s /\ UNCHANGED <<setting, ctx>>

Retrieve ==
    /\ search.pc = "retrieve"
    /\ IF setting.mode = "native_rag"
       THEN \E own \in Queries : \E qs \in Rewritings(own) :
              Searched([search EXCEPT !.pc = "rerank", !.lanes = InnermostLanes(own, qs, setting.top_k),
                                      !.found = RRF(NativeLanes(own, qs, setting.top_k), setting.top_k)])
       ELSE \E ids \in Named :
              Searched([search EXCEPT !.pc = "rerank", !.lanes = {},
                                      !.found = First(Ordered(Kept(ids), IdBefore), setting.top_k)])

(* A rerank service that answers gives indexes from best to worst, perhaps not all *)
(* and perhaps none of a candidate; index 0 stands for those.                      *)
Chosen(indexes, k) ==
    LET best == First(indexes, k)
        kept == At(best, {j \in DOMAIN best : best[j] \in DOMAIN search.found})
    IN [j \in DOMAIN kept |-> search.found[kept[j]]]
Responses == {r \in BoundedSeq(0 .. Len(search.found), Len(search.found)) : Unrepeated(r)}
Complete(r) == Range(r) = DOMAIN search.found
Reranked ==
    {First(search.found, setting.top_k)} \cup
    (IF setting.mode = "global" THEN {}
     ELSE {Chosen(r, setting.top_k) : r \in {x \in Responses :
             \/ setting.reranker = "remote"
             \/ setting.reranker = "local" /\ Complete(x)}})

Rerank ==
    /\ search.pc = "rerank"
    /\ \E shown \in Reranked : Searched([search EXCEPT !.pc = "synthesize", !.lanes = {}, !.shown = shown])

(* The pattern of a citation has no "#" and no ".".  The ids of the chunks that were *)
(* ingested have the first: none of them is citable.                                 *)
Matches(id) == id \in setting.citable

(* Mutant: all of the citations. *)
SourcesUnchecked(text, shown) ==
    IF text = << >> THEN shown ELSE text

(* The candidates the text cites, or all of them if it cites none. *)
Sources(text, shown) ==
    LET cited == {i \in DOMAIN text : Matches(text[i]) /\ text[i] \in Range(shown)}
    IN IF cited = {} THEN shown
       ELSE At(text, {i \in cited : \A j \in cited : text[j] = text[i] => i <= j})

Synthesize ==
    /\ search.pc = "synthesize"
    /\ IF search.shown = << >>
       THEN Searched([search EXCEPT !.pc = "assess", !.text = << >>, !.sources = << >>])
       ELSE \E text \in Answers :
              Searched([search EXCEPT !.pc = "assess", !.text = text,
                                      !.sources = Sources(text, search.shown)])

(* CorrectiveRagEngine: an answer of few sources is asked for once more. *)
Doubtful == setting.corrective /\ ~search.again /\ Len(search.sources) < setting.enough
Assess ==
    /\ search.pc = "assess"
    /\ IF Doubtful THEN Searched([search EXCEPT !.pc = "retrieve", !.again = TRUE])
       ELSE Searched([search EXCEPT !.pc = "judge"])

(* SelfCheckEngine, around it: the judge may want another answer, once. *)
Judge ==
    /\ search.pc = "judge"
    /\ \/ Searched([search EXCEPT !.pc = "answered"])
       \/ /\ setting.selfcheck /\ ~search.checked
          /\ Searched([search EXCEPT !.pc = "retrieve", !.again = FALSE, !.checked = TRUE])

(* The model or an index raises, or a reranker on a response of another form. *)
Break ==
    /\ \/ search.pc = "retrieve"
       \/ search.pc = "rerank" /\ search.found # << >>
          /\ setting.reranker # "none" /\ setting.mode # "global"
       \/ search.pc = "synthesize" /\ search.shown # << >>
       \/ search.pc = "judge" /\ setting.selfcheck
    /\ Searched([search EXCEPT !.pc = "error"])

Searching(c) == [NoSearch EXCEPT !.pc = "retrieve", !.ctx = c]
SearchStep == Break \/ Retrieve \/ Rerank \/ Synthesize \/ Assess \/ Judge
-----------------------------------------------------------------------------
SearchTypeOK ==
    /\ search.pc \in {"idle", "retrieve", "rerank", "synthesize", "assess", "judge", "answered", "error"}
    /\ \A s \in {search.found, search.shown, search.sources} : Range(s) \subseteq Int \X Int

(* Fusion keeps what the indexes agree on: a candidate that is before another in *)
(* every list that has the other comes before it in the end, however often what   *)
(* was fused is cut and fused again, and none is there twice.                     *)
Precedes(s, a, b) == \A j \in DOMAIN s : s[j] = b => \E i \in 1 .. j - 1 : s[i] = a
FusionKeepsOrder == search.lanes # {} =>
    /\ Unrepeated(search.found)
    /\ \A a, b \in UNION {Range(lane) : lane \in search.lanes} :
          (\A lane \in search.lanes : Precedes(lane, a, b)) => Precedes(search.found, a, b)

(* The sources of an answer are what it cites of what the model was shown, in the *)
(* order and once each, if any of that is citable, and else all it was shown.     *)
(* Where every candidate comes from an index, the user may read all of it; after  *)
(* a search of the graph or the communities this is not said.  An answer without  *)
(* sources was given nothing.                                                     *)
Cites(text) == Range(text) \cap setting.citable \cap Range(search.shown)
SourcesHonest == search.pc \in {"assess", "judge", "answered"} =>
    /\ Unrepeated(search.sources) /\ Len(search.shown) <= setting.top_k
    /\ search.sources = << >> <=> search.shown = << >>
    /\ IF Cites(search.text) = {} THEN search.sources = search.shown
       ELSE /\ Range(search.sources) = Cites(search.text)
            /\ \A i, j \in DOMAIN search.sources :
                  i < j => Precedes(search.text, search.sources[i], search.sources[j])
    /\ setting.mode = "native_rag" => Range(search.shown) \subseteq Readable(search.ctx)
=============================================================================
