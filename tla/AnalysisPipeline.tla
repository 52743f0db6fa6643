---------------------------- MODULE AnalysisPipeline ----------------------------
(***************************************************************************)
(* One analysis (analysis/): the checks of its submission, the materials   *)
(* it gathers, the prompt they fit in, the model's replies and what is     *)
(* made of a bad one, the check of its evidence, and the report that is    *)
(* stored.  A question is answered by the search engine, in an analysis or *)
(* at once (type "query").  The submitter's permissions may change at any  *)
(* time; the job around this is JobLifecycle's.                            *)
(*                                                                         *)
(* A text is a sequence of words and a quote is one word.  An object of a  *)
(* reply stands for a report of one piece (a summary, a custom report) or  *)
(* for an item of a list; its fields are "required", all of those that     *)
(* must be there and the rules among them, "optional", conf and evidence.  *)
(* The fields of a custom report are open, and nested is what has the form *)
(* of evidence somewhere in them.                                          *)
(***************************************************************************)
EXTENDS AnswerPipeline

CONSTANTS
    Graph,      \* the entities and relations that are stored, with their source chunks
    Replies,    \* what a model may reply, for each type of analysis
    Schemas     \* the schemas a custom analysis may ask for, by name

StoredChunk == [id: Nat \X Nat, level: 0 .. 3, scope: {"personal", "team"}, owner: STRING, text: Seq(STRING)]
Quotation == [chunk: Nat \X Nat, quote: STRING, conf: 0 .. 4]
ReplyObject == [required: {"good", "bad", "absent"}, optional: {"good", "bad", "absent"}, conf: 0 .. 4,
                evidence: Seq(Quotation), nested: Seq(Quotation), unknown: BOOLEAN]
ReplyData == [unknown: BOOLEAN, list: BOOLEAN, objects: Seq(ReplyObject)]

Report == [status: {"ok", "partial"}, objects: Seq(ReplyObject), shown: Seq(Nat \X Nat), level: 1 .. 3,
           scope: {"personal"}, owner: STRING]

(* A schema is a tree: the kind of the value at each path of keys.                *)
Prefix(p, n) == SubSeq(p, 1, n)
Schema(tree) ==
    /\ IsFiniteSet(DOMAIN tree) /\ DOMAIN tree \subseteq Seq(STRING) /\ << >> \in DOMAIN tree
    /\ \A p \in DOMAIN tree : tree[p] \in {"dict", "list", "scalar"}
    /\ \A p \in DOMAIN tree \ {<< >>} :
          /\ Prefix(p, Len(p) - 1) \in DOMAIN tree
          /\ tree[Prefix(p, Len(p) - 1)] # "scalar"

ASSUME AnalysisAssumption ==
    /\ None \notin Report
    /\ IsFiniteSet(Library) /\ Library \subseteq StoredChunk
    /\ \A r, other \in Library : r.id = other.id => r = other
    /\ \A r \in Library : r.id # <<0, 0>>   \* the id of the block of the graph
    /\ \A c \in Contexts : c.clearance \in 0 .. 3 /\ c.user \in STRING
    /\ \A s \in Settings :
          /\ s.docs \in Seq(Nat) /\ s.chunks \in Nat /\ s.words \in Nat /\ s.retries \in Int
          /\ s.depth \in Nat /\ s.fields \in Nat /\ s.size \in Nat
          /\ s.type = "custom" /\ s.schema # None => Schema(Schemas[s.schema])
          /\ \A reply \in Replies[s.type] : reply.data \in ReplyData

VARIABLES
    pc,
    sent,       \* the schema of a custom analysis that goes into the prompt
    access,     \* the context the job has read
    materials,  \* what was gathered; truncated: whether some of it was left out
    truncated,
    given,      \* the materials and what the graph says of them: what the engine gets
    attempts,   \* the replies the model has given
    last,       \* what the last of them said, None if it could not be parsed
    feedback,   \* what the model is told about it
    report

job == <<pc, sent, access, materials, truncated, given, attempts, last, feedback, report>>
vars == <<setting, ctx, search, job>>

Init ==
    /\ setting \in Settings /\ ctx \in Contexts \cup {None}
    /\ search = NoSearch
    /\ pc = "submit" /\ sent = None /\ access = None
    /\ materials = << >> /\ truncated = FALSE /\ given = << >>
    /\ attempts = 0 /\ last = None /\ feedback = "none"
    /\ report = None

(* An administrator changes what the user may see, or deactivates the account. *)
Change ==
    /\ ctx' \in (Contexts \cup {None}) \ {ctx}
    /\ UNCHANGED <<setting, search, job>>
-----------------------------------------------------------------------------
(* Depth, number of keys and bytes have limits.  Of the bytes those of the values   *)
(* count here, and a scalar may be as short as one, where an empty object has two. *)
Bytes(tree) == Cardinality(UNION {{p} \X (1 .. IF tree[p] = "scalar" THEN 1 ELSE 2) : p \in DOMAIN tree})
Keys(tree) == {p \in DOMAIN tree \ {<< >>} : tree[Prefix(p, Len(p) - 1)] = "dict"}
Acceptable(tree) ==
    /\ tree[<< >>] = "dict"
    /\ \A p \in DOMAIN tree : tree[p] # "scalar" => Len(p) < setting.depth
    /\ \A p \in Keys(tree) : Last(p) # "$ref"
    /\ Cardinality(Keys(tree)) <= setting.fields
    /\ Bytes(tree) <= setting.size

Safe == {"type", "properties", "items", "required", "enum", "title", "description"}

(* Mutant: what "items" holds is taken as it is. *)
PartItemsWhole(up, key, kind) ==
    CASE up = "schema" -> IF key \notin Safe THEN "cut"
                          ELSE IF kind = "dict" /\ key = "properties" THEN "names" ELSE "whole"
      [] up = "names" -> IF kind = "dict" THEN "schema" ELSE "emptied"
      [] up \in {"emptied", "cut"} -> "cut"
      [] OTHER -> "whole"

(* What becomes of a value below one that is a schema, a map from names to schemas, *)
(* kept whole, replaced by an empty schema, or cut.                                 *)
Inner == [properties |-> "names", items |-> "schema"]
Part(up, key, kind) ==
    CASE up = "schema" -> IF key \notin Safe THEN "cut"
                          ELSE IF kind = "dict" /\ key \in DOMAIN Inner THEN Inner[key] ELSE "whole"
      [] up = "names" -> IF kind = "dict" THEN "schema" ELSE "emptied"
      [] up \in {"emptied", "cut"} -> "cut"
      [] OTHER -> "whole"
PartOf(tree, p) ==
    LET part[n \in 0 .. Len(p)] ==
            IF n = 0 THEN "schema" ELSE Part(part[n - 1], p[n], tree[Prefix(p, n)])
    IN part[Len(p)]

(* The limit of the depth never cuts a schema that was acceptable. *)
Trimmed(tree) ==
    [p \in {q \in DOMAIN tree : PartOf(tree, q) # "cut"} |->
        IF PartOf(tree, p) = "emptied" THEN "dict" ELSE tree[p]]

VisibleDocs(c) == {id[1] : id \in Readable(c)}

Keep(fields) == UNCHANGED <<setting, ctx>> /\ UNCHANGED fields

(* submit_analysis_task; a request that is refused leaves nothing. *)
Submit ==
    /\ pc = "submit" /\ setting.type # "query"
    /\ LET custom == setting.type = "custom" /\ setting.schema # None IN
       IF /\ ctx # None /\ Range(setting.docs) \subseteq VisibleDocs(ctx)
          /\ custom => Acceptable(Schemas[setting.schema])
       THEN /\ pc' = "queued"
            /\ sent' = IF custom THEN Trimmed(Schemas[setting.schema]) ELSE None
       ELSE pc' = "refused" /\ sent' = None
    /\ Keep(<<search, access, materials, truncated, given, attempts, last, feedback, report>>)

(* POST /query, and the same with an image that a model describes first. *)
Ask ==
    /\ pc = "submit" /\ setting.type = "query"
    /\ IF ctx = None THEN pc' = "refused" /\ search' = search
       ELSE pc' = "search" /\ search' = Searching(ctx)
    /\ Keep(<<sent, access, materials, truncated, given, attempts, last, feedback, report>>)

(* The image is too large or is none; or the model raises. *)
ImageFails ==
    /\ pc = "submit" /\ setting.type = "query" /\ setting.image /\ ctx # None
    /\ pc' \in {"refused", "failed"}
    /\ Keep(<<search, sent, access, materials, truncated, given, attempts, last, feedback, report>>)
-----------------------------------------------------------------------------
(* The places of the members of some sequences. *)
Places(lists) == UNION {{i} \X DOMAIN lists[i] : i \in DOMAIN lists}
Words(ms) == Cardinality(Places([i \in DOMAIN ms |-> ms[i].text]))

(* Mutant: a first material that is too long is left out like any other. *)
SelectWhole(ms, chunks, words) ==
    LET fits == {n \in 0 .. Min({chunks, Len(ms)}) : Words(First(ms, n)) <= words}
    IN First(ms, Max(fits))

(* _select_materials: the first ones, as many as both limits allow, and of a first *)
(* one that is too long as much as fits.                                           *)
Select(ms, chunks, words) ==
    LET fits == {n \in 0 .. Min({chunks, Len(ms)}) : Words(First(ms, n)) <= words}
    IN IF Max(fits) = 0 /\ ms # << >> /\ chunks > 0
       THEN <<[ms[1] EXCEPT !.text = First(@, words)]>>
       ELSE First(ms, Max(fits))
Selected(ms) == Select(ms, setting.chunks, setting.words)

(* The visible chunks of the documents asked for, or of all. *)
Wanted(c) ==
    {r \in Library : Visible(r, c) /\ (setting.docs = << >> \/ r.id[1] \in Range(setting.docs))}
PlaceOf(doc) == IF setting.docs = << >> THEN doc
                ELSE CHOOSE i \in DOMAIN setting.docs :
                       setting.docs[i] = doc /\ \A j \in 1 .. i - 1 : setting.docs[j] # doc
InOrder(S) == Ordered(S, LAMBDA a, b :
    PlaceOf(a.id[1]) < PlaceOf(b.id[1]) \/ (a.id[1] = b.id[1] /\ a.id[2] < b.id[2]))

Block == <<0, 0>>   \* the id of the block of entities and relations

(* What the graph says of the materials, as a block of text. *)
GraphContext(ms, c) ==
    LET about == {e \in Graph :
          Visible(e, c) /\ e.sources \cap {m.id : m \in Range(ms)} # {}}
        listed == Ordered(about, LAMBDA a, b : a.name < b.name)
    IN IF setting.type # "relation_mapping" \/ about = {} THEN << >>
       ELSE <<[id |-> Block, level |-> Max({e.level : e \in about}), scope |-> "personal",
               owner |-> None, text |-> [i \in DOMAIN listed |-> listed[i].word]]>>

(* fold_graph_context: the block goes to the end. *)
Fold(ms, c) == ms \o GraphContext(ms, c)

(* What of it is in the prompt. *)
Shown == Selected(given)

(* The worker reads the permissions again and gathers. *)
Gather ==
    /\ pc = "queued" /\ ctx # None
    /\ LET all == InOrder(Wanted(ctx)) IN
         /\ materials' = Selected(all)
         /\ truncated' = (materials' # all)
         /\ given' = Fold(materials', ctx)
         /\ pc' = IF materials' = << >> THEN "failed"
                  ELSE IF setting.type = "qa" THEN "search" ELSE "asking"
    /\ access' = ctx
    /\ search' = IF pc' = "search" THEN Searching(ctx) ELSE search
    /\ Keep(<<sent, attempts, last, feedback, report>>)

(* The account is not active any more. *)
Disown ==
    /\ pc = "queued" /\ ctx = None /\ pc' = "failed"
    /\ Keep(<<search, sent, access, materials, truncated, given, attempts, last, feedback, report>>)
-----------------------------------------------------------------------------
Aggregate == setting.type \in {"summary", "custom"}
Low == 0
Cap == 1    \* CONFIDENCE_CAP
High == 2   \* above it, and the default
Wrong == 3  \* not a number between 0 and 1
Unsaid == 4
Stated(conf) == IF conf = Unsaid THEN High ELSE conf

GoodEvidence(e) == e.quote # "" /\ e.conf # Wrong
ValidObject(o) ==
    /\ ~o.unknown
    /\ o.required = "good" \/ setting.type = "custom"   \* which has no such field
    /\ o.optional # "bad" /\ o.conf # Wrong
    /\ \A i \in DOMAIN o.evidence : GoodEvidence(o.evidence[i])

(* output_cls.model_validate; extra keys are forbidden. *)
Valid(data) ==
    /\ ~data.unknown
    /\ data.list \/ Aggregate
    /\ \A i \in DOMAIN data.objects : ValidObject(data.objects[i])

(* The model's defaults, and no confidence above the cap without evidence. *)
Defaulted(e) == [e EXCEPT !.conf = Stated(@)]
Completed(o) ==
    [o EXCEPT !.conf = IF o.evidence = << >> THEN Min({Stated(@), Cap}) ELSE Stated(@),
              !.evidence = [i \in DOMAIN @ |-> Defaulted(@[i])]]

(* extract_json_payload: as it is or within a fence, mended if json-repair is *)
(* installed, or between braces somewhere in the text.                        *)
Extracted(reply) ==
    IF \/ reply.form \in {"object", "fenced", "within prose"}
       \/ reply.form = "broken" /\ setting.repair
    THEN reply.data ELSE None

(* Mutant: the budget is one reply more. *)
BudgetAndOne == Max({0, setting.retries}) + 2

(* The first reply and the retries. *)
Budget == Max({0, setting.retries}) + 1

(* Mutant: the replies are not counted. *)
AttemptUncounted(reply) ==
    /\ pc = "asking"
    /\ last' = Extracted(reply)
    /\ pc' = IF last' # None /\ Valid(last') THEN "parsed" ELSE "asking"
    /\ Keep(<<search, sent, access, materials, truncated, given, attempts, feedback, report>>)

(* What was wrong with the reply is told with the next request. *)
FeedbackMessage(data) == IF data = None THEN "syntax" ELSE "structure"
Attempt(reply) ==
    /\ pc = "asking"
    /\ attempts' = attempts + 1
    /\ last' = Extracted(reply)
    /\ LET valid == last' # None /\ Valid(last') IN
         /\ pc' = IF valid \/ attempts' = Budget THEN "parsed" ELSE "asking"
         /\ feedback' = IF valid \/ attempts' = Budget THEN feedback
                        ELSE FeedbackMessage(last')
    /\ Keep(<<search, sent, access, materials, truncated, given, report>>)

(* An object without the optional fields that are wrong. *)
Repaired(o) ==
    [o EXCEPT !.optional = IF @ = "bad" THEN "absent" ELSE @,
              !.conf = IF @ = Wrong THEN Unsaid ELSE @,
              !.nested = IF o.optional = "bad" THEN << >> ELSE @,
              !.evidence = IF \A i \in DOMAIN @ : GoodEvidence(@[i]) THEN @ ELSE << >>]

(* Mutant: the items of a list are repaired like a report of one piece. *)
SalvagedAlike(data) ==
    LET objects == [i \in DOMAIN data.objects |-> Repaired(data.objects[i])]
    IN IF objects = << >> THEN None ELSE [data EXCEPT !.unknown = FALSE, !.objects = objects]

(* salvage_partial_report: without unknown keys; of a list the items that are valid, *)
(* of a report of one piece what is left without the optional fields that are wrong. *)
Salvaged(data) ==
    LET work == [data EXCEPT !.unknown = FALSE]
        parts == IF Aggregate THEN [i \in DOMAIN work.objects |-> Repaired(work.objects[i])]
                 ELSE work.objects
        kept == {i \in DOMAIN parts : ValidObject(parts[i])}
    IN IF Valid(work) THEN work
       ELSE IF kept = {} \/ ~(work.list \/ Aggregate) THEN None
       ELSE [work EXCEPT !.objects = At(parts, kept)]

(* verify_evidence: the quote must be in the text its evidence names.  What only has *)
(* the form of evidence is looked at alike; it may have no quote or no confidence.   *)
Genuine(e) == e.quote # "" /\ \E m \in Range(given) : m.id = e.chunk /\ e.quote \in Range(m.text)
Graded(e) == IF Genuine(e) THEN e ELSE [e EXCEPT !.conf = Min({@, Cap})]
GradedAll(es) == [i \in DOMAIN es |-> Graded(es[i])]
Checked(o) == [o EXCEPT !.evidence = GradedAll(@), !.nested = GradedAll(@)]

Quotations(o) == o.evidence \o o.nested
EvidenceOf(objects) == Places([i \in DOMAIN objects |-> Quotations(objects[i])])
Missed(objects) == {p \in EvidenceOf(objects) : ~Genuine(Quotations(objects[p[1]])[p[2]])}

(* Mutant: only evidence that is missed altogether counts. *)
TooManyAll(missed, total) == total > 0 /\ missed = total

(* More than 30 % of it. *)
TooMany(missed, total) == 10 * missed > 3 * total

(* Mutant: the level of a report is the highest of its materials'. *)
LevelOfFirst(ms) == Max({1, ms[1].level})

(* compute_report_access_level: at least INTERNAL. *)
LevelOf(ms) == Max({1} \cup {m.level : m \in Range(ms)})

(* AnalysisReportStore.create: personal, of the submitter. *)
Stored(status, objects, shown) ==
    report' = [status |-> status, objects |-> objects, shown |-> shown, level |-> LevelOf(materials),
               scope |-> "personal", owner |-> access.user]

(* The end of parse_with_retry and of _run_template, and the report's row. *)
Conclude ==
    /\ pc = "parsed"
    /\ LET whole == last # None /\ Valid(last)
           data == IF whole THEN last ELSE IF last = None THEN None ELSE Salvaged(last)
       IN IF data = None THEN pc' = "failed" /\ report' = None
          ELSE LET objects == [i \in DOMAIN data.objects |-> Completed(data.objects[i])]
                   doubted == TooMany(Cardinality(Missed(objects)), Cardinality(EvidenceOf(objects)))
               IN /\ pc' = "stored"
                  /\ Stored(IF whole /\ ~doubted THEN "ok" ELSE "partial",
                            [i \in DOMAIN objects |-> Checked(objects[i])],
                            [i \in DOMAIN Shown |-> Shown[i].id])
    /\ Keep(<<search, sent, access, materials, truncated, given, attempts, last, feedback>>)

(* _run_qa: the engine searches all the submitter may see, whatever was asked for. *)
Answered ==
    /\ pc = "search" /\ search.pc \in {"answered", "error"}
    /\ IF search.pc = "error" THEN pc' = "failed" /\ report' = None
       ELSE IF setting.type = "query" THEN pc' = "told" /\ report' = None
       ELSE pc' = "stored" /\ Stored("ok", << >>, search.sources)
    /\ Keep(<<search, sent, access, materials, truncated, given, attempts, last, feedback>>)

(* The provider fails. *)
Raise ==
    /\ pc = "asking" /\ pc' = "failed"
    /\ Keep(<<search, sent, access, materials, truncated, given, attempts, last, feedback, report>>)

SearchForJob == pc = "search" /\ SearchStep /\ UNCHANGED job
Proceed ==
    \/ Submit \/ Ask \/ ImageFails \/ Gather \/ Disown
    \/ Raise \/ Conclude \/ Answered \/ SearchForJob
    \/ \E reply \in Replies[setting.type] : Attempt(reply)
Next == Proceed \/ Change

(* The event loop runs the job; models and stores answer or raise. *)
FairSpec == Init /\ [][Next]_vars /\ WF_vars(Proceed)
-----------------------------------------------------------------------------
AnalysisTypeOK ==
    /\ SearchTypeOK
    /\ pc \in {"submit", "refused", "queued", "asking", "parsed", "search", "told", "stored", "failed"}
    /\ feedback \in {"none", "syntax", "structure"}
    /\ attempts \in 0 .. Max({0, setting.retries}) + 1
    /\ (report # None) = (pc = "stored")
    /\ report # None => report.status \in {"ok", "partial"} /\ report.level \in 1 .. 3

(* The schema that goes into a prompt is an object without references, within the *)
(* limits of depth and keys, and trimming it again changes nothing; nothing in it  *)
(* is new but the empty objects that replace what is none.  Where it is read as a  *)
(* schema it has no key the code does not know: such a key is the name of a        *)
(* property, or within a value or a list that is kept as it is.  The limit of      *)
(* bytes is not among these: an empty object may be longer than what it replaces.  *)
NameAt(p, i) == i > 1 /\ p[i - 1] = "properties" /\ sent[Prefix(p, i - 1)] = "dict"
SchemaTrimmed == sent # None =>
    /\ sent[<< >>] = "dict" /\ Trimmed(sent) = sent
    /\ \A p \in DOMAIN sent : Len(p) <= setting.depth
    /\ Cardinality(Keys(sent)) <= setting.fields /\ \A p \in Keys(sent) : Last(p) # "$ref"
    /\ \A p \in DOMAIN sent :
          /\ p \in DOMAIN Schemas[setting.schema]
          /\ sent[p] = Schemas[setting.schema][p] \/ (sent[p] = "dict" /\ NameAt(p, Len(p)))
    /\ \A p \in DOMAIN sent \ {<< >>} :
          \/ Last(p) \in Safe \/ NameAt(p, Len(p))
          \/ \E i \in 1 .. Len(p) - 1 :
                /\ p[i] \in Safe /\ (NameAt(p, i) => NameAt(p, i - 1))
                /\ p[i] \notin DOMAIN Inner \/ sent[Prefix(p, i)] = "list"

(* The materials are the submitter's to read when the job begins and are from    *)
(* the documents asked for; what is left out comes after what is not and is      *)
(* told; an analysis has none only if the submitter may read none of them, or    *)
(* if the limit is none.  They are shown to the model whole: the limits are      *)
(* applied twice, to them and then to them with the graph's block, and the       *)
(* second time cuts none of them.                                                *)
MaterialsWithinAsked == access # None =>
    LET of == {m.id : m \in Range(materials)}
        all == {id \in Readable(access) : setting.docs = << >> \/ id[1] \in Range(setting.docs)}
    IN /\ of \subseteq all
       /\ of = {} <=> all = {} \/ setting.chunks = 0
       /\ of # all => truncated
       /\ \A id \in of, other \in all \ of :
             id[1] = other[1] => id[2] < other[2]
       /\ Words(materials) <= setting.words
       /\ pc \in {"asking", "parsed"} => First(Shown, Len(materials)) = materials

(* Reports are graded honestly: ok, if the last reply is valid as it is and at   *)
(* most 30 % of its evidence is not found; a partial one keeps something of the  *)
(* reply, if there was something; one that cannot be used is not stored.         *)
StatusEarned == report # None /\ setting.type # "qa" =>
    /\ last # None
    /\ report.status = "ok" <=>
          /\ Valid(last)
          /\ 10 * Cardinality(Missed(report.objects)) <= 3 * Cardinality(EvidenceOf(report.objects))
    /\ last.objects # << >> => report.objects # << >>

(* Nothing is invented: what a report says was said, in its order, in the last   *)
(* reply, and nothing in it is wrong.                                            *)
SameQuotes(es, of) == es # << >> =>
    /\ Len(es) = Len(of)
    /\ \A i \in DOMAIN es : es[i].chunk = of[i].chunk /\ es[i].quote = of[i].quote
From(o, source) ==
    /\ o.required = source.required /\ o.optional \in {source.optional, "absent"}
    /\ SameQuotes(o.evidence, source.evidence) /\ SameQuotes(o.nested, source.nested)
NothingInvented == report # None /\ setting.type # "qa" =>
    /\ \A i \in DOMAIN report.objects : ValidObject(report.objects[i])
    /\ \E f \in [DOMAIN report.objects -> DOMAIN last.objects] :
          /\ \A i, j \in DOMAIN report.objects : i < j => f[i] < f[j]
          /\ \A i \in DOMAIN report.objects : From(report.objects[i], last.objects[f[i]])

(* Nothing that is not supported is above the cap: neither evidence whose quote  *)
(* is not in the material it names nor what has no evidence, repaired or not.    *)
UnsupportedCapped == report # None =>
    \A i \in DOMAIN report.objects :
       LET o == report.objects[i] IN
       /\ o.evidence = << >> => o.conf <= Cap
       /\ \A e \in Range(Quotations(o)) : e.conf > Cap =>
             \E m \in Range(given) : m.id = e.chunk /\ e.quote \in Range(m.text)

(* A reader can trust how sure a report says it is, in its status and item by    *)
(* item.                                                                         *)
GradedHonestly == StatusEarned /\ UnsupportedCapped

(* A report that is made from a template is for the submitter alone, and no more  *)
(* once the clearance is below the level of a chunk in the prompt.  (The block of   *)
(* the graph does not count, and of a question as an analysis this is not said: it  *)
(* is answered from all the submitter may see.)                                     *)
Covers == \A c \in Contexts : Visible(report, c) =>
    c.user = access.user /\ \A r \in Library : r.id \in Range(report.shown) => r.level <= c.clearance
ReportCoversMaterials == report # None /\ setting.type # "qa" => Covers

(* The model is asked again a bounded number of times, and every analysis ends.   *)
(* So does every search: second and third thoughts come to an end.                *)
AnalysesEnd == pc \in {"queued", "asking", "search"} ~> pc \in {"told", "stored", "failed"}
=============================================================================
