------------------------------- MODULE Ingest -------------------------------
(***************************************************************************)
(* Document ingest (core/ingest.py), the reference-corpus seal             *)
(* (core/reference_corpus.py), the proposition vectors the extraction adds *)
(* (core/proposition.py) and the migration of both dense indexes to        *)
(* another embedding model (core/reembed.py), over one shared store.       *)
(*                                                                         *)
(* An ingest is one transaction: Start -> Upsert -> Commit.  It reads what *)
(* other sessions have committed when it reads it, its own writes show at  *)
(* the commit, and the upsert of document_content holds the document's row *)
(* until then.  A migration commits per document and per batch.            *)
(***************************************************************************)
EXTENDS Naturals, FiniteSets, Sequences

CONSTANTS
    Worker, Document, Model, Box,
    Input, Text,    \* document bytes, and the reading-order texts they parse to
    Parser, NullParser,
    Renderings,     \* the texts a parser may make of an input (OCR is not deterministic)
    Level, Cut,     \* the segmenter's levels, and the spans it cuts a text into
    Tokenless,      \* pairs of a model and a span that pools to no token under it
    BatchSize,
    MaxRuns, MaxMigrations, MaxPropositions,  \* bounds: ingests and extractions, migrations, propositions
    Null

ASSUME PipelineIsTyped ==
    /\ Renderings \in [Parser -> [Input -> SUBSET Text]]
    /\ \A i \in Input : Cardinality(Renderings[NullParser][i]) = 1
    /\ 0 \in Level /\ \A t \in Text : 0 \in DOMAIN Cut[t] /\ DOMAIN Cut[t] \subseteq Level
    /\ BatchSize \in Nat \ {0}

VARIABLES
    content,       \* document_content.raw_text
    parsed,        \* the content hash of the newest parse Action
    segmented,     \* the content hash of the newest segment Action, per level
    rows,          \* document_embeddings: the model and the text a span was pooled under
    propositions,  \* proposition_embeddings: its document and the model of its vector; Null once purged
    seals,         \* the MEMBER_OF edges of a document: its box and its digest
    run,           \* each worker's ingest or extraction
    migration,     \* the running reembed_to_model
    started, migrated

store == <<content, parsed, segmented, rows, propositions, seals>>
vars == <<store, run, migration, started, migrated>>

RowsOf(d) == {s \in DOMAIN rows : s.doc = d}
Live == {p \in DOMAIN propositions : propositions[p] # Null}
PropositionsOf(d) == {p \in Live : propositions[p].doc = d}

\* SELECT model ... LIMIT 1: some row's model, none on an empty index.
AnyModel(models) == IF models = {} THEN {Null} ELSE models
_existing_embedding_model(d) == AnyModel({rows[s].model : s \in RowsOf(d)})
_global_embedding_model == AnyModel({rows[s].model : s \in DOMAIN rows})
Compatible(existing, m) == existing \in {Null, m}

\* The hashes digest inputs: bytes and parser, then text, level, model and parse.
parse_content_hash(input, p) == <<input, p>>
HashWithoutText(text, level, m, parse_ch) == <<level, m, parse_ch>>
span_content_hash(text, level, m, parse_ch) == <<text, level, m, parse_ch>>

\* None is no text and no hash.
ASSUME NullIsNothing ==
    /\ Null \notin Text
    /\ \A t \in Text, l \in Level, m \in Model, i \in Input, p \in Parser :
         span_content_hash(t, l, m, parse_content_hash(i, p)) # Null

Idle == [pc |-> "idle"]
Init ==
    /\ content = [d \in Document |-> Null]
    /\ parsed = [d \in Document |-> Null]
    /\ segmented = [d \in Document |-> [l \in Level |-> Null]]
    /\ rows = <<>> /\ propositions = <<>>
    /\ seals = [d \in Document |-> {}]
    /\ run = [w \in Worker |-> Idle]
    /\ migration = Idle
    /\ started = 0 /\ migrated = 0

-----------------------------------------------------------------------------
(* Ingest *)

\* ingest_document, ingest_document_bytes, or ingest_reference_document when a
\* box is given: a sealed document is reused or refused before anything is done.
Start(w, d, input, text, p, m, b) ==
    /\ run[w] = Idle /\ started < MaxRuns
    /\ text \in Renderings[p][input]
    /\ b # Null => p = NullParser /\ seals[d] = {}
    /\ run' = [run EXCEPT ![w] = [pc |-> "parsed", doc |-> d, input |-> input, text |-> text,
                                  parser |-> p, model |-> m, box |-> b]]
    /\ started' = started + 1
    /\ UNCHANGED <<store, migration, migrated>>

\* The upsert of document_content waits for a rival ingest of the document;
\* assert_embedding_model_compatible then looks at the index as it is.
Upsert(w) ==
    /\ run[w].pc = "parsed"
    /\ \A v \in Worker : run[v].pc = "embedding" => run[v].doc # run[w].doc
    /\ \E existing \in _global_embedding_model :
         run' = [run EXCEPT ![w] = IF Compatible(existing, run[w].model)
                                   THEN [run[w] EXCEPT !.pc = "embedding"] ELSE Idle]
    /\ UNCHANGED <<store, migration, started, migrated>>

\* persist_spans for every level of the document: the hash each level gets, the
\* levels the resegmentation guard lets pass, and the rows of a new level.
Hashes(r) == [l \in DOMAIN Cut[r.text] |->
                span_content_hash(r.text, l, r.model, parse_content_hash(r.input, r.parser))]
NeverConflicts(r) == FALSE
Conflicts(r) == \E l \in DOMAIN Hashes(r) : segmented[r.doc][l] \notin {Null, Hashes(r)[l]}
NewLevels(r) == {l \in DOMAIN Hashes(r) : segmented[r.doc][l] # Hashes(r)[l]}
span_id_for(d, l, range) == [doc |-> d, level |-> l, range |-> range]
Kept(r) == UNION {{span_id_for(r.doc, l, x) : x \in {y \in Cut[r.text][l] : <<r.model, y>> \notin Tokenless}}
                    : l \in NewLevels(r)}

Persist(r) ==
    /\ content' = [content EXCEPT ![r.doc] = r.text]
    /\ parsed' = [parsed EXCEPT ![r.doc] = parse_content_hash(r.input, r.parser)]
    /\ segmented' = [segmented EXCEPT ![r.doc] =
                       [l \in Level |-> IF l \in DOMAIN Hashes(r) THEN Hashes(r)[l] ELSE @[l]]]
    /\ rows' = [s \in DOMAIN rows \cup Kept(r) |->
                  IF s \in Kept(r) THEN [model |-> r.model, text |-> r.text] ELSE rows[s]]
    /\ seals' = [seals EXCEPT ![r.doc] = IF r.box = Null THEN @
                                         ELSE {e \in @ : e.box # r.box} \cup {[box |-> r.box, sha |-> r.input]}]

\* A raised guard rolls the whole transaction back.
KeepText(r) == content' = [content EXCEPT ![r.doc] = r.text] /\ UNCHANGED <<parsed, segmented, rows, seals>>
RollBack(r) == UNCHANGED <<content, parsed, segmented, rows, seals>>

Commit(w) ==
    LET r == run[w] IN
    /\ r.pc = "embedding"
    /\ \E existing \in _existing_embedding_model(r.doc) :
         IF Compatible(existing, r.model) /\ ~Conflicts(r) THEN Persist(r) ELSE RollBack(r)
    /\ run' = [run EXCEPT ![w] = Idle]
    /\ UNCHANGED <<propositions, migration, started, migrated>>

\* The worker dies, an extraction ends, or the parser, the backend or the database raises.
Abort(w) ==
    /\ run[w] # Idle
    /\ run' = [run EXCEPT ![w] = Idle]
    /\ UNCHANGED <<store, migration, started, migrated>>

-----------------------------------------------------------------------------
(* Extraction, as far as vectors go: _guard_embedding_model once, then one   *)
(* transaction per span.                                                     *)

Propositionize(w, d, m) ==
    /\ run[w] = Idle /\ started < MaxRuns
    /\ \E s \in RowsOf(d) : s.level = 0
    /\ \E existing \in AnyModel({propositions[p].model : p \in PropositionsOf(d)}) : Compatible(existing, m)
    /\ run' = [run EXCEPT ![w] = [pc |-> "extracting", doc |-> d, model |-> m]]
    /\ started' = started + 1
    /\ UNCHANGED <<store, migration, migrated>>

\* A span's vectors, in place of the ones of its older extraction if it had one.
WriteProposition(w, purged) ==
    LET n == Len(propositions) IN
    /\ run[w].pc = "extracting" /\ n < MaxPropositions
    /\ purged \subseteq PropositionsOf(run[w].doc)
    /\ propositions' = Append([p \in 1..n |-> IF p \in purged THEN Null ELSE propositions[p]],
                              [doc |-> run[w].doc, model |-> run[w].model])
    /\ UNCHANGED <<content, parsed, segmented, rows, seals, run, migration, started, migrated>>

-----------------------------------------------------------------------------
(* reembed_to_model *)

OffTarget(m) == {s.doc : s \in {x \in DOMAIN rows : rows[x].model # m}}
MigrationStart(m) ==
    /\ migration = Idle /\ migrated < MaxMigrations
    /\ migration' = [pc |-> "spans", target |-> m, docs |-> OffTarget(m), spans |-> DOMAIN rows]
    /\ migrated' = migrated + 1
    /\ UNCHANGED <<store, run, started>>

\* _reembed_spans, one document: read its text and embed it ...
MigrationLoad(d) ==
    /\ migration.pc = "spans" /\ d \in migration.docs
    /\ migration' = [pc |-> "pool", target |-> migration.target, docs |-> migration.docs,
                     spans |-> migration.spans, doc |-> d, text |-> content[d]]
    /\ UNCHANGED <<store, run, started, migrated>>

\* ... then re-pool its rows that are off target, and commit.
FinestOnly(d, m) == {s \in RowsOf(d) : s.level = 0 /\ rows[s].model # m /\ <<m, s.range>> \notin Tokenless}
Repooled(d, m) == {s \in RowsOf(d) : rows[s].model # m /\ <<m, s.range>> \notin Tokenless}
MigrationPool ==
    /\ migration.pc = "pool"
    /\ rows' = [s \in DOMAIN rows |-> IF s \in Repooled(migration.doc, migration.target)
                                      THEN [model |-> migration.target, text |-> migration.text] ELSE rows[s]]
    /\ migration' = [pc |-> "spans", target |-> migration.target, spans |-> migration.spans,
                     docs |-> migration.docs \ {migration.doc}]
    /\ UNCHANGED <<content, parsed, segmented, propositions, seals, run, started, migrated>>

\* _reembed_propositions: the off-target ids, then batch by batch.
MigrationSpansDone ==
    /\ migration.pc = "spans" /\ migration.docs = {}
    /\ migration' = [pc |-> "propositions", target |-> migration.target, spans |-> migration.spans,
                     ids |-> {p \in Live : propositions[p].model # migration.target}, loaded |-> Live]
    /\ UNCHANGED <<store, run, started, migrated>>

MigrationBatch(batch) ==
    /\ migration.pc = "propositions" /\ batch \subseteq migration.ids
    /\ Cardinality(batch) = IF Cardinality(migration.ids) < BatchSize THEN Cardinality(migration.ids) ELSE BatchSize
    /\ batch # {}
    /\ propositions' = [p \in DOMAIN propositions |->
                          IF p \in batch \cap Live THEN [propositions[p] EXCEPT !.model = migration.target]
                          ELSE propositions[p]]
    /\ migration' = [migration EXCEPT !.ids = @ \ batch]
    /\ UNCHANGED <<content, parsed, segmented, rows, seals, run, started, migrated>>

MigrationEnds ==
    /\ migration.pc = "propositions" /\ migration.ids = {}
    /\ migration' = [migration EXCEPT !.pc = "report"]
    /\ UNCHANGED <<store, run, started, migrated>>

\* The report is returned, or the migration dies on the way: what it committed stays.
MigrationLeaves ==
    /\ migration # Idle
    /\ migration' = Idle
    /\ UNCHANGED <<store, run, started, migrated>>

Migration ==
    \/ \E m \in Model : MigrationStart(m)
    \/ \E d \in Document : MigrationLoad(d)
    \/ MigrationPool \/ MigrationSpansDone \/ MigrationEnds \/ MigrationLeaves
    \/ \E batch \in SUBSET DOMAIN propositions : MigrationBatch(batch)

Next ==
    \/ \E w \in Worker :
          \/ \E d \in Document, input \in Input, text \in Text, p \in Parser, m \in Model, b \in Box \cup {Null} :
                Start(w, d, input, text, p, m, b)
          \/ Upsert(w) \/ Commit(w) \/ Abort(w)
          \/ \E d \in Document, m \in Model : Propositionize(w, d, m)
          \/ \E purged \in SUBSET Live : WriteProposition(w, purged)
    \/ Migration

Spec == Init /\ [][Next]_vars

-----------------------------------------------------------------------------
(* Properties *)

Vector == [model : Model, text : Text]
Span == UNION {{span_id_for(d, l, x) : d \in Document, x \in UNION {Cut[t][l] : t \in {u \in Text : l \in DOMAIN Cut[u]}}}
                 : l \in Level}

\* The stores hold what their columns say, and every dense row a vector that was
\* really pooled: no span without a token under the row's model has one
\* (_skip_reason at ingest, the None test of _reembed_spans).
TypeOK ==
    /\ content \in [Document -> Text \cup {Null}]
    /\ parsed \in [Document -> (Input \X Parser) \cup {Null}]
    /\ DOMAIN rows \subseteq Span
    /\ \A s \in DOMAIN rows : rows[s] \in Vector /\ <<rows[s].model, s.range>> \notin Tokenless
    /\ \A p \in DOMAIN propositions : propositions[p] \in [doc : Document, model : Model] \cup {Null}
    /\ \A d \in Document : seals[d] \subseteq [box : Box, sha : Input]

\* Every span's offsets point into the text that is stored: its range is cut from
\* the document's content at its level, its vector is pooled from that content,
\* and the segment Action names that content -- whatever ingests, refusals and
\* migrations ran together.
SpansMatchText ==
    \A s \in DOMAIN rows :
        /\ content[s.doc] # Null
        /\ s.level \in DOMAIN Cut[content[s.doc]] /\ s.range \in Cut[content[s.doc]][s.level]
        /\ rows[s].text = content[s.doc]
        /\ \E m \in Model : segmented[s.doc][s.level] =
              span_content_hash(content[s.doc], s.level, m, parsed[s.doc])

\* A document's segmentation is immutable: once it has a segment Action, no step
\* of a rival ingest, of a re-parse or of a migration changes its text, its parse
\* or a level's hash, and none removes or adds a span (DocumentResegmentationError).
Segmented(d) == \E l \in Level : segmented[d][l] # Null
DocumentIsImmutable ==
    [][\A d \in Document : Segmented(d) =>
          content'[d] = content[d] /\ parsed'[d] = parsed[d] /\ segmented'[d] = segmented[d]
          /\ RowsOf(d) = {s \in DOMAIN rows' : s.doc = d}]_vars

\* A committed seal implies the committed spans of the sealed content (the promise
\* the reuse short-circuit of ingest_reference_document rests on): the document
\* holds the text of the sealed digest, segmented, also after a rival reference
\* ingest that found no seal either.
SealIsKept ==
    \A d \in Document : \A e \in seals[d] :
        /\ content[d] \in Renderings[NullParser][e.sha]
        /\ parsed[d] = parse_content_hash(e.sha, NullParser)
        /\ segmented[d][0] # Null

\* "So the run doesn't claim false convergence": when the migration reports, every
\* span row there when it began is on the target unless it has no token under it,
\* and so is every proposition row it found, unless a re-extraction purged it.
ReportedConverged ==
    migration.pc = "report" =>
        /\ \A s \in migration.spans : rows[s].model = migration.target \/ <<migration.target, s.range>> \in Tokenless
        /\ \A p \in migration.loaded \cap Live : propositions[p].model = migration.target
=============================================================================
