---------------------------- MODULE IngestProofs ----------------------------
(***************************************************************************)
(* What ingests, refusals, extractions and migrations keep true of the     *)
(* store, for every number of workers, documents, texts, levels and        *)
(* models, every segmenter and every order of their transactions; and that *)
(* the segmenter's own cuts are the best over its candidate boundaries,    *)
(* for every document and every policy.                                    *)
(***************************************************************************)
EXTENDS Ingest, Segmentation, Counting, SequenceTheorems, TLAPS

-----------------------------------------------------------------------------
(* The invariant. *)

\* What a worker and the migration hold in memory.
Ingesting == [pc : {"parsed", "embedding"}, doc : Document, input : Input, text : Text,
              parser : Parser, model : Model, box : Box \cup {Null}]
Extracting == [pc : {"extracting"}, doc : Document, model : Model]
SpanPass == [pc : {"spans"}, target : Model, docs : SUBSET Document, spans : SUBSET DOMAIN rows]
Pooling == [pc : {"pool"}, target : Model, docs : SUBSET Document, spans : SUBSET DOMAIN rows,
            doc : Document, text : Text]
PropositionPass == [pc : {"propositions", "report"}, target : Model, spans : SUBSET DOMAIN rows,
                    ids : SUBSET DOMAIN propositions, loaded : SUBSET DOMAIN propositions]

StoreTyped ==
    /\ TypeOK
    /\ content = [d \in Document |-> content[d]] /\ parsed = [d \in Document |-> parsed[d]]
    /\ segmented = [d \in Document |-> [l \in Level |-> segmented[d][l]]]
    /\ seals = [d \in Document |-> seals[d]]
    /\ propositions \in Seq([doc : Document, model : Model] \cup {Null})
RunsTyped == run \in [Worker -> {Idle} \cup Ingesting \cup Extracting]
MigrationTyped == migration \in {Idle} \cup SpanPass \cup Pooling \cup PropositionPass

\* An ingest holds a text its parser may make of its input; a reference ingest
\* parses with the null parser.
WellParsed(r) == /\ r.text \in Renderings[r.parser][r.input]
                 /\ r.box # Null => r.parser = NullParser
RunsAreParsed == \A w \in Worker : run[w] \in Ingesting => WellParsed(run[w])

\* A document's segment Actions are those of its stored text and parse: every
\* level the segmenter makes of that text has one, no other level has.
Named(d) ==
    Segmented(d) =>
        /\ content[d] \in Text
        /\ \A l \in DOMAIN Cut[content[d]] :
             /\ segmented[d][l] # Null
             /\ \E m \in Model : segmented[d][l] = span_content_hash(content[d], l, m, parsed[d])
        /\ \A l \in Level \ DOMAIN Cut[content[d]] : segmented[d][l] = Null
ActionsNameText == \A d \in Document : Named(d)

\* Rows belong to segmented documents, at their levels, over their text.
CutFromText(s) ==
    /\ Segmented(s.doc)
    /\ s.level \in DOMAIN Cut[content[s.doc]] /\ s.range \in Cut[content[s.doc]][s.level]
    /\ rows[s].text = content[s.doc]
RowsAreCut == \A s \in DOMAIN rows : CutFromText(s)

StoreInv == StoreTyped /\ ActionsNameText /\ RowsAreCut /\ SealIsKept

\* A migration owes a row only while the row's document is on its list, and a
\* proposition only while its id is; what it pools from is the document's text.
Pooled(s, m) == rows[s].model = m \/ <<m, s.range>> \in Tokenless
SpansOwed ==
    /\ \A d \in migration.docs : Segmented(d)
    /\ \A s \in migration.spans : Pooled(s, migration.target) \/ s.doc \in migration.docs
PropositionsOwed ==
    /\ \A s \in migration.spans : Pooled(s, migration.target)
    /\ \A p \in migration.loaded \cap Live :
         propositions[p].model = migration.target \/ p \in migration.ids
MigrationInv ==
    /\ migration.pc \in {"spans", "pool"} => SpansOwed
    /\ migration.pc = "pool" =>
         migration.doc \in migration.docs /\ migration.text = content[migration.doc]
    /\ migration.pc \in {"propositions", "report"} => PropositionsOwed
    /\ migration.pc = "report" => migration.ids = {}

Inv == StoreInv /\ RunsTyped /\ RunsAreParsed /\ MigrationTyped /\ MigrationInv

LEMMA InvInit == Init => Inv
<1> SUFFICES ASSUME Init PROVE Inv
    OBVIOUS
<1>1. \A d \in Document : ~Segmented(d)
    BY DEF Init, Segmented
<1>2. DOMAIN rows = {} /\ DOMAIN propositions = {}
    BY DEF Init
<1>3. TypeOK
    BY <1>2 DEF TypeOK, Init
<1>4. StoreTyped
    BY <1>3 DEF StoreTyped, Init
<1>5. ActionsNameText /\ RowsAreCut /\ SealIsKept
    BY <1>1, <1>2 DEF ActionsNameText, Named, RowsAreCut, SealIsKept, Init
<1>6. RunsTyped /\ RunsAreParsed
    BY DEF RunsTyped, RunsAreParsed, Init, Ingesting, Idle
<1>7. MigrationTyped /\ MigrationInv
    BY DEF MigrationTyped, MigrationInv, Init, Idle
<1>8. QED
    BY <1>4, <1>5, <1>6, <1>7 DEF Inv, StoreInv

-----------------------------------------------------------------------------
(* What one persist does to a document. *)

\* The levels of a text, the finest among them.
LEMMA LevelsOfText ==
    ASSUME NEW t \in Text
    PROVE  0 \in DOMAIN Cut[t] /\ DOMAIN Cut[t] \subseteq Level
  BY PipelineIsTyped

LEMMA HashAtLevel ==
    ASSUME NEW r \in Ingesting, NEW l \in DOMAIN Cut[r.text]
    PROVE  /\ DOMAIN Hashes(r) = DOMAIN Cut[r.text]
           /\ Hashes(r)[l] = span_content_hash(r.text, l, r.model, parse_content_hash(r.input, r.parser))
           /\ Hashes(r)[l] # Null
<1>1. r.text \in Text /\ r.model \in Model /\ r.input \in Input /\ r.parser \in Parser
    BY DEF Ingesting
<1>2. l \in Level
    BY <1>1, LevelsOfText
<1>3. QED
    BY <1>1, <1>2, NullIsNothing DEF Hashes

\* A persist that no guard refused finds a segmented document as it would have
\* made it.
LEMMA SameAgain ==
    ASSUME StoreInv, NEW r \in Ingesting, Segmented(r.doc), ~Conflicts(r)
    PROVE  /\ content[r.doc] = r.text /\ parsed[r.doc] = parse_content_hash(r.input, r.parser)
           /\ \A l \in DOMAIN Hashes(r) : segmented[r.doc][l] = Hashes(r)[l]
           /\ \A l \in Level \ DOMAIN Hashes(r) : segmented[r.doc][l] = Null
<1>1. r.doc \in Document /\ r.text \in Text
    BY DEF Ingesting
<1>2. Named(r.doc)
    BY <1>1 DEF StoreInv, ActionsNameText
<1>3. 0 \in DOMAIN Cut[r.text] /\ 0 \in DOMAIN Cut[content[r.doc]]
    BY <1>1, <1>2, LevelsOfText DEF Named
<1>4. \A l \in DOMAIN Cut[r.text] : segmented[r.doc][l] \in {Null, Hashes(r)[l]}
    BY <1>3, HashAtLevel DEF Conflicts
<1>5. segmented[r.doc][0] # Null
    BY <1>2, <1>3 DEF Named
<1>6. segmented[r.doc][0] = Hashes(r)[0]
    BY <1>3, <1>4, <1>5
<1>7. PICK m \in Model : segmented[r.doc][0] = span_content_hash(content[r.doc], 0, m, parsed[r.doc])
    BY <1>2, <1>3 DEF Named
<1>8. Hashes(r)[0] = span_content_hash(r.text, 0, r.model, parse_content_hash(r.input, r.parser))
    BY <1>3, HashAtLevel
<1>9. content[r.doc] = r.text /\ parsed[r.doc] = parse_content_hash(r.input, r.parser)
  <2>1. span_content_hash(content[r.doc], 0, m, parsed[r.doc])
          = span_content_hash(r.text, 0, r.model, parse_content_hash(r.input, r.parser))
      BY <1>6, <1>7, <1>8
  <2>2. QED
      BY <2>1 DEF span_content_hash
<1>10. DOMAIN Hashes(r) = DOMAIN Cut[r.text]
    BY <1>3, HashAtLevel
<1>11. \A l \in DOMAIN Hashes(r) : segmented[r.doc][l] = Hashes(r)[l]
    BY <1>2, <1>4, <1>9, <1>10 DEF Named
<1>12. \A l \in Level \ DOMAIN Hashes(r) : segmented[r.doc][l] = Null
    BY <1>2, <1>9, <1>10 DEF Named
<1>13. QED
    BY <1>9, <1>11, <1>12

\* What a persist leaves alone: the documents that were segmented before.
Untouched(d) ==
    /\ content'[d] = content[d] /\ parsed'[d] = parsed[d] /\ segmented'[d] = segmented[d]
    /\ RowsOf(d) = {s \in DOMAIN rows' : s.doc = d}
RowsKept == \A s \in DOMAIN rows : s \in DOMAIN rows' /\ rows'[s] = rows[s]

\* The parts of a persist, one document at a time.
LEMMA PersistParts ==
    ASSUME StoreTyped, NEW r \in Ingesting, Persist(r)
    PROVE  /\ \A d \in Document \ {r.doc} : /\ content'[d] = content[d] /\ parsed'[d] = parsed[d]
                                            /\ segmented'[d] = segmented[d] /\ seals'[d] = seals[d]
           /\ content'[r.doc] = r.text /\ parsed'[r.doc] = parse_content_hash(r.input, r.parser)
           /\ segmented'[r.doc] =
                [l \in Level |-> IF l \in DOMAIN Hashes(r) THEN Hashes(r)[l] ELSE segmented[r.doc][l]]
           /\ DOMAIN rows' = DOMAIN rows \cup Kept(r)
           /\ \A s \in DOMAIN rows' :
                rows'[s] = IF s \in Kept(r) THEN [model |-> r.model, text |-> r.text] ELSE rows[s]
           /\ content' = [d \in Document |-> content'[d]] /\ parsed' = [d \in Document |-> parsed'[d]]
           /\ segmented' = [d \in Document |-> segmented'[d]] /\ seals' = [d \in Document |-> seals'[d]]
           /\ IF r.box = Null THEN seals'[r.doc] = seals[r.doc]
              ELSE seals'[r.doc] = {e \in seals[r.doc] : e.box # r.box}
                                     \cup {[box |-> r.box, sha |-> r.input]}
<1>1. r.doc \in Document
    BY DEF Ingesting
<1>2. /\ content = [d \in Document |-> content[d]] /\ parsed = [d \in Document |-> parsed[d]]
      /\ segmented = [d \in Document |-> [l \in Level |-> segmented[d][l]]]
      /\ seals = [d \in Document |-> seals[d]]
    BY DEF StoreTyped
<1> HIDE DEF Ingesting
<1>3. /\ \A d \in Document \ {r.doc} : content'[d] = content[d] /\ parsed'[d] = parsed[d]
      /\ content'[r.doc] = r.text /\ parsed'[r.doc] = parse_content_hash(r.input, r.parser)
      /\ content' = [d \in Document |-> content'[d]] /\ parsed' = [d \in Document |-> parsed'[d]]
    BY <1>1, <1>2 DEF Persist
<1>4. /\ \A d \in Document \ {r.doc} : segmented'[d] = segmented[d]
      /\ segmented'[r.doc] =
           [l \in Level |-> IF l \in DOMAIN Hashes(r) THEN Hashes(r)[l] ELSE segmented[r.doc][l]]
      /\ segmented' = [d \in Document |-> segmented'[d]]
    BY <1>1, <1>2 DEF Persist
<1>5. /\ DOMAIN rows' = DOMAIN rows \cup Kept(r)
      /\ \A s \in DOMAIN rows' :
           rows'[s] = IF s \in Kept(r) THEN [model |-> r.model, text |-> r.text] ELSE rows[s]
    BY DEF Persist
<1>6. /\ \A d \in Document \ {r.doc} : seals'[d] = seals[d]
      /\ seals' = [d \in Document |-> seals'[d]]
      /\ IF r.box = Null THEN seals'[r.doc] = seals[r.doc]
         ELSE seals'[r.doc] = {e \in seals[r.doc] : e.box # r.box} \cup {[box |-> r.box, sha |-> r.input]}
    BY <1>1, <1>2 DEF Persist
<1>7. QED
    BY <1>3, <1>4, <1>5, <1>6

\* A row it writes is of a new level of its own document.
LEMMA KeptRows ==
    ASSUME NEW r \in Ingesting, NEW s \in Kept(r)
    PROVE  /\ s.doc = r.doc /\ s.level \in DOMAIN Cut[r.text] /\ s.range \in Cut[r.text][s.level]
           /\ segmented[r.doc][s.level] # Hashes(r)[s.level]
           /\ s = span_id_for(r.doc, s.level, s.range) /\ <<r.model, s.range>> \notin Tokenless
<1>1. PICK l \in NewLevels(r) :
        s \in {span_id_for(r.doc, l, x) : x \in {y \in Cut[r.text][l] : <<r.model, y>> \notin Tokenless}}
    BY DEF Kept
<1>2. PICK x \in Cut[r.text][l] : s = span_id_for(r.doc, l, x) /\ <<r.model, x>> \notin Tokenless
    BY <1>1
<1>3. s.doc = r.doc /\ s.level = l /\ s.range = x
    BY <1>2 DEF span_id_for
<1>4. l \in DOMAIN Hashes(r) /\ segmented[r.doc][l] # Hashes(r)[l]
    BY <1>1 DEF NewLevels
<1>5. DOMAIN Hashes(r) = DOMAIN Cut[r.text]
    BY DEF Hashes
<1>6. QED
    BY <1>2, <1>3, <1>4, <1>5

\* A persist writes nothing over a segmented document ...
LEMMA PersistsNothingTwice ==
    ASSUME StoreInv, NEW r \in Ingesting, Persist(r), ~Conflicts(r), NEW d \in Document, Segmented(d)
    PROVE  Untouched(d)
<1>1. CASE d # r.doc
  <2>1. \A s \in Kept(r) : s.doc # d
      BY <1>1, KeptRows
  <2>2. RowsOf(d) = {s \in DOMAIN rows' : s.doc = d}
      BY <2>1, PersistParts DEF RowsOf, StoreInv
  <2>3. QED
      BY <1>1, <2>2, PersistParts DEF Untouched, StoreInv
<1>2. CASE d = r.doc
  <2>1. /\ content[d] = r.text /\ parsed[d] = parse_content_hash(r.input, r.parser)
        /\ \A l \in DOMAIN Hashes(r) : segmented[d][l] = Hashes(r)[l]
      BY <1>2, SameAgain
  <2>2. segmented[d] = [l \in Level |-> segmented[d][l]]
      BY DEF StoreInv, StoreTyped
  <2>3. segmented'[d] = segmented[d]
    <3>1. segmented'[r.doc] =
            [l \in Level |-> IF l \in DOMAIN Hashes(r) THEN Hashes(r)[l] ELSE segmented[r.doc][l]]
        BY PersistParts DEF StoreInv
    <3>2. \A l \in Level : (IF l \in DOMAIN Hashes(r) THEN Hashes(r)[l] ELSE segmented[r.doc][l])
                            = segmented[d][l]
        BY <1>2, <2>1
    <3>3. QED
        BY <1>2, <2>2, <3>1, <3>2
  <2>4. Kept(r) = {}
    <3>1. NewLevels(r) = {}
        BY <1>2, <2>1 DEF NewLevels
    <3>2. QED
        BY <3>1 DEF Kept
  <2>5. RowsOf(d) = {s \in DOMAIN rows' : s.doc = d}
      BY <2>4, PersistParts DEF RowsOf, StoreInv
  <2>6. QED
      BY <1>2, <2>1, <2>3, <2>5, PersistParts DEF Untouched, StoreInv
<1>3. QED
    BY <1>1, <1>2

\* ... so every row there is keeps its vector.
LEMMA PersistKeepsRows ==
    ASSUME StoreInv, NEW r \in Ingesting, Persist(r), ~Conflicts(r)
    PROVE  RowsKept
<1> SUFFICES ASSUME NEW s \in DOMAIN rows PROVE s \in DOMAIN rows' /\ rows'[s] = rows[s]
    BY DEF RowsKept
<1>1. s \notin Kept(r)
  <2> SUFFICES ASSUME s \in Kept(r) PROVE FALSE
      OBVIOUS
  <2>1. Segmented(r.doc)
      BY KeptRows DEF StoreInv, RowsAreCut, CutFromText
  <2>2. s.level \in DOMAIN Hashes(r)
      BY KeptRows DEF Hashes
  <2>3. segmented[r.doc][s.level] = Hashes(r)[s.level]
      BY <2>1, <2>2, SameAgain
  <2>4. QED
      BY <2>3, KeptRows
<1>2. QED
    BY <1>1, PersistParts DEF StoreInv

\* After a persist the document's segment Actions are those of the ingest.
LEMMA PersistSegments ==
    ASSUME StoreInv, NEW r \in Ingesting, Persist(r), ~Conflicts(r)
    PROVE  /\ \A l \in DOMAIN Cut[r.text] : segmented'[r.doc][l] = Hashes(r)[l]
           /\ \A l \in Level \ DOMAIN Cut[r.text] : segmented'[r.doc][l] = Null
           /\ segmented'[r.doc][0] # Null /\ Segmented(r.doc)'
<1>1. r.text \in Text /\ 0 \in DOMAIN Cut[r.text] /\ DOMAIN Cut[r.text] \subseteq Level
    BY LevelsOfText DEF Ingesting
<1>2. DOMAIN Hashes(r) = DOMAIN Cut[r.text]
    BY DEF Hashes
<1>0. segmented'[r.doc] =
        [l \in Level |-> IF l \in DOMAIN Hashes(r) THEN Hashes(r)[l] ELSE segmented[r.doc][l]]
    BY PersistParts DEF StoreInv
<1>3. \A l \in DOMAIN Cut[r.text] : segmented'[r.doc][l] = Hashes(r)[l]
    BY <1>0, <1>1, <1>2
<1>4. \A l \in Level \ DOMAIN Cut[r.text] : segmented[r.doc][l] = Null
  <2>1. CASE Segmented(r.doc)
      BY <2>1, <1>2, SameAgain
  <2>2. CASE ~Segmented(r.doc)
      BY <2>2 DEF Segmented
  <2>3. QED
      BY <2>1, <2>2
<1>5. \A l \in Level \ DOMAIN Cut[r.text] : segmented'[r.doc][l] = Null
    BY <1>0, <1>2, <1>4
<1>6. segmented'[r.doc][0] # Null
    BY <1>1, <1>3, HashAtLevel
<1>7. QED
    BY <1>1, <1>3, <1>5, <1>6 DEF Segmented

LEMMA PersistKeepsTypes ==
    ASSUME StoreInv, NEW r \in Ingesting, Persist(r), ~Conflicts(r), propositions' = propositions
    PROVE  StoreTyped'
<1>1. /\ r.doc \in Document /\ r.text \in Text /\ r.input \in Input /\ r.parser \in Parser
      /\ r.model \in Model /\ r.box \in Box \cup {Null}
    BY DEF Ingesting
<1>2. StoreTyped /\ TypeOK
    BY DEF StoreInv, StoreTyped
<1>3. content' \in [Document -> Text \cup {Null}] /\ parsed' \in [Document -> (Input \X Parser) \cup {Null}]
  <2>1. parse_content_hash(r.input, r.parser) \in Input \X Parser
      BY <1>1 DEF parse_content_hash
  <2>2. \A d \in Document : /\ content'[d] \in Text \cup {Null}
                            /\ parsed'[d] \in (Input \X Parser) \cup {Null}
      BY <1>1, <1>2, <2>1, PersistParts DEF TypeOK
  <2>3. content' = [d \in Document |-> content'[d]] /\ parsed' = [d \in Document |-> parsed'[d]]
      BY <1>2, PersistParts
  <2>4. QED
      BY <2>2, <2>3
<1>4. ASSUME NEW s \in DOMAIN rows'
      PROVE  s \in Span /\ rows'[s] \in Vector /\ <<rows'[s].model, s.range>> \notin Tokenless
  <2>1. CASE s \in Kept(r)
    <3>1. s \in Span
      <4>1. /\ s.level \in DOMAIN Cut[r.text] /\ s.range \in Cut[r.text][s.level]
            /\ s = span_id_for(r.doc, s.level, s.range)
          BY <2>1, KeptRows
      <4>2. s.level \in Level
          BY <1>1, <4>1, LevelsOfText
      <4>3. s.range \in UNION {Cut[t][s.level] : t \in {u \in Text : s.level \in DOMAIN Cut[u]}}
          BY <1>1, <4>1
      <4>4. QED
          BY <1>1, <4>1, <4>2, <4>3 DEF Span
    <3>2. rows'[s] = [model |-> r.model, text |-> r.text]
        BY <1>2, <2>1, PersistParts
    <3>3. <<r.model, s.range>> \notin Tokenless
        BY <2>1, KeptRows
    <3>4. QED
        BY <1>1, <3>1, <3>2, <3>3 DEF Vector
  <2>2. CASE s \notin Kept(r)
      BY <1>2, <2>2, PersistParts DEF TypeOK
  <2>3. QED
      BY <2>1, <2>2
<1>5. \A d \in Document : seals'[d] \subseteq [box : Box, sha : Input]
  <2> SUFFICES ASSUME NEW d \in Document PROVE seals'[d] \subseteq [box : Box, sha : Input]
      OBVIOUS
  <2>1. seals[d] \subseteq [box : Box, sha : Input]
      BY <1>2 DEF TypeOK
  <2>2. r.box # Null => [box |-> r.box, sha |-> r.input] \in [box : Box, sha : Input]
      BY <1>1
  <2>3. CASE d # r.doc
      BY <1>2, <2>1, <2>3, PersistParts
  <2>4. CASE d = r.doc
    <3>1. IF r.box = Null THEN seals'[r.doc] = seals[r.doc]
          ELSE seals'[r.doc] = {e \in seals[r.doc] : e.box # r.box}
                                 \cup {[box |-> r.box, sha |-> r.input]}
        BY <1>2, PersistParts
    <3>2. QED
        BY <2>1, <2>2, <2>4, <3>1
  <2>5. QED
      BY <2>3, <2>4
<1>6. TypeOK'
  <2>1. DOMAIN rows' \subseteq Span
      BY <1>4
  <2>2. \A p \in DOMAIN propositions' : propositions'[p] \in [doc : Document, model : Model] \cup {Null}
      BY <1>2 DEF TypeOK
  <2>3. QED
      BY <1>3, <1>4, <1>5, <2>1, <2>2 DEF TypeOK
<1>7. segmented' = [d \in Document |-> [l \in Level |-> segmented'[d][l]]]
  <2>1. \A d \in Document : segmented'[d] = [l \in Level |-> segmented'[d][l]]
    <3>1. \A d \in Document : segmented[d] = [l \in Level |-> segmented[d][l]]
        BY <1>2 DEF StoreTyped
    <3>2. \A d \in Document \ {r.doc} : segmented'[d] = segmented[d]
        BY <1>2, PersistParts
    <3>3. segmented'[r.doc] =
            [l \in Level |-> IF l \in DOMAIN Hashes(r) THEN Hashes(r)[l] ELSE segmented[r.doc][l]]
        BY <1>2, PersistParts
    <3>4. segmented'[r.doc] = [l \in Level |-> segmented'[r.doc][l]]
        BY <3>3
    <3>5. QED
        BY <3>1, <3>2, <3>4
  <2>2. segmented' = [d \in Document |-> segmented'[d]]
      BY <1>2, PersistParts
  <2>3. QED
      BY <2>1, <2>2
<1>8. QED
    BY <1>2, <1>6, <1>7, PersistParts DEF StoreTyped

LEMMA PersistKeepsStore ==
    ASSUME StoreInv, NEW r \in Ingesting, WellParsed(r), Persist(r), ~Conflicts(r),
           propositions' = propositions
    PROVE  StoreInv'
<1>1. r.doc \in Document /\ r.text \in Text /\ r.model \in Model
    BY DEF Ingesting
<1>2. StoreTyped
    BY DEF StoreInv
<1>3. content'[r.doc] = r.text /\ parsed'[r.doc] = parse_content_hash(r.input, r.parser)
    BY <1>2, PersistParts
<1>4. ASSUME NEW d \in Document PROVE Named(d)'
  <2>1. CASE d # r.doc
    <3>1. content'[d] = content[d] /\ parsed'[d] = parsed[d] /\ segmented'[d] = segmented[d]
        BY <1>2, <2>1, PersistParts
    <3>2. Named(d)
        BY DEF StoreInv, ActionsNameText
    <3>3. QED
        BY <3>1, <3>2 DEF Named, Segmented
  <2>2. CASE d = r.doc
    <3>1. \A l \in DOMAIN Cut[r.text] :
            /\ segmented'[r.doc][l] # Null
            /\ segmented'[r.doc][l] = span_content_hash(r.text, l, r.model, parsed'[r.doc])
        BY <1>3, PersistSegments, HashAtLevel
    <3>2. \A l \in Level \ DOMAIN Cut[r.text] : segmented'[r.doc][l] = Null
        BY PersistSegments
    <3>3. QED
        BY <1>1, <1>3, <2>2, <3>1, <3>2 DEF Named
  <2>3. QED
      BY <2>1, <2>2
<1>5. ASSUME NEW s \in DOMAIN rows' PROVE CutFromText(s)'
  <2>1. CASE s \in Kept(r)
    <3>1. rows'[s] = [model |-> r.model, text |-> r.text]
        BY <1>2, <2>1, PersistParts
    <3>2. s.doc = r.doc /\ s.level \in DOMAIN Cut[r.text] /\ s.range \in Cut[r.text][s.level]
        BY <2>1, KeptRows
    <3>3. Segmented(r.doc)'
        BY PersistSegments
    <3>4. QED
        BY <1>3, <3>1, <3>2, <3>3 DEF CutFromText, Segmented
  <2>2. CASE s \notin Kept(r)
    <3>1. s \in DOMAIN rows /\ rows'[s] = rows[s]
        BY <1>2, <2>2, PersistParts
    <3>2. CutFromText(s)
        BY <3>1 DEF StoreInv, RowsAreCut
    <3>3. s.doc \in Document
      <4>1. s \in Span
          BY <1>2, <3>1 DEF StoreTyped, TypeOK
      <4>2. QED
          BY <4>1 DEF Span, span_id_for
    <3>4. Untouched(s.doc)
        BY <3>2, <3>3, PersistsNothingTwice DEF CutFromText
    <3>5. QED
        BY <3>1, <3>2, <3>4 DEF CutFromText, Untouched, Segmented
  <2>3. QED
      BY <2>1, <2>2
<1>6. ASSUME NEW d \in Document, NEW e \in seals'[d]
      PROVE  /\ content'[d] \in Renderings[NullParser][e.sha]
             /\ parsed'[d] = parse_content_hash(e.sha, NullParser) /\ segmented'[d][0] # Null
  <2>1. CASE e \in seals[d]
    <3>1. /\ content[d] \in Renderings[NullParser][e.sha]
          /\ parsed[d] = parse_content_hash(e.sha, NullParser) /\ segmented[d][0] # Null
        BY <2>1 DEF StoreInv, SealIsKept
    <3>2. Segmented(d)
        BY <3>1, PipelineIsTyped DEF Segmented
    <3>3. Untouched(d)
        BY <3>2, PersistsNothingTwice
    <3>4. QED
        BY <3>1, <3>3 DEF Untouched
  <2>2. CASE e \notin seals[d]
    <3>0. d = r.doc
        BY <1>2, <2>2, PersistParts
    <3>1. IF r.box = Null THEN seals'[r.doc] = seals[r.doc]
          ELSE seals'[r.doc] = {x \in seals[r.doc] : x.box # r.box}
                                 \cup {[box |-> r.box, sha |-> r.input]}
        BY <1>2, PersistParts
    <3>2. d = r.doc /\ r.box # Null /\ e = [box |-> r.box, sha |-> r.input]
        BY <2>2, <3>0, <3>1
    <3>3. r.parser = NullParser /\ r.text \in Renderings[NullParser][r.input]
        BY <3>2 DEF WellParsed
    <3>4. QED
        BY <1>3, <3>2, <3>3, PersistSegments
  <2>3. QED
      BY <2>1, <2>2
<1>7. StoreTyped'
    BY PersistKeepsTypes
<1>8. QED
    BY <1>4, <1>5, <1>6, <1>7 DEF StoreInv, ActionsNameText, RowsAreCut, SealIsKept

-----------------------------------------------------------------------------
(* Steps that leave parts of the store alone. *)

PropositionVector == [doc : Document, model : Model] \cup {Null}

LEMMA SpanHasDocument ==
    ASSUME NEW s \in Span
    PROVE  s.doc \in Document
  BY DEF Span, span_id_for

LEMMA SameSpans ==
    ASSUME StoreInv, UNCHANGED <<content, parsed, segmented, rows, seals>>,
           propositions' \in Seq(PropositionVector)
    PROVE  /\ StoreInv' /\ RowsKept
           /\ \A d \in Document : Untouched(d)
<1>1. \A p \in DOMAIN propositions' : propositions'[p] \in PropositionVector
    BY ElementOfSeq, LenProperties
<1>2. TypeOK'
    BY <1>1 DEF StoreInv, StoreTyped, TypeOK, PropositionVector
<1>3. StoreTyped'
    BY <1>2 DEF StoreInv, StoreTyped, PropositionVector
<1>4. ActionsNameText' /\ RowsAreCut' /\ SealIsKept'
    BY DEF StoreInv, ActionsNameText, Named, RowsAreCut, CutFromText, SealIsKept, Segmented
<1>5. RowsKept /\ \A d \in Document : Untouched(d)
    BY DEF RowsKept, Untouched, RowsOf
<1>6. QED
    BY <1>3, <1>4, <1>5 DEF StoreInv

LEMMA SameStore ==
    ASSUME StoreInv, UNCHANGED store
    PROVE  /\ StoreInv' /\ RowsKept /\ propositions' = propositions
           /\ \A d \in Document : Untouched(d)
<1>1. /\ UNCHANGED <<content, parsed, segmented, rows, seals>>
      /\ propositions' = propositions /\ propositions' \in Seq(PropositionVector)
    BY DEF store, StoreInv, StoreTyped, PropositionVector
<1>2. QED
    BY <1>1, SameSpans

\* A worker takes up, goes on with or lays down its work.
LEMMA WorkerMoves ==
    ASSUME RunsTyped, RunsAreParsed, NEW w \in Worker,
           NEW r \in {Idle} \cup Ingesting \cup Extracting, r \in Ingesting => WellParsed(r),
           run' = [run EXCEPT ![w] = r]
    PROVE  RunsTyped' /\ RunsAreParsed'
<1>1. RunsTyped'
    BY DEF RunsTyped
<1>2. \A v \in Worker : run'[v] = IF v = w THEN r ELSE run[v]
    BY DEF RunsTyped
<1>3. RunsAreParsed'
    BY <1>2 DEF RunsAreParsed, WellParsed
<1>4. QED
    BY <1>1, <1>3

LEMMA WorkersRest ==
    ASSUME RunsTyped, RunsAreParsed, run' = run
    PROVE  RunsTyped' /\ RunsAreParsed'
  BY DEF RunsTyped, RunsAreParsed, WellParsed

LEMMA IdleWorks == Idle \in {Idle} \cup Ingesting \cup Extracting /\ Idle \notin Ingesting
  BY DEF Idle, Ingesting

\* The migration's list stays right while others commit: segmented documents
\* are not touched, rows are kept, and propositions are only purged or added.
OnlyPurged ==
    \A p \in DOMAIN propositions :
        p \in DOMAIN propositions' /\ propositions'[p] \in {propositions[p], Null}

LEMMA MigrationRests ==
    ASSUME StoreInv, MigrationTyped, MigrationInv, migration' = migration, RowsKept, OnlyPurged,
           \A d \in Document : Segmented(d) => Untouched(d)
    PROVE  MigrationTyped' /\ MigrationInv'
<1>1. DOMAIN rows \subseteq DOMAIN rows' /\ DOMAIN propositions \subseteq DOMAIN propositions'
    BY DEF RowsKept, OnlyPurged
<1>2. MigrationTyped'
    BY <1>1 DEF MigrationTyped, SpanPass, Pooling, PropositionPass
<1>3. \A d \in Document : Segmented(d) => Segmented(d)' /\ content'[d] = content[d]
    BY DEF Untouched, Segmented
<1>4. ASSUME migration.pc # "idle"
      PROVE  \A s \in migration.spans : s \in DOMAIN rows /\ rows'[s] = rows[s]
  <2>1. migration.spans \subseteq DOMAIN rows
      BY <1>4 DEF MigrationTyped, SpanPass, Pooling, PropositionPass, Idle
  <2>2. QED
      BY <2>1 DEF RowsKept
<1>5. ASSUME migration.pc \in {"spans", "pool"} PROVE SpansOwed'
  <2>1. SpansOwed /\ migration.docs \subseteq Document
      BY <1>5 DEF MigrationInv, MigrationTyped, SpanPass, Pooling, PropositionPass, Idle
  <2>2. \A d \in migration.docs : Segmented(d)'
      BY <1>3, <2>1 DEF SpansOwed
  <2>3. \A s \in migration.spans : Pooled(s, migration.target)' \/ s.doc \in migration.docs
      BY <1>4, <1>5, <2>1 DEF SpansOwed, Pooled
  <2>4. QED
      BY <2>2, <2>3 DEF SpansOwed, Pooled
<1>6. ASSUME migration.pc = "pool"
      PROVE  migration.doc \in migration.docs /\ migration.text = content'[migration.doc]
  <2>1. /\ migration.doc \in migration.docs /\ migration.text = content[migration.doc]
        /\ Segmented(migration.doc) /\ migration.doc \in Document
      BY <1>6 DEF MigrationInv, SpansOwed, MigrationTyped, SpanPass, Pooling, PropositionPass, Idle
  <2>2. QED
      BY <1>3, <2>1
<1>7. ASSUME migration.pc \in {"propositions", "report"} PROVE PropositionsOwed'
  <2>1. PropositionsOwed /\ migration.loaded \subseteq DOMAIN propositions
      BY <1>7 DEF MigrationInv, MigrationTyped, SpanPass, Pooling, PropositionPass, Idle
  <2>2. \A s \in migration.spans : Pooled(s, migration.target)'
      BY <1>4, <1>7, <2>1 DEF PropositionsOwed, Pooled
  <2>3. \A p \in migration.loaded : p \in Live' => p \in Live /\ propositions'[p] = propositions[p]
      BY <2>1 DEF OnlyPurged, Live
  <2>4. QED
      BY <2>1, <2>2, <2>3 DEF PropositionsOwed, Pooled
<1>8. MigrationInv'
    BY <1>5, <1>6, <1>7 DEF MigrationInv
<1>9. QED
    BY <1>2, <1>8

\* ... so a step that leaves the store alone leaves the migration right.
LEMMA MigrationRestsOnSameStore ==
    ASSUME Inv, UNCHANGED store, migration' = migration
    PROVE  StoreInv' /\ MigrationTyped' /\ MigrationInv' /\ \A d \in Document : Untouched(d)
<1>1. /\ StoreInv' /\ RowsKept /\ propositions' = propositions
      /\ \A d \in Document : Untouched(d)
    BY SameStore DEF Inv
<1>2. OnlyPurged
    BY <1>1 DEF OnlyPurged
<1>3. QED
    BY <1>1, <1>2, MigrationRests DEF Inv

-----------------------------------------------------------------------------
(* The steps: each keeps the invariant and touches no segmented document. *)

Keeps == Inv' /\ \A d \in Document : Segmented(d) => Untouched(d)

\* A worker moves and the store stays.
LEMMA WorkerStep ==
    ASSUME Inv, NEW w \in Worker, NEW r \in {Idle} \cup Ingesting \cup Extracting,
           r \in Ingesting => WellParsed(r), run' = [run EXCEPT ![w] = r],
           UNCHANGED store, migration' = migration
    PROVE  Keeps
<1>1. RunsTyped' /\ RunsAreParsed'
    BY WorkerMoves DEF Inv
<1>2. QED
    BY <1>1, MigrationRestsOnSameStore DEF Inv, Keeps

LEMMA StartKeeps ==
    ASSUME Inv, NEW w \in Worker, NEW d \in Document, NEW input \in Input, NEW made \in Text,
           NEW p \in Parser, NEW m \in Model, NEW b \in Box \cup {Null},
           Start(w, d, input, made, p, m, b)
    PROVE  Keeps
<1> DEFINE r == [pc |-> "parsed", doc |-> d, input |-> input, text |-> made,
                 parser |-> p, model |-> m, box |-> b]
<1>1. r \in Ingesting /\ WellParsed(r)
    BY DEF Ingesting, WellParsed, Start
<1>2. run' = [run EXCEPT ![w] = r] /\ UNCHANGED store /\ migration' = migration
    BY DEF Start
<1> HIDE DEF r
<1>3. QED
    BY <1>1, <1>2, WorkerStep

\* What a worker holds, by its pc.
LEMMA IngestAtWork ==
    ASSUME Inv, NEW w \in Worker, run[w].pc \in {"parsed", "embedding"}
    PROVE  run[w] \in Ingesting /\ WellParsed(run[w])
<1>1. run[w] \in {Idle} \cup Ingesting \cup Extracting
    BY DEF Inv, RunsTyped
<1>2. run[w] \in Ingesting
    BY <1>1 DEF Idle, Extracting
<1>3. QED
    BY <1>2 DEF Inv, RunsAreParsed

LEMMA UpsertKeeps ==
    ASSUME Inv, NEW w \in Worker, Upsert(w)
    PROVE  Keeps
<1>1. run[w] \in Ingesting /\ WellParsed(run[w])
    BY IngestAtWork DEF Upsert
<1> DEFINE r == [run[w] EXCEPT !.pc = "embedding"]
<1>2. r \in Ingesting /\ WellParsed(r)
    BY <1>1 DEF Ingesting, WellParsed
<1>3. /\ run' = [run EXCEPT ![w] = r] \/ run' = [run EXCEPT ![w] = Idle]
      /\ UNCHANGED store /\ migration' = migration
    BY DEF Upsert
<1> HIDE DEF r
<1>4. QED
    BY <1>2, <1>3, WorkerStep, IdleWorks

LEMMA CommitKeeps ==
    ASSUME Inv, NEW w \in Worker, Commit(w)
    PROVE  Keeps
<1>1. /\ run' = [run EXCEPT ![w] = Idle] /\ propositions' = propositions /\ migration' = migration
      /\ run[w].pc = "embedding"
      /\ (Persist(run[w]) /\ ~Conflicts(run[w])) \/ RollBack(run[w])
    BY DEF Commit
<1>2. RunsTyped' /\ RunsAreParsed'
    BY <1>1, WorkerMoves, IdleWorks DEF Inv
<1>3. CASE RollBack(run[w])
  <2>1. UNCHANGED store
      BY <1>1, <1>3 DEF RollBack, store
  <2>2. QED
      BY <1>1, <1>2, <2>1, MigrationRestsOnSameStore DEF Inv, Keeps
<1>4. CASE Persist(run[w]) /\ ~Conflicts(run[w])
  <2>1. run[w] \in Ingesting /\ WellParsed(run[w])
      BY <1>1, IngestAtWork
  <2>2. StoreInv' /\ RowsKept /\ \A d \in Document : Segmented(d) => Untouched(d)
      BY <1>1, <1>4, <2>1, PersistKeepsStore, PersistKeepsRows, PersistsNothingTwice DEF Inv
  <2>3. OnlyPurged
      BY <1>1 DEF OnlyPurged
  <2>4. MigrationTyped' /\ MigrationInv'
      BY <1>1, <2>2, <2>3, MigrationRests DEF Inv
  <2>5. QED
      BY <1>2, <2>2, <2>4 DEF Inv, Keeps
<1>5. QED
    BY <1>1, <1>3, <1>4

LEMMA AbortKeeps ==
    ASSUME Inv, NEW w \in Worker, Abort(w)
    PROVE  Keeps
  BY WorkerStep, IdleWorks DEF Abort

LEMMA PropositionizeKeeps ==
    ASSUME Inv, NEW w \in Worker, NEW d \in Document, NEW m \in Model, Propositionize(w, d, m)
    PROVE  Keeps
<1> DEFINE r == [pc |-> "extracting", doc |-> d, model |-> m]
<1>1. r \in Extracting /\ r \notin Ingesting
    BY DEF Extracting, Ingesting
<1>2. run' = [run EXCEPT ![w] = r] /\ UNCHANGED store /\ migration' = migration
    BY DEF Propositionize
<1> HIDE DEF r
<1>3. QED
    BY <1>1, <1>2, WorkerStep

LEMMA WritePropositionKeeps ==
    ASSUME Inv, NEW w \in Worker, NEW purged, WriteProposition(w, purged)
    PROVE  Keeps
<1> DEFINE n == Len(propositions)
           left == [p \in 1..n |-> IF p \in purged THEN Null ELSE propositions[p]]
           new == [doc |-> run[w].doc, model |-> run[w].model]
<1>1. /\ propositions' = Append(left, new) /\ run' = run /\ migration' = migration
      /\ UNCHANGED <<content, parsed, segmented, rows, seals>> /\ run[w].pc = "extracting"
    BY DEF WriteProposition
<1>2. propositions \in Seq(PropositionVector) /\ n \in Nat /\ DOMAIN propositions = 1..n
    BY LenProperties DEF Inv, StoreInv, StoreTyped, PropositionVector
<1>3. new \in PropositionVector
  <2>1. run[w] \in Extracting
      BY <1>1 DEF Inv, RunsTyped, Idle, Ingesting
  <2>2. QED
      BY <2>1 DEF Extracting, PropositionVector
<1>4. left \in Seq(PropositionVector) /\ Len(left) = n
  <2>1. \A p \in 1..n : propositions[p] \in PropositionVector
      BY <1>2, ElementOfSeq
  <2>2. \A p \in 1..n : left[p] \in PropositionVector
      BY <2>1 DEF PropositionVector
  <2>3. left \in [1..n -> PropositionVector]
      BY <2>2
  <2> HIDE DEF left
  <2>4. QED
      BY <1>2, <2>3
<1>5. propositions' \in Seq(PropositionVector) /\ OnlyPurged
  <2> HIDE DEF new
  <2>1. propositions' \in Seq(PropositionVector) /\ Len(propositions') = n + 1
      BY <1>1, <1>2, <1>3, <1>4, AppendProperties
  <2>2. \A p \in 1..n : propositions'[p] = left[p]
      BY <1>1, <1>2, <1>3, <1>4, AppendProperties
  <2>3. DOMAIN propositions' = 1..(n + 1)
      BY <2>1, LenProperties
  <2>4. QED
      BY <1>2, <2>1, <2>2, <2>3 DEF OnlyPurged
<1>6. StoreInv' /\ RowsKept /\ \A d \in Document : Untouched(d)
    BY <1>1, <1>5, SameSpans DEF Inv
<1>7. MigrationTyped' /\ MigrationInv'
    BY <1>1, <1>5, <1>6, MigrationRests DEF Inv
<1>8. RunsTyped' /\ RunsAreParsed'
    BY <1>1, WorkersRest DEF Inv
<1>9. QED
    BY <1>6, <1>7, <1>8 DEF Inv, Keeps

\* The migration moves and the store stays.
LEMMA MigrationStep ==
    ASSUME Inv, UNCHANGED store, run' = run, MigrationTyped', MigrationInv'
    PROVE  Keeps
<1>1. RunsTyped' /\ RunsAreParsed'
    BY WorkersRest DEF Inv
<1>2. QED
    BY <1>1, SameStore DEF Inv, Keeps

\* What the migration holds, by its pc.
LEMMA MigrationAtWork ==
    ASSUME Inv
    PROVE  /\ migration.pc = "spans" => migration \in SpanPass
           /\ migration.pc = "pool" => migration \in Pooling
           /\ migration.pc \in {"propositions", "report"} => migration \in PropositionPass
  BY DEF Inv, MigrationTyped, Idle, SpanPass, Pooling, PropositionPass

LEMMA RowsHaveDocuments ==
    ASSUME StoreInv, NEW s \in DOMAIN rows
    PROVE  s.doc \in Document /\ Segmented(s.doc)
  BY SpanHasDocument DEF StoreInv, StoreTyped, TypeOK, RowsAreCut, CutFromText

LEMMA MigrationStartKeeps ==
    ASSUME Inv, NEW m \in Model, MigrationStart(m)
    PROVE  Keeps
<1> DEFINE g == [pc |-> "spans", target |-> m, docs |-> OffTarget(m), spans |-> DOMAIN rows]
<1>1. migration' = g /\ UNCHANGED store /\ run' = run /\ rows' = rows
    BY DEF MigrationStart, store
<1>2. \A d \in OffTarget(m) : d \in Document /\ Segmented(d)
    BY RowsHaveDocuments DEF OffTarget, Inv
<1>3. MigrationTyped'
  <2>1. g \in SpanPass
      BY <1>2 DEF SpanPass
  <2>2. SpanPass' = SpanPass
      BY <1>1 DEF SpanPass
  <2> HIDE DEF g
  <2>3. QED
      BY <1>1, <2>1, <2>2 DEF MigrationTyped
<1>4. SpansOwed'
  <2>1. \A d \in OffTarget(m) : Segmented(d)'
      BY <1>1, <1>2 DEF Segmented, store
  <2>2. \A s \in DOMAIN rows : Pooled(s, m)' \/ s.doc \in OffTarget(m)
      BY <1>1 DEF Pooled, OffTarget
  <2>3. QED
      BY <1>1, <2>1, <2>2 DEF SpansOwed, Pooled
<1>5. MigrationInv'
    BY <1>1, <1>4 DEF MigrationInv
<1>6. QED
    BY <1>1, <1>3, <1>5, MigrationStep

LEMMA MigrationLoadKeeps ==
    ASSUME Inv, NEW d \in Document, MigrationLoad(d)
    PROVE  Keeps
<1> DEFINE g == [pc |-> "pool", target |-> migration.target, docs |-> migration.docs,
                 spans |-> migration.spans, doc |-> d, text |-> content[d]]
<1>1. /\ migration' = g /\ UNCHANGED store /\ run' = run /\ rows' = rows /\ content' = content
      /\ migration.pc = "spans" /\ d \in migration.docs
    BY DEF MigrationLoad, store
<1>2. migration \in SpanPass /\ SpansOwed
    BY <1>1, MigrationAtWork DEF Inv, MigrationInv
<1>3. content[d] \in Text
    BY <1>1, <1>2 DEF SpansOwed, Inv, StoreInv, ActionsNameText, Named
<1>4. MigrationTyped'
  <2>1. g \in Pooling
      BY <1>2, <1>3 DEF SpanPass, Pooling
  <2>2. Pooling' = Pooling
      BY <1>1 DEF Pooling
  <2> HIDE DEF g
  <2>3. QED
      BY <1>1, <2>1, <2>2 DEF MigrationTyped
<1>5. SpansOwed'
    BY <1>1, <1>2 DEF SpansOwed, Pooled, Segmented, store
<1>6. MigrationInv'
    BY <1>1, <1>5 DEF MigrationInv
<1>7. QED
    BY <1>1, <1>4, <1>6, MigrationStep

\* Pooling a document settles its rows, and those of no other.
LEMMA MigrationPoolKeeps ==
    ASSUME Inv, MigrationPool
    PROVE  Keeps
<1>0. PICK d, m : d = migration.doc /\ m = migration.target
    OBVIOUS
<1> DEFINE g == [pc |-> "spans", target |-> m, spans |-> migration.spans, docs |-> migration.docs \ {d}]
<1>1. /\ migration.pc = "pool" /\ migration' = g /\ run' = run /\ propositions' = propositions
      /\ UNCHANGED <<content, parsed, segmented, seals>>
      /\ rows' = [s \in DOMAIN rows |-> IF s \in Repooled(d, m)
                                        THEN [model |-> m, text |-> migration.text] ELSE rows[s]]
    BY <1>0 DEF MigrationPool
<1>2. migration \in Pooling /\ SpansOwed /\ d \in migration.docs /\ migration.text = content[d]
    BY <1>0, <1>1, MigrationAtWork DEF Inv, MigrationInv
<1>3. m \in Model /\ migration.text \in Text /\ migration.spans \subseteq DOMAIN rows
      /\ migration.docs \subseteq Document
    BY <1>0, <1>2 DEF Pooling
<1>4. DOMAIN rows' = DOMAIN rows
    BY <1>1
<1>5. ASSUME NEW s \in DOMAIN rows
      PROVE  /\ s \in Repooled(d, m) => /\ s.doc = d /\ rows'[s] = [model |-> m, text |-> migration.text]
                                        /\ <<m, s.range>> \notin Tokenless
             /\ s \notin Repooled(d, m) => rows'[s] = rows[s]
    BY <1>1, <1>5 DEF Repooled, RowsOf
<1>6. TypeOK'
  <2>1. ASSUME NEW s \in DOMAIN rows
        PROVE  rows'[s] \in Vector /\ <<rows'[s].model, s.range>> \notin Tokenless
    <3>1. CASE s \in Repooled(d, m)
      <4>1. /\ rows'[s] = [model |-> m, text |-> migration.text] /\ <<m, s.range>> \notin Tokenless
          BY <1>5, <3>1
      <4>2. rows'[s].model = m /\ rows'[s] \in Vector
          BY <1>3, <4>1 DEF Vector
      <4>3. QED
          BY <4>1, <4>2
    <3>2. CASE s \notin Repooled(d, m)
        BY <1>5, <3>2 DEF Inv, StoreInv, StoreTyped, TypeOK
    <3>3. QED
        BY <3>1, <3>2
  <2>2. QED
      BY <1>1, <1>4, <2>1 DEF Inv, StoreInv, StoreTyped, TypeOK
<1>7. StoreTyped'
    BY <1>1, <1>6 DEF Inv, StoreInv, StoreTyped
<1>8. RowsAreCut'
  <2> SUFFICES ASSUME NEW s \in DOMAIN rows PROVE CutFromText(s)'
      BY <1>4 DEF RowsAreCut
  <2>1. CutFromText(s)
      BY DEF Inv, StoreInv, RowsAreCut
  <2>2. rows'[s].text = content[s.doc]
    <3>1. CASE s \in Repooled(d, m)
      <4>1. s.doc = d /\ rows'[s] = [model |-> m, text |-> migration.text]
          BY <1>5, <3>1
      <4>2. QED
          BY <1>2, <4>1
    <3>2. CASE s \notin Repooled(d, m)
        BY <1>5, <2>1, <3>2 DEF CutFromText
    <3>3. QED
        BY <3>1, <3>2
  <2>3. QED
      BY <1>1, <2>1, <2>2 DEF CutFromText, Segmented
<1>9. StoreInv'
    BY <1>1, <1>7, <1>8 DEF Inv, StoreInv, ActionsNameText, Named, SealIsKept, Segmented
<1>10. MigrationTyped'
  <2>1. g \in SpanPass'
      BY <1>3, <1>4 DEF SpanPass
  <2> HIDE DEF g
  <2>2. QED
      BY <1>1, <2>1 DEF MigrationTyped
<1>11. SpansOwed'
  <2>1. \A x \in migration.docs : Segmented(x)'
      BY <1>1, <1>2 DEF SpansOwed, Segmented
  <2>2. ASSUME NEW s \in migration.spans
        PROVE  Pooled(s, m)' \/ s.doc \in migration.docs \ {d}
    <3>1. s \in DOMAIN rows /\ (Pooled(s, m) \/ s.doc \in migration.docs)
        BY <1>0, <1>2, <1>3 DEF SpansOwed
    <3>2. CASE s \in Repooled(d, m)
      <4>1. rows'[s] = [model |-> m, text |-> migration.text]
          BY <1>5, <3>1, <3>2
      <4>2. QED
          BY <4>1 DEF Pooled
    <3>3. CASE s \notin Repooled(d, m)
      <4>1. rows'[s] = rows[s]
          BY <1>5, <3>1, <3>3
      <4>2. s.doc = d => Pooled(s, m)
          BY <3>1, <3>3 DEF Repooled, RowsOf, Pooled
      <4>3. QED
          BY <3>1, <4>1, <4>2 DEF Pooled
    <3>4. QED
        BY <3>2, <3>3
  <2>3. QED
      BY <1>1, <2>1, <2>2 DEF SpansOwed, Pooled
<1>12. MigrationInv'
    BY <1>1, <1>11 DEF MigrationInv
<1>13. RunsTyped' /\ RunsAreParsed'
    BY <1>1, WorkersRest DEF Inv
<1>14. \A x \in Document : Untouched(x)
    BY <1>1, <1>4 DEF Untouched, RowsOf
<1>15. QED
    BY <1>9, <1>10, <1>12, <1>13, <1>14 DEF Inv, Keeps

LEMMA MigrationSpansDoneKeeps ==
    ASSUME Inv, MigrationSpansDone
    PROVE  Keeps
<1> DEFINE ids == {p \in Live : propositions[p].model # migration.target}
           g == [pc |-> "propositions", target |-> migration.target, spans |-> migration.spans,
                 ids |-> ids, loaded |-> Live]
<1>1. /\ migration' = g /\ UNCHANGED store /\ run' = run /\ rows' = rows
      /\ propositions' = propositions /\ migration.pc = "spans" /\ migration.docs = {}
    BY DEF MigrationSpansDone, store
<1>2. migration \in SpanPass /\ SpansOwed
    BY <1>1, MigrationAtWork DEF Inv, MigrationInv
<1>3. MigrationTyped'
  <2>1. g \in PropositionPass
      BY <1>2 DEF SpanPass, PropositionPass, Live
  <2>2. PropositionPass' = PropositionPass
      BY <1>1 DEF PropositionPass
  <2> HIDE DEF g
  <2>3. QED
      BY <1>1, <2>1, <2>2 DEF MigrationTyped
<1>4. PropositionsOwed'
  <2>1. \A s \in migration.spans : Pooled(s, migration.target)
      BY <1>1, <1>2 DEF SpansOwed
  <2>2. \A p \in Live : propositions[p].model = migration.target \/ p \in ids
      OBVIOUS
  <2> HIDE DEF ids
  <2>3. QED
      BY <1>1, <2>1, <2>2 DEF PropositionsOwed, Pooled, Live
<1>5. MigrationInv'
    BY <1>1, <1>4 DEF MigrationInv
<1>6. QED
    BY <1>1, <1>3, <1>5, MigrationStep

\* A batch settles the propositions whose ids leave the list.
LEMMA MigrationBatchKeeps ==
    ASSUME Inv, NEW batch, MigrationBatch(batch)
    PROVE  Keeps
<1>0. PICK m : m = migration.target
    OBVIOUS
<1>1. /\ migration.pc = "propositions" /\ run' = run /\ migration' = [migration EXCEPT !.ids = @ \ batch]
      /\ UNCHANGED <<content, parsed, segmented, rows, seals>>
      /\ propositions' = [p \in DOMAIN propositions |->
                            IF p \in batch \cap Live THEN [propositions[p] EXCEPT !.model = m]
                            ELSE propositions[p]]
    BY <1>0 DEF MigrationBatch
<1>2. migration \in PropositionPass /\ PropositionsOwed /\ m \in Model
    BY <1>0, <1>1, MigrationAtWork DEF Inv, MigrationInv, PropositionPass
<1>3. /\ DOMAIN migration' = DOMAIN migration /\ migration'.pc = "propositions" /\ migration'.target = m
      /\ migration'.spans = migration.spans /\ migration'.loaded = migration.loaded
      /\ migration'.ids = migration.ids \ batch /\ migration' \in PropositionPass
    BY <1>0, <1>1, <1>2 DEF PropositionPass
<1>4. propositions \in Seq(PropositionVector)
    BY DEF Inv, StoreInv, StoreTyped, PropositionVector
<1>5. /\ Len(propositions) \in Nat /\ DOMAIN propositions = 1..Len(propositions)
      /\ \A p \in DOMAIN propositions : propositions[p] \in PropositionVector
    BY <1>4, LenProperties, ElementOfSeq
<1>6. ASSUME NEW p \in DOMAIN propositions
      PROVE  /\ propositions'[p] \in PropositionVector
             /\ p \in batch \cap Live => propositions'[p].model = m
             /\ p \notin batch \cap Live => propositions'[p] = propositions[p]
  <2>1. CASE p \in batch \cap Live
    <3>1. propositions[p] \in [doc : Document, model : Model]
        BY <1>5, <2>1 DEF Live, PropositionVector
    <3>2. propositions'[p] = [propositions[p] EXCEPT !.model = m]
        BY <1>1, <2>1
    <3>3. propositions'[p] \in [doc : Document, model : Model] /\ propositions'[p].model = m
        BY <1>2, <3>1, <3>2
    <3>4. QED
        BY <2>1, <3>3 DEF PropositionVector
  <2>2. CASE p \notin batch \cap Live
      BY <1>1, <1>5, <2>2
  <2>3. QED
      BY <2>1, <2>2
<1>7. propositions' \in Seq(PropositionVector)
  <2>1. propositions' \in [1..Len(propositions) -> PropositionVector]
      BY <1>1, <1>5, <1>6
  <2>2. QED
      BY <1>5, <2>1
<1>8. StoreInv' /\ \A d \in Document : Untouched(d)
    BY <1>1, <1>7, SameSpans DEF Inv
<1>9. DOMAIN propositions' = DOMAIN propositions
    BY <1>1
<1>10. MigrationTyped'
  <2>1. PropositionPass' = PropositionPass
      BY <1>1, <1>9 DEF PropositionPass
  <2>2. QED
      BY <1>3, <2>1 DEF MigrationTyped
<1>11. PropositionsOwed'
  <2>1. \A s \in migration.spans : Pooled(s, m)
      BY <1>0, <1>2 DEF PropositionsOwed
  <2>2. ASSUME NEW p \in migration.loaded, p \in Live'
        PROVE  propositions'[p].model = m \/ p \in migration.ids \ batch
    <3>1. p \in DOMAIN propositions
        BY <1>2 DEF PropositionPass
    <3>2. CASE p \in batch \cap Live
        BY <1>6, <3>1, <3>2
    <3>3. CASE p \notin batch \cap Live
      <4>1. propositions'[p] = propositions[p] /\ p \in Live
          BY <1>6, <2>2, <3>1, <3>3 DEF Live
      <4>2. propositions[p].model = m \/ p \in migration.ids
          BY <1>0, <1>2, <4>1 DEF PropositionsOwed
      <4>3. QED
          BY <3>3, <4>1, <4>2
    <3>4. QED
        BY <3>2, <3>3
  <2>3. QED
      BY <1>1, <1>3, <2>1, <2>2 DEF PropositionsOwed, Pooled
<1>12. MigrationInv'
    BY <1>3, <1>11 DEF MigrationInv
<1>13. RunsTyped' /\ RunsAreParsed'
    BY <1>1, WorkersRest DEF Inv
<1>14. QED
    BY <1>8, <1>10, <1>12, <1>13 DEF Inv, Keeps

LEMMA MigrationEndsKeeps ==
    ASSUME Inv, MigrationEnds
    PROVE  Keeps
<1>1. /\ migration.pc = "propositions" /\ migration.ids = {} /\ UNCHANGED store /\ run' = run
      /\ migration' = [migration EXCEPT !.pc = "report"]
      /\ rows' = rows /\ propositions' = propositions
    BY DEF MigrationEnds, store
<1>2. migration \in PropositionPass /\ PropositionsOwed
    BY <1>1, MigrationAtWork DEF Inv, MigrationInv
<1>3. /\ migration'.pc = "report" /\ migration'.target = migration.target
      /\ migration'.spans = migration.spans /\ migration'.loaded = migration.loaded
      /\ migration'.ids = migration.ids /\ migration' \in PropositionPass
    BY <1>1, <1>2 DEF PropositionPass
<1>4. MigrationTyped'
  <2>1. PropositionPass' = PropositionPass
      BY <1>1 DEF PropositionPass
  <2>2. QED
      BY <1>3, <2>1 DEF MigrationTyped
<1>5. PropositionsOwed'
    BY <1>1, <1>2, <1>3 DEF PropositionsOwed, Pooled, Live
<1>6. MigrationInv'
    BY <1>1, <1>3, <1>5 DEF MigrationInv
<1>7. QED
    BY <1>1, <1>4, <1>6, MigrationStep

LEMMA MigrationLeavesKeeps ==
    ASSUME Inv, MigrationLeaves
    PROVE  Keeps
<1>1. migration' = Idle /\ UNCHANGED store /\ run' = run
    BY DEF MigrationLeaves
<1>2. MigrationTyped' /\ MigrationInv'
    BY <1>1 DEF MigrationTyped, MigrationInv, Idle
<1>3. QED
    BY <1>1, <1>2, MigrationStep

LEMMA NextKeeps == ASSUME Inv, [Next]_vars PROVE Keeps
<1>1. ASSUME NEW w \in Worker, NEW d \in Document, NEW input \in Input, NEW made \in Text,
             NEW p \in Parser, NEW m \in Model, NEW b \in Box \cup {Null},
             Start(w, d, input, made, p, m, b)
      PROVE  Keeps
    BY <1>1, StartKeeps
<1>2. ASSUME NEW w \in Worker, Upsert(w) \/ Commit(w) \/ Abort(w) PROVE Keeps
    BY <1>2, UpsertKeeps, CommitKeeps, AbortKeeps
<1>3. ASSUME NEW w \in Worker, NEW d \in Document, NEW m \in Model, Propositionize(w, d, m) PROVE Keeps
    BY <1>3, PropositionizeKeeps
<1>4. ASSUME NEW w \in Worker, NEW purged, WriteProposition(w, purged) PROVE Keeps
    BY <1>4, WritePropositionKeeps
<1>5. ASSUME Migration PROVE Keeps
  <2>1. ASSUME NEW m \in Model, MigrationStart(m) PROVE Keeps
      BY <2>1, MigrationStartKeeps
  <2>2. ASSUME NEW d \in Document, MigrationLoad(d) PROVE Keeps
      BY <2>2, MigrationLoadKeeps
  <2>3. ASSUME NEW batch, MigrationBatch(batch) PROVE Keeps
      BY <2>3, MigrationBatchKeeps
  <2>4. QED
      BY <1>5, <2>1, <2>2, <2>3, MigrationPoolKeeps, MigrationSpansDoneKeeps, MigrationEndsKeeps,
         MigrationLeavesKeeps DEF Migration
<1>6. CASE UNCHANGED vars
  <2>1. UNCHANGED store /\ run' = run /\ migration' = migration
      BY <1>6 DEF vars
  <2>2. RunsTyped' /\ RunsAreParsed'
      BY <2>1, WorkersRest DEF Inv
  <2>3. QED
      BY <2>1, <2>2, MigrationRestsOnSameStore DEF Inv, Keeps
<1>7. QED
    BY <1>1, <1>2, <1>3, <1>4, <1>5, <1>6 DEF Next

LEMMA InvNext == Inv /\ [Next]_vars => Inv'
  BY NextKeeps DEF Keeps

-----------------------------------------------------------------------------
(* What follows. *)

\* The columns keep their types, and no span without a token under a model has
\* a vector under it.
THEOREM TypeCorrect == Spec => []TypeOK
<1>1. Inv => TypeOK
    BY DEF Inv, StoreInv, StoreTyped
<1>2. QED
    BY <1>1, InvInit, InvNext, PTL DEF Spec

\* Every span's offsets point into the stored text, its vector is pooled from
\* that text, and the segment Action of its level names it (core/ingest.py).
THEOREM OffsetsPointIntoTheText == Spec => []SpansMatchText
<1>1. ASSUME Inv PROVE SpansMatchText
  <2> SUFFICES ASSUME NEW s \in DOMAIN rows
               PROVE  /\ content[s.doc] # Null
                      /\ s.level \in DOMAIN Cut[content[s.doc]] /\ s.range \in Cut[content[s.doc]][s.level]
                      /\ rows[s].text = content[s.doc]
                      /\ \E m \in Model : segmented[s.doc][s.level] =
                            span_content_hash(content[s.doc], s.level, m, parsed[s.doc])
      BY DEF SpansMatchText
  <2>1. CutFromText(s) /\ s.doc \in Document
      BY <1>1, RowsHaveDocuments DEF Inv, StoreInv, RowsAreCut
  <2>2. Named(s.doc)
      BY <1>1, <2>1 DEF Inv, StoreInv, ActionsNameText
  <2>3. QED
      BY <2>1, <2>2, NullIsNothing DEF Named, CutFromText
<1>2. QED
    BY <1>1, InvInit, InvNext, PTL DEF Spec

\* A committed seal implies the committed spans of the sealed content
\* (core/reference_corpus.py), whatever is ingested, refused or migrated later.
THEOREM SealsAreKept == Spec => []SealIsKept
<1>1. Inv => SealIsKept
    BY DEF Inv, StoreInv
<1>2. QED
    BY <1>1, InvInit, InvNext, PTL DEF Spec

\* A migration that reports has left no row and no proposition of its beginning
\* under another model, but those without a token (core/reembed.py).
THEOREM ReportsAreTrue == Spec => []ReportedConverged
<1>1. ASSUME Inv PROVE ReportedConverged
  <2> SUFFICES ASSUME migration.pc = "report" PROVE ReportedConverged
      BY DEF ReportedConverged
  <2>1. PropositionsOwed /\ migration.ids = {}
      BY <1>1 DEF Inv, MigrationInv
  <2>2. QED
      BY <2>1 DEF PropositionsOwed, ReportedConverged, Pooled
<1>2. QED
    BY <1>1, InvInit, InvNext, PTL DEF Spec

\* Once segmented, a document keeps its text, its parse, its hashes and its
\* spans (DocumentResegmentationError), through every rival, retry and migration.
THEOREM DocumentsAreImmutable == Spec => DocumentIsImmutable
<1>1. Inv /\ [Next]_vars =>
        [\A d \in Document : Segmented(d) =>
            content'[d] = content[d] /\ parsed'[d] = parsed[d] /\ segmented'[d] = segmented[d]
            /\ RowsOf(d) = {s \in DOMAIN rows' : s.doc = d}]_vars
    BY NextKeeps DEF Keeps, Untouched
<1>2. QED
    BY <1>1, InvInit, InvNext, PTL DEF Spec, DocumentIsImmutable

-----------------------------------------------------------------------------
(* The segmenter.  Joining two segments never scores more than the two do, *)
(* so the best tiling is the one with every candidate boundary, and the    *)
(* nearest of the best predecessors is the nearest candidate.              *)

IsText(t, n) == n \in Nat /\ t.vectors \in [0 .. n - 1 -> Int] /\ t.densities \in [0 .. n - 1 -> Int]
IsLevel(lvl) == lvl.max_len \in Nat \ {0} /\ lvl.penalty \in Int

\* What two neighbouring stretches hold adds up to what both do.
Adds(f, n) ==
    \A a \in 0 .. n : \A b \in a .. n : \A c \in b .. n :
        /\ SumOver(f, a .. b - 1) \in Int
        /\ SumOver(f, a .. c - 1) = SumOver(f, a .. b - 1) + SumOver(f, b .. c - 1)
LEMMA IntervalsAdd ==
    ASSUME NEW n \in Nat, NEW f \in [0 .. n - 1 -> Int]
    PROVE  Adds(f, n)
<1>1. SUFFICES ASSUME NEW a \in 0 .. n, NEW b \in a .. n, NEW c \in b .. n
               PROVE  /\ SumOver(f, a .. b - 1) \in Int
                      /\ SumOver(f, a .. c - 1) = SumOver(f, a .. b - 1) + SumOver(f, b .. c - 1)
    BY DEF Adds
<1>2. IsFiniteSet(a .. b - 1) /\ IsFiniteSet(b .. c - 1)
    BY FS_Interval
<1>3. a .. c - 1 = (a .. b - 1) \cup (b .. c - 1) /\ (a .. b - 1) \cap (b .. c - 1) = {}
    OBVIOUS
<1>4. \A i \in (a .. b - 1) \cup (b .. c - 1) : f[i] \in Int
    OBVIOUS
<1>5. SumFunctionOnSet(f, a .. b - 1) \in Int
    BY <1>2, <1>4, SumIsANumber
<1>6. SumFunctionOnSet(f, (a .. b - 1) \cup (b .. c - 1))
        = SumFunctionOnSet(f, a .. b - 1) + SumFunctionOnSet(f, b .. c - 1)
    BY <1>2, <1>3, <1>4, SumOfUnion
<1>7. QED
    BY <1>3, <1>5, <1>6 DEF SumOver

\* Two segments score no less than the one they make.
Splits(n, sc) ==
    /\ \A a \in 0 .. n : \A b \in a .. n : sc[<<a, b>>] \in Int
    /\ \A a \in 0 .. n : \A b \in a .. n : \A c \in b .. n : sc[<<a, c>>] <= sc[<<a, b>>] + sc[<<b, c>>]
ScoresOf(t, lvl, n) == [s \in (0 .. n) \X (0 .. n) |-> Score(t, lvl, s[1], s[2])]

LEMMA ScoresSplit ==
    ASSUME NEW t, NEW n, IsText(t, n), NEW lvl, IsLevel(lvl)
    PROVE  Splits(n, ScoresOf(t, lvl, n))
<1> DEFINE V(a, b) == SumOver(t.vectors, a .. b - 1)
           D(a, b) == SumOver(t.densities, a .. b - 1)
<1>1. \A a, b \in 0 .. n : ScoresOf(t, lvl, n)[<<a, b>>] = Score(t, lvl, a, b)
    BY DEF ScoresOf
<1>2. \A a, b : Score(t, lvl, a, b) = 50 * Abs(V(a, b)) + 25 * D(a, b) - lvl.penalty * (b - a)
    BY DEF Score, Penalty
<1>3. \A a \in 0 .. n : \A b \in a .. n : \A c \in b .. n :
        /\ V(a, b) \in Int /\ V(a, c) = V(a, b) + V(b, c)
        /\ D(a, b) \in Int /\ D(a, c) = D(a, b) + D(b, c)
  <2>1. Adds(t.vectors, n) /\ Adds(t.densities, n)
      BY IntervalsAdd DEF IsText
  <2>2. QED
      BY <2>1 DEF Adds
<1> HIDE DEF V, D
<1>4. \A u, v \in Int : Abs(u) \in Int /\ Abs(u + v) <= Abs(u) + Abs(v)
    BY DEF Abs
<1>5. ASSUME NEW a \in 0 .. n, NEW b \in a .. n PROVE Score(t, lvl, a, b) \in Int
  <2>1. V(a, b) \in Int /\ D(a, b) \in Int
    <3>1. b \in b .. n
        BY DEF IsText
    <3>2. QED
        BY <1>3, <3>1
  <2>2. Abs(V(a, b)) \in Int /\ b - a \in Int /\ lvl.penalty \in Int
      BY <1>4, <2>1 DEF IsText, IsLevel
  <2>3. \A p, q \in Int : p * q \in Int
      OBVIOUS
  <2>4. QED
      BY <1>2, <2>1, <2>2, <2>3
<1>6. ASSUME NEW a \in 0 .. n, NEW b \in a .. n, NEW c \in b .. n
      PROVE  Score(t, lvl, a, c) <= Score(t, lvl, a, b) + Score(t, lvl, b, c)
  <2>0. a \in Int /\ b \in Int /\ c \in Int /\ b \in 0 .. n /\ c \in a .. n /\ c \in c .. n
      BY DEF IsText
  <2>1. /\ V(a, b) \in Int /\ V(b, c) \in Int /\ V(a, c) = V(a, b) + V(b, c)
        /\ D(a, b) \in Int /\ D(b, c) \in Int /\ D(a, c) = D(a, b) + D(b, c)
      BY <1>3, <2>0
  <2>2. /\ Abs(V(a, c)) <= Abs(V(a, b)) + Abs(V(b, c))
        /\ Abs(V(a, b)) \in Int /\ Abs(V(b, c)) \in Int /\ Abs(V(a, c)) \in Int
      BY <1>4, <2>1
  <2>3. /\ lvl.penalty * (c - a) = lvl.penalty * (b - a) + lvl.penalty * (c - b)
        /\ lvl.penalty * (b - a) \in Int /\ lvl.penalty * (c - b) \in Int
    <3>1. \A k, u, v \in Int : k * (u + v) = k * u + k * v /\ k * u \in Int /\ k * v \in Int
        OBVIOUS
    <3>2. c - a = (b - a) + (c - b) /\ b - a \in Int /\ c - b \in Int /\ lvl.penalty \in Int
        BY <2>0 DEF IsLevel
    <3>3. QED
        BY <3>1, <3>2
  <2> DEFINE nab == Abs(V(a, b)) nbc == Abs(V(b, c)) nac == Abs(V(a, c))
             dab == D(a, b) dbc == D(b, c)
             pab == lvl.penalty * (b - a) pbc == lvl.penalty * (c - b)
  <2>4. /\ Score(t, lvl, a, b) = 50 * nab + 25 * dab - pab
        /\ Score(t, lvl, b, c) = 50 * nbc + 25 * dbc - pbc
        /\ Score(t, lvl, a, c) = 50 * nac + 25 * (dab + dbc) - (pab + pbc)
      BY <1>2, <2>1, <2>3
  <2>5. nab \in Int /\ nbc \in Int /\ nac \in Int /\ dab \in Int /\ dbc \in Int /\ pab \in Int /\ pbc \in Int
        /\ nac <= nab + nbc
      BY <2>1, <2>2, <2>3
  <2> HIDE DEF nab, nbc, nac, dab, dbc, pab, pbc
  <2>6. QED
      BY <2>4, <2>5
<1>7. QED
  <2>1. \A a \in 0 .. n : \A b \in a .. n : a \in 0 .. n /\ b \in 0 .. n
      BY DEF IsText
  <2>2. \A a \in 0 .. n : \A b \in a .. n : \A c \in b .. n : c \in a .. n /\ c \in 0 .. n
      BY DEF IsText
  <2> HIDE DEF IsText
  <2>3. \A a \in 0 .. n : \A b \in a .. n : ScoresOf(t, lvl, n)[<<a, b>>] \in Int
      BY <1>1, <1>5, <2>1
  <2>4. \A a \in 0 .. n : \A b \in a .. n : \A c \in b .. n :
          ScoresOf(t, lvl, n)[<<a, c>>] <= ScoresOf(t, lvl, n)[<<a, b>>] + ScoresOf(t, lvl, n)[<<b, c>>]
      BY <1>1, <1>6, <2>1, <2>2
  <2>5. QED
      BY <2>3, <2>4 DEF Splits

\* The boundaries to choose from: never further apart than max_len.
Dense(A, n, m) ==
    /\ A \in SUBSET (0 .. n) /\ 0 \in A /\ n \in A
    /\ \A c \in 1 .. n : \E p \in A : p < c /\ c - p <= m

LEMMA CandidatesAreDense ==
    ASSUME NEW n \in Nat, NEW m \in Nat \ {0}, NEW valleys \in SUBSET Int
    PROVE  Dense(Candidates(valleys, n, m), n, m)
<1> DEFINE fixed == {0, n} \cup {v \in valleys : 0 < v /\ v < n}
           below(c) == {b \in fixed : b <= c}
           previous(c) == Max(below(c))
           A == Candidates(valleys, n, m)
<1>1. A = {c \in 0 .. n : (c - previous(c)) % m = 0}
    BY DEF Candidates
<1> HIDE DEF A
<1>2. fixed \in SUBSET (0 .. n) /\ 0 \in fixed /\ n \in fixed
  <2>1. \A v \in valleys : v \in Int
      OBVIOUS
  <2>2. \A v \in Int : 0 < v /\ v < n => v \in 0 .. n
      OBVIOUS
  <2>3. 0 \in 0 .. n /\ n \in 0 .. n
      OBVIOUS
  <2>4. QED
      BY <2>1, <2>2, <2>3
<1> HIDE DEF fixed
<1>3. ASSUME NEW c \in 0 .. n
      PROVE  /\ previous(c) \in fixed /\ previous(c) \in 0 .. c
             /\ \A b \in fixed : b <= c => b <= previous(c)
  <2>1. below(c) \in SUBSET (0 .. n) /\ below(c) # {}
    <3>1. 0 <= c
        OBVIOUS
    <3>2. 0 \in below(c)
        BY <1>2, <3>1
    <3>3. QED
        BY <1>2, <3>2
  <2>2. IsFiniteSet(below(c)) /\ below(c) \in SUBSET Int
    <3>1. IsFiniteSet(0 .. n)
        BY FS_Interval
    <3>2. QED
        BY <2>1, <3>1, FS_Subset
  <2>3. Max(below(c)) \in below(c) /\ \A b \in below(c) : b <= Max(below(c))
    <3> HIDE DEF below
    <3>1. QED
        BY <2>1, <2>2, MaxOfIntegers
  <2>4. Max(below(c)) \in 0 .. c
    <3>1. \A b \in below(c) : b \in 0 .. n /\ b <= c
        BY <1>2
    <3>2. \A b \in 0 .. n : b <= c => b \in 0 .. c
        OBVIOUS
    <3> HIDE DEF below
    <3>3. QED
        BY <2>3, <3>1, <3>2
  <2>5. QED
      BY <2>3, <2>4
<1>4. ASSUME NEW c \in fixed PROVE c \in 0 .. n /\ previous(c) = c
    BY <1>2, <1>3
<1> HIDE DEF previous
<1>5. ASSUME NEW c \in fixed PROVE c \in A
  <2>1. (c - previous(c)) % m = 0
    <3>1. c - previous(c) = 0
        BY <1>4
    <3>2. 0 % m = 0
        OBVIOUS
    <3>3. QED
        BY <3>1, <3>2
  <2>2. QED
      BY <1>1, <1>4, <2>1
<1>6. ASSUME NEW c \in 1 .. n PROVE \E p \in A : p < c /\ c - p <= m
  <2> DEFINE q == previous(c - 1)
             r == (c - 1 - q) % m
             p == (c - 1) - r
  <2>1. c - 1 \in 0 .. n /\ q \in 0 .. c - 1 /\ q \in fixed /\ \A b \in fixed : b <= c - 1 => b <= q
      BY <1>3
  <2>2. \A d \in Nat : d % m \in 0 .. m - 1 /\ d % m <= d /\ (d - (d % m)) % m = 0
      BY RemainderOff
  <2>3. r \in 0 .. m - 1 /\ r <= c - 1 - q /\ ((c - 1 - q) - r) % m = 0
      BY <2>1, <2>2
  <2> HIDE DEF q, r
  <2>4. p \in 0 .. n /\ q <= p /\ p <= c - 1 /\ c - p <= m
      BY <2>1, <2>3
  <2>5. previous(p) = q
      BY <1>3, <2>1, <2>4
  <2>6. p - previous(p) = (c - 1 - q) - r
      BY <2>1, <2>3, <2>5
  <2>7. p \in A
      BY <1>1, <2>3, <2>4, <2>6
  <2>8. QED
      BY <2>4, <2>7
<1>7. A \in SUBSET (0 .. n) /\ 0 \in A /\ n \in A
    BY <1>1, <1>2, <1>5
<1>8. QED
    BY <1>6, <1>7 DEF Dense, A

\* Where the last segment up to a boundary may begin.
Reach(A, m, c) == {p \in A : p < c /\ c - p <= m}

LEMMA ReachParts ==
    ASSUME NEW n \in Nat, NEW m \in Nat, NEW A, Dense(A, n, m), NEW c \in A \ {0}
    PROVE  /\ Reach(A, m, c) \in SUBSET (0 .. n) /\ IsFiniteSet(Reach(A, m, c))
           /\ Max(Reach(A, m, c)) \in Reach(A, m, c)
           /\ \A b \in A : b < c => b <= Max(Reach(A, m, c))
<1> DEFINE R == Reach(A, m, c)
<1>1. c \in 1 .. n /\ A \in SUBSET (0 .. n)
    BY DEF Dense
<1>2. R \in SUBSET (0 .. n) /\ R # {}
    BY <1>1 DEF Dense, Reach
<1>3. IsFiniteSet(R) /\ R \in SUBSET Int
  <2>1. IsFiniteSet(0 .. n)
      BY FS_Interval
  <2>2. 0 .. n \subseteq Int
      OBVIOUS
  <2> HIDE DEF R
  <2>3. R \in SUBSET Int
      BY <1>2, <2>2
  <2>4. QED
      BY <1>2, <2>1, <2>3, FS_Subset
<1>4. Max(R) \in R /\ \A b \in R : b <= Max(R)
  <2> HIDE DEF R
  <2>1. QED
      BY <1>2, <1>3, MaxOfIntegers
<1>5. ASSUME NEW b \in A, b < c PROVE b <= Max(R)
  <2>1. CASE b \in R
      BY <1>4, <2>1
  <2>2. CASE b \notin R
    <3>1. c - b > m /\ b \in Int /\ c \in Int
        BY <1>1, <1>5, <2>2 DEF Reach
    <3>2. Max(R) \in Int /\ c - Max(R) <= m
        BY <1>2, <1>4 DEF Reach
    <3> HIDE DEF R
    <3>3. QED
        BY <3>1, <3>2
  <2>3. QED
      BY <2>1, <2>2
<1>6. QED
    BY <1>2, <1>3, <1>4, <1>5

\* The best total up to each boundary, as segment_dp makes it.
From(D, sc, p, c) == D[p] + sc[<<p, c>>]
Totals(D, A, m, sc, c) == {From(D, sc, p, c) : p \in Reach(A, m, c)}
BestFrom(D, A, m, sc, c) == IF c = 0 THEN 0 ELSE Max(Totals(D, A, m, sc, c))
IsBest(D, A, m, sc) == D = [c \in A |-> BestFrom(D, A, m, sc, c)]

\* A best total is a number when those before it are, and the greatest.
LEMMA TotalsParts ==
    ASSUME NEW n \in Nat, NEW m \in Nat, NEW A, Dense(A, n, m), NEW sc, Splits(n, sc),
           NEW D, NEW c \in A \ {0}, \A p \in A : p < c => D[p] \in Int
    PROVE  /\ BestFrom(D, A, m, sc, c) \in Int
           /\ \E p \in Reach(A, m, c) : BestFrom(D, A, m, sc, c) = From(D, sc, p, c)
           /\ \A p \in Reach(A, m, c) : From(D, sc, p, c) <= BestFrom(D, A, m, sc, c)
<1> DEFINE R == Reach(A, m, c)
           T == Totals(D, A, m, sc, c)
<1>1. R \in SUBSET (0 .. n) /\ IsFiniteSet(R) /\ R # {} /\ c \in 0 .. n
    BY ReachParts DEF Dense
<1>2. ASSUME NEW p \in R PROVE From(D, sc, p, c) \in Int
  <2>1. p \in A /\ p < c /\ p \in 0 .. n
      BY <1>1 DEF Reach
  <2>2. c \in p .. n
      BY <1>1, <2>1
  <2>3. D[p] \in Int /\ sc[<<p, c>>] \in Int
      BY <2>1, <2>2 DEF Splits
  <2>4. QED
      BY <2>3 DEF From
<1>3. T = {From(D, sc, p, c) : p \in R}
    BY DEF Totals
<1> HIDE DEF R, T
<1>4. T \in SUBSET Int /\ T # {}
    BY <1>1, <1>2, <1>3
<1>5. IsFiniteSet(T)
  <2> DEFINE f == [p \in R |-> From(D, sc, p, c)]
  <2>1. f \in Surjection(R, T)
      BY <1>3 DEF Surjection
  <2> HIDE DEF f
  <2>2. QED
      BY <1>1, <2>1, FS_Surjection
<1>6. Max(T) \in T /\ \A y \in T : y <= Max(T)
    BY <1>4, <1>5, MaxOfIntegers
<1>7. BestFrom(D, A, m, sc, c) = Max(T)
    BY DEF BestFrom, T
<1>8. QED
    BY <1>3, <1>4, <1>6, <1>7 DEF R

LEMMA BestIsANumber ==
    ASSUME NEW n \in Nat, NEW m \in Nat, NEW A, Dense(A, n, m), NEW sc, Splits(n, sc),
           NEW D, IsBest(D, A, m, sc)
    PROVE  D \in [A -> Int]
<1> DEFINE holds == {k \in Nat : \A c \in A : c <= k => D[c] \in Int}
<1>1. A \in SUBSET (0 .. n)
    BY DEF Dense
<1>2. \A c \in A : D[c] = BestFrom(D, A, m, sc, c)
    BY DEF IsBest
<1>3. 0 \in A => D[0] \in Int
    BY <1>2 DEF BestFrom
<1>4. 0 \in holds
    BY <1>1, <1>3
<1>5. ASSUME NEW k \in Nat, k \in holds PROVE k + 1 \in holds
  <2>1. ASSUME NEW c \in A, c = k + 1 PROVE D[c] \in Int
    <3>1. c \in A \ {0} /\ \A p \in A : p < c => D[p] \in Int
        BY <1>1, <1>5, <2>1
    <3>2. BestFrom(D, A, m, sc, c) \in Int
        BY <3>1, TotalsParts
    <3>3. QED
        BY <1>2, <3>2
  <2>2. \A c \in A : c <= k + 1 => c = k + 1 \/ c <= k
      BY <1>1
  <2>3. QED
      BY <1>5, <2>1, <2>2
<1>6. n \in holds
  <2> HIDE DEF holds
  <2>1. 0 .. n \subseteq holds
      BY <1>4, <1>5, CountingUp
  <2>2. QED
      BY <2>1
<1>7. \A c \in A : D[c] \in Int
    BY <1>1, <1>6
<1>8. D = [c \in A |-> D[c]]
    BY <1>2 DEF IsBest
<1>9. QED
    BY <1>7, <1>8

LEMMA BestExists ==
    ASSUME NEW n \in Nat, NEW m \in Nat, NEW A, Dense(A, n, m), NEW sc, Splits(n, sc)
    PROVE  \E D : IsBest(D, A, m, sc)
<1> DEFINE step == [x \in A \X [A -> Int] |-> BestFrom(x[2], A, m, sc, x[1])]
<1>1. A \in SUBSET (0 .. n)
    BY DEF Dense
<1>2. ASSUME NEW c \in A, NEW g \in [A -> Int] PROVE BestFrom(g, A, m, sc, c) \in Int
  <2>1. CASE c = 0
      BY <2>1 DEF BestFrom
  <2>2. CASE c # 0
      BY <2>2, TotalsParts
  <2>3. QED
      BY <2>1, <2>2
<1>3. \A c \in A, g \in [A -> Int] : step[<<c, g>>] = BestFrom(g, A, m, sc, c)
    OBVIOUS
<1>4. step \in [A \X [A -> Int] -> Int]
    BY <1>2
<1> HIDE DEF step
<1>5. ASSUME NEW c \in A, NEW g \in [A -> Int], NEW h \in [A -> Int], \A d \in A : d < c => g[d] = h[d]
      PROVE  step[<<c, g>>] = step[<<c, h>>]
  <2>1. \A p \in Reach(A, m, c) : From(g, sc, p, c) = From(h, sc, p, c)
      BY <1>5 DEF Reach, From
  <2>2. Totals(g, A, m, sc, c) = Totals(h, A, m, sc, c)
      BY <2>1 DEF Totals
  <2>3. QED
      BY <1>3, <2>2 DEF BestFrom
<1>6. Recurs(n, A, Int, step)
  <2>1. Int # {}
      OBVIOUS
  <2>2. QED
      BY <1>1, <1>4, <1>5, <2>1 DEF Recurs
<1>7. PICK g : RecursionOf(g, A, Int, step)
    BY <1>6, RecursionExists
<1>8. g = [c \in A |-> BestFrom(g, A, m, sc, c)]
    BY <1>3, <1>7 DEF RecursionOf
<1>9. QED
    BY <1>8 DEF IsBest

\* No beginning of the last segment is better than the nearest boundary.
LEMMA NearestIsBest ==
    ASSUME NEW n \in Nat, NEW m \in Nat, NEW A, Dense(A, n, m), NEW sc, Splits(n, sc),
           NEW D, IsBest(D, A, m, sc), NEW c \in A \ {0}
    PROVE  Nearest({p \in Reach(A, m, c) : From(D, sc, p, c) = D[c]}) = Max(Reach(A, m, c))
<1> DEFINE q == Max(Reach(A, m, c))
           best == {p \in Reach(A, m, c) : From(D, sc, p, c) = D[c]}
<1>1. /\ q \in Reach(A, m, c) /\ \A b \in A : b < c => b <= q
      /\ q \in A /\ q < c /\ A \in SUBSET (0 .. n)
  <2>1. q \in Reach(A, m, c) /\ \A b \in A : b < c => b <= q
      BY ReachParts
  <2> HIDE DEF q
  <2>2. QED
      BY <2>1 DEF Dense, Reach
<1>2. D \in [A -> Int] /\ \A d \in A : D[d] = BestFrom(D, A, m, sc, d)
    BY BestIsANumber DEF IsBest
<1>3. /\ \E p \in Reach(A, m, c) : D[c] = From(D, sc, p, c)
      /\ \A p \in Reach(A, m, c) : From(D, sc, p, c) <= D[c]
    BY <1>2, TotalsParts
<1> HIDE DEF q
<1>4. ASSUME NEW p \in Reach(A, m, c), p < q PROVE From(D, sc, p, c) <= From(D, sc, q, c)
  <2>1. p \in A /\ p \in Int /\ q \in Int /\ c \in Int /\ p < c /\ c - p <= m
      BY <1>1 DEF Reach
  <2>2. p \in Reach(A, m, q) /\ q \in A \ {0}
    <3>1. q - p <= m
        BY <1>1, <2>1
    <3>2. q # 0
        BY <1>1, <1>4, <2>1
    <3>3. QED
        BY <1>1, <1>4, <2>1, <3>1, <3>2 DEF Reach
  <2>3. From(D, sc, p, q) <= D[q]
      BY <1>2, <2>2, TotalsParts
  <2>4. p \in 0 .. n /\ q \in p .. n /\ c \in q .. n /\ c \in p .. n
      BY <1>1, <1>4, <2>1
  <2>5. sc[<<p, c>>] <= sc[<<p, q>>] + sc[<<q, c>>]
      BY <2>4 DEF Splits
  <2>6. sc[<<p, c>>] \in Int /\ sc[<<p, q>>] \in Int /\ sc[<<q, c>>] \in Int
    <3>1. q \in 0 .. n
        BY <1>1
    <3>2. QED
        BY <2>4, <3>1 DEF Splits
  <2>7. D[p] \in Int /\ D[q] \in Int
      BY <1>1, <1>2, <2>1
  <2>8. QED
      BY <2>3, <2>5, <2>6, <2>7 DEF From
<1>5. From(D, sc, q, c) = D[c]
  <2>1. PICK p \in Reach(A, m, c) : D[c] = From(D, sc, p, c)
      BY <1>3
  <2>2. p = q \/ p < q
    <3>1. p \in A /\ p < c /\ p \in Int /\ q \in Int /\ p <= q
        BY <1>1 DEF Reach
    <3>2. QED
        BY <3>1
  <2>3. CASE p < q
    <3>1. From(D, sc, p, c) <= From(D, sc, q, c) /\ From(D, sc, q, c) <= D[c]
        BY <1>1, <1>3, <1>4, <2>3
    <3>2. D[c] \in Int /\ From(D, sc, q, c) \in Int
      <4>1. q \in 0 .. n /\ c \in q .. n
          BY <1>1
      <4>2. sc[<<q, c>>] \in Int
          BY <4>1 DEF Splits
      <4>3. D[q] \in Int /\ D[c] \in Int
          BY <1>1, <1>2
      <4>4. QED
          BY <4>2, <4>3 DEF From
    <3>3. QED
        BY <2>1, <3>1, <3>2
  <2>4. QED
      BY <2>1, <2>2, <2>3
<1>6. q \in best /\ \A p \in best : q >= p
  <2>1. \A p \in best : p \in A /\ p < c
      BY DEF Reach
  <2>2. \A p \in best : p <= q /\ p \in Int /\ q \in Int
      BY <1>1, <2>1
  <2>3. QED
      BY <1>1, <1>5, <2>2
<1>7. q \in Int /\ \A p \in best : p \in Int
  <2>1. \A p \in best : p \in A
      BY DEF Reach
  <2>2. \A p \in A : p \in Int
      BY <1>1
  <2>3. QED
      BY <1>1, <2>1, <2>2
<1> HIDE DEF best
<1>8. Max(best) \in best /\ \A p \in best : Max(best) >= p
    BY <1>6 DEF Max
<1>9. Max(best) = q
  <2>1. Max(best) \in Int /\ Max(best) >= q /\ q >= Max(best)
      BY <1>6, <1>7, <1>8
  <2>2. QED
      BY <1>7, <2>1
<1>10. QED
    BY <1>9 DEF Nearest, best, q

\* So every candidate is a boundary.
Before(A, m, c) == Max(Reach(A, m, c))
PathStep(P, A, m, c) == IF c = 0 THEN {0} ELSE {c} \cup P[Before(A, m, c)]
IsPath(P, A, m) == P = [c \in A |-> PathStep(P, A, m, c)]

LEMMA PathExists ==
    ASSUME NEW n \in Nat, NEW m \in Nat, NEW A, Dense(A, n, m)
    PROVE  \E P : IsPath(P, A, m)
<1> DEFINE V == SUBSET (0 .. n)
           step == [x \in A \X [A -> V] |-> PathStep(x[2], A, m, x[1])]
<1>1. A \in SUBSET (0 .. n)
    BY DEF Dense
<1>2. ASSUME NEW c \in A \ {0} PROVE Before(A, m, c) \in A /\ Before(A, m, c) < c
    BY ReachParts DEF Before, Reach
<1>3. ASSUME NEW c \in A, NEW g \in [A -> V] PROVE PathStep(g, A, m, c) \in V
    BY <1>1, <1>2 DEF PathStep
<1>4. \A c \in A, g \in [A -> V] : step[<<c, g>>] = PathStep(g, A, m, c)
    OBVIOUS
<1>5. step \in [A \X [A -> V] -> V]
    BY <1>3
<1>6. {} \in V
    OBVIOUS
<1> HIDE DEF step, V
<1>7. ASSUME NEW c \in A, NEW g \in [A -> V], NEW h \in [A -> V], \A d \in A : d < c => g[d] = h[d]
      PROVE  step[<<c, g>>] = step[<<c, h>>]
    BY <1>2, <1>4, <1>7 DEF PathStep
<1>8. Recurs(n, A, V, step)
    BY <1>1, <1>5, <1>6, <1>7 DEF Recurs
<1>9. PICK g : RecursionOf(g, A, V, step)
    BY <1>8, RecursionExists
<1>10. g = [c \in A |-> PathStep(g, A, m, c)]
    BY <1>4, <1>9 DEF RecursionOf
<1>11. QED
    BY <1>10 DEF IsPath

LEMMA PathTakesAll ==
    ASSUME NEW n \in Nat, NEW m \in Nat, NEW A, Dense(A, n, m), NEW P, IsPath(P, A, m)
    PROVE  P[n] = A
<1> DEFINE upTo(c) == {p \in A : p <= c}
           holds == {k \in Nat : \A c \in A : c <= k => P[c] = upTo(c)}
<1>1. A \in SUBSET (0 .. n) /\ 0 \in A /\ n \in A
    BY DEF Dense
<1>2. \A c \in A : P[c] = PathStep(P, A, m, c)
    BY DEF IsPath
<1>3. \A c \in A : c \in 0 .. n
    BY <1>1
<1>4. 0 \in holds
  <2>1. upTo(0) = {0}
    <3>1. \A p \in A : p <= 0 <=> p = 0
        BY <1>3
    <3>2. QED
        BY <1>1, <3>1
  <2>2. P[0] = {0}
      BY <1>1, <1>2 DEF PathStep
  <2>3. \A c \in A : c <= 0 => c = 0
      BY <1>3
  <2> HIDE DEF upTo
  <2>4. QED
      BY <2>1, <2>2, <2>3
<1>5. ASSUME NEW k \in Nat, k \in holds PROVE k + 1 \in holds
  <2>1. ASSUME NEW c \in A, c = k + 1 PROVE P[c] = upTo(c)
    <3> DEFINE q == Before(A, m, c)
    <3>1. c \in A \ {0}
        BY <2>1
    <3>2. q \in Reach(A, m, c) /\ \A b \in A : b < c => b <= q
        BY <3>1, ReachParts DEF Before
    <3> HIDE DEF q
    <3>3. q \in A /\ q < c /\ q <= k
        BY <1>3, <2>1, <3>2 DEF Reach
    <3>4. P[q] = upTo(q)
        BY <1>5, <3>3
    <3>5. P[c] = {c} \cup upTo(q)
        BY <1>2, <3>1, <3>4 DEF PathStep, q
    <3>6. \A p \in A : p <= c <=> p = c \/ p <= q
        BY <1>3, <3>2, <3>3
    <3>7. QED
        BY <3>5, <3>6
  <2>2. \A c \in A : c <= k + 1 => c = k + 1 \/ c <= k
      BY <1>3
  <2> HIDE DEF upTo
  <2>3. QED
      BY <1>5, <2>1, <2>2
<1>6. n \in holds
  <2> HIDE DEF holds
  <2>1. 0 .. n \subseteq holds
      BY <1>4, <1>5, CountingUp
  <2>2. QED
      BY <2>1
<1>7. P[n] = upTo(n)
    BY <1>1, <1>6
<1>8. QED
    BY <1>3, <1>7

LEMMA EveryCandidateIsCut ==
    ASSUME NEW t, NEW n, IsText(t, n), n = Length(t.vectors), NEW lvl, IsLevel(lvl),
           NEW valleys \in SUBSET Int
    PROVE  segment_dp(t, valleys, lvl) = Candidates(valleys, n, lvl.max_len)
<1> DEFINE m == lvl.max_len
           A == Candidates(valleys, n, m)
           sc == ScoresOf(t, lvl, n)
           reach(c) == {p \in A : p < c /\ c - p <= m}
           dpOf(f) == f = [c \in A |-> IF c = 0 THEN 0
                                       ELSE Max({f[p] + Score(t, lvl, p, c) : p \in reach(c)})]
           dp == CHOOSE f : dpOf(f)
           backtrack(c) == Nearest({p \in reach(c) : dp[p] + Score(t, lvl, p, c) = dp[c]})
           pathOf(f) == f = [c \in A |-> IF c = 0 THEN {0} ELSE {c} \cup f[backtrack(c)]]
           path == CHOOSE f : pathOf(f)
<1>1. segment_dp(t, valleys, lvl) = path[n]
    BY DEF segment_dp
<1>2. n \in Nat /\ m \in Nat \ {0} /\ Dense(A, n, m) /\ Splits(n, sc)
    BY CandidatesAreDense, ScoresSplit DEF IsText, IsLevel
<1>3. A \in SUBSET (0 .. n)
    BY <1>2 DEF Dense
<1>4. \A p, c \in A : sc[<<p, c>>] = Score(t, lvl, p, c)
    BY <1>3 DEF ScoresOf
<1>5. \A c : reach(c) = Reach(A, m, c)
    BY DEF Reach
<1> HIDE DEF A, m, sc, path, dp, reach
<1>6. \A c \in A : \A p \in reach(c) : \A f : f[p] + Score(t, lvl, p, c) = From(f, sc, p, c)
    BY <1>4, <1>5 DEF Reach, From
<1>7. \A f : dpOf(f) <=> IsBest(f, A, m, sc)
  <2>1. ASSUME NEW f, NEW c \in A
        PROVE  (IF c = 0 THEN 0 ELSE Max({f[p] + Score(t, lvl, p, c) : p \in reach(c)}))
                 = BestFrom(f, A, m, sc, c)
    <3>1. {f[p] + Score(t, lvl, p, c) : p \in reach(c)} = Totals(f, A, m, sc, c)
        BY <1>5, <1>6 DEF Totals
    <3>2. QED
        BY <3>1 DEF BestFrom
  <2>2. QED
      BY <2>1 DEF IsBest
<1>8. IsBest(dp, A, m, sc)
  <2>1. \E f : dpOf(f)
    <3>1. \E f : IsBest(f, A, m, sc)
        BY <1>2, BestExists
    <3> HIDE DEF dpOf
    <3>2. QED
        BY <1>7, <3>1
  <2>2. dpOf(dp)
      BY <2>1 DEF dp
  <2>3. QED
      BY <1>7, <2>2
<1>9. ASSUME NEW c \in A, c # 0 PROVE backtrack(c) = Before(A, m, c)
  <2>1. {p \in reach(c) : dp[p] + Score(t, lvl, p, c) = dp[c]}
          = {p \in Reach(A, m, c) : From(dp, sc, p, c) = dp[c]}
      BY <1>5, <1>6
  <2>2. QED
      BY <1>2, <1>8, <1>9, <2>1, NearestIsBest DEF Before
<1> HIDE DEF backtrack
<1>10. \A f : pathOf(f) <=> IsPath(f, A, m)
  <2>1. ASSUME NEW f, NEW c \in A
        PROVE  (IF c = 0 THEN {0} ELSE {c} \cup f[backtrack(c)]) = PathStep(f, A, m, c)
      BY <1>9 DEF PathStep
  <2>2. QED
      BY <2>1 DEF IsPath
<1>11. IsPath(path, A, m)
  <2>1. \E f : pathOf(f)
      BY <1>2, <1>10, PathExists
  <2>2. pathOf(path)
      BY <2>1 DEF path
  <2>3. QED
      BY <1>10, <2>2
<1>12. path[n] = A
    BY <1>2, <1>11, PathTakesAll
<1>13. QED
    BY <1>1, <1>12 DEF A, m

\* What the segments of a tiling score together.
Scored(sc, B) == SumFunctionOnSet(sc, Steps(B))
Tiling(B, n) == B \in SUBSET (0 .. n) /\ 0 \in B /\ n \in B

LEMMA StepsAreScored ==
    ASSUME NEW n \in Nat, NEW B \in SUBSET (0 .. n), NEW sc, Splits(n, sc)
    PROVE  /\ IsFiniteSet(Steps(B)) /\ \A s \in Steps(B) : sc[s] \in Int
           /\ \A s \in Steps(B) : s \in B \X B /\ s = <<s[1], s[2]>> /\ s[1] < s[2]
<1>1. IsFiniteSet(Steps(B))
  <2>1. IsFiniteSet(B)
    <3>1. IsFiniteSet(0 .. n)
        BY FS_Interval
    <3>2. QED
        BY <3>1, FS_Subset
  <2>2. IsFiniteSet(B \X B)
      BY <2>1, FS_Product
  <2>3. Steps(B) \in SUBSET (B \X B)
      BY DEF Steps
  <2>4. QED
      BY <2>2, <2>3, FS_Subset
<1>2. ASSUME NEW s \in Steps(B) PROVE s \in B \X B /\ s = <<s[1], s[2]>> /\ s[1] < s[2]
    BY DEF Steps
<1>3. ASSUME NEW s \in Steps(B) PROVE sc[s] \in Int
  <2>1. s[1] \in 0 .. n /\ s[2] \in 0 .. n /\ s[1] < s[2] /\ s = <<s[1], s[2]>>
      BY <1>2
  <2>2. s[2] \in s[1] .. n
      BY <2>1
  <2>3. sc[<<s[1], s[2]>>] \in Int
      BY <2>1, <2>2 DEF Splits
  <2>4. QED
      BY <2>1, <2>3
<1>4. QED
    BY <1>1, <1>2, <1>3

\* A new boundary lies between two neighbours.
Neighbours(p, x, c, B) ==
    /\ p \in B /\ c \in B /\ p < x /\ x < c
    /\ \A b \in B : b <= p \/ c <= b
LEMMA NeighboursExist ==
    ASSUME NEW n \in Nat, NEW B, Tiling(B, n), NEW x \in (0 .. n) \ B
    PROVE  \E p, c : Neighbours(p, x, c, B)
<1> DEFINE below == {b \in B : b < x}
           above == {b \in B : x < b}
<1>1. B \in SUBSET (0 .. n) /\ 0 \in B /\ n \in B /\ x \in 0 .. n /\ x \notin B
    BY DEF Tiling
<1>2. 0 < x /\ x < n /\ \A b \in B : b \in 0 .. n /\ b \in Int /\ b \in Nat
    BY <1>1
<1>3. PICK p \in below : \A b \in below : b <= p
  <2>1. below \in SUBSET Int /\ 0 \in below
      BY <1>1, <1>2
  <2>2. IsFiniteSet(below)
    <3>1. IsFiniteSet(0 .. n)
        BY FS_Interval
    <3>2. below \in SUBSET (0 .. n)
        BY <1>2
    <3> HIDE DEF below
    <3>3. QED
        BY <3>1, <3>2, FS_Subset
  <2> HIDE DEF below
  <2>3. QED
      BY <2>1, <2>2, MaxOfIntegers
<1>4. PICK c \in above : \A b \in above : c <= b
  <2>1. above \in SUBSET Nat /\ n \in above
      BY <1>1, <1>2
  <2> HIDE DEF above
  <2>2. QED
      BY <2>1, LeastNatural
<1>5. \A b \in B : b \in below \/ b \in above
    BY <1>1
<1>6. Neighbours(p, x, c, B)
    BY <1>3, <1>4, <1>5 DEF Neighbours
<1>7. QED
    BY <1>6

StepSplit(p, x, c, B) ==
    /\ <<p, c>> \in Steps(B)
    /\ Steps(B \cup {x}) = (Steps(B) \ {<<p, c>>}) \cup {<<p, x>>, <<x, c>>}
LEMMA StepsSplit ==
    ASSUME NEW n \in Nat, NEW B \in SUBSET (0 .. n), NEW x \in (0 .. n) \ B,
           NEW p, NEW c, Neighbours(p, x, c, B)
    PROVE  StepSplit(p, x, c, B)
<1>1. /\ p \in B /\ c \in B /\ p \in 0 .. n /\ c \in 0 .. n /\ x \in 0 .. n /\ p < x /\ x < c
      /\ \A b \in B : b <= p \/ c <= b
      /\ \A b \in B : b \in 0 .. n /\ b # x
    BY DEF Neighbours
<1> DEFINE C == B \cup {x}
           IsStep(a, b, S) == a \in S /\ b \in S /\ a < b /\ ~\E d \in S : a < d /\ d < b
<1>2. \A S : \A s : s \in Steps(S) <=> s \in S \X S /\ IsStep(s[1], s[2], S)
    BY DEF Steps
<1>3. IsStep(p, c, B)
    BY <1>1
<1>4. IsStep(p, x, C) /\ IsStep(x, c, C)
    BY <1>1
<1>5. ASSUME NEW a \in B, NEW b \in B PROVE IsStep(a, b, C) <=> IsStep(a, b, B) /\ ~(a = p /\ b = c)
  <2>1. IsStep(a, b, C) <=> IsStep(a, b, B) /\ ~(a < x /\ x < b)
      OBVIOUS
  <2>2. IsStep(a, b, B) => ((a < x /\ x < b) <=> (a = p /\ b = c))
      BY <1>1
  <2>3. QED
      BY <2>1, <2>2
<1>6. ASSUME NEW a \in B PROVE IsStep(a, x, C) <=> a = p
    BY <1>1
<1>7. ASSUME NEW b \in B PROVE IsStep(x, b, C) <=> b = c
    BY <1>1
<1>8. ~IsStep(x, x, C)
    BY <1>1
<1>9. <<p, c>> \in Steps(B)
    BY <1>1, <1>2, <1>3
<1> HIDE DEF IsStep
<1>10. ASSUME NEW a \in C, NEW b \in C
       PROVE  <<a, b>> \in Steps(C) <=> <<a, b>> \in (Steps(B) \ {<<p, c>>}) \cup {<<p, x>>, <<x, c>>}
  <2>1. <<a, b>> \in Steps(C) <=> IsStep(a, b, C)
      BY <1>2
  <2>2. <<a, b>> \in Steps(B) <=> a \in B /\ b \in B /\ IsStep(a, b, B)
      BY <1>2
  <2>3. CASE a \in B /\ b \in B
      BY <1>1, <1>5, <2>1, <2>2, <2>3
  <2>4. CASE a \in B /\ b = x
      BY <1>1, <1>6, <2>1, <2>2, <2>4
  <2>5. CASE a = x /\ b \in B
      BY <1>1, <1>7, <2>1, <2>2, <2>5
  <2>6. CASE a = x /\ b = x
      BY <1>1, <1>8, <2>1, <2>2, <2>6
  <2>7. QED
      BY <2>3, <2>4, <2>5, <2>6
<1>11. Steps(C) = (Steps(B) \ {<<p, c>>}) \cup {<<p, x>>, <<x, c>>}
  <2> DEFINE T == (Steps(B) \ {<<p, c>>}) \cup {<<p, x>>, <<x, c>>}
  <2>1. \A s \in Steps(C) : s \in C \X C
      BY <1>2
  <2>2. \A s \in T : s \in C \X C
      BY <1>1, <1>2
  <2>3. ASSUME NEW s \in C \X C PROVE s \in Steps(C) <=> s \in T
    <3>1. s = <<s[1], s[2]>> /\ s[1] \in C /\ s[2] \in C
      <4> HIDE DEF C
      <4>1. QED
          BY <2>3
    <3>2. <<s[1], s[2]>> \in Steps(C) <=> <<s[1], s[2]>> \in T
        BY <1>10, <3>1 DEF T
    <3> HIDE DEF C, T
    <3>3. QED
        BY <3>1, <3>2
  <2> HIDE DEF T, C
  <2>4. Steps(C) = T
      BY <2>1, <2>2, <2>3
  <2>5. QED
      BY <2>4 DEF T
<1>12. QED
    BY <1>9, <1>11 DEF StepSplit

\* One more boundary never lowers the score.
LEMMA OneMoreCut ==
    ASSUME NEW n \in Nat, NEW B, Tiling(B, n), NEW sc, Splits(n, sc), NEW x \in (0 .. n) \ B
    PROVE  Scored(sc, B) <= Scored(sc, B \cup {x})
<1>1. PICK p, c : Neighbours(p, x, c, B)
    BY NeighboursExist
<1>2. B \in SUBSET (0 .. n) /\ B \cup {x} \in SUBSET (0 .. n)
    BY DEF Tiling
<1> DEFINE S == Steps(B)
           T == Steps(B \cup {x})
           R == S \ {<<p, c>>}
           U == T \ {<<p, x>>}
           sum(s) == SumFunctionOnSet(sc, s)
<1>3. <<p, c>> \in S /\ T = R \cup {<<p, x>>, <<x, c>>}
  <2>1. StepSplit(p, x, c, B)
      BY <1>1, <1>2, StepsSplit
  <2>2. QED
      BY <2>1 DEF StepSplit
<1>4. /\ IsFiniteSet(S) /\ \A s \in S : sc[s] \in Int /\ s \in B \X B
      /\ IsFiniteSet(T) /\ \A s \in T : sc[s] \in Int
    BY <1>2, StepsAreScored
<1>5. p \in 0 .. n /\ c \in 0 .. n /\ p < x /\ x < c /\ x \notin B
    BY <1>1, <1>2 DEF Neighbours
<1>6. sc[<<p, c>>] <= sc[<<p, x>>] + sc[<<x, c>>]
  <2>1. x \in p .. n /\ c \in x .. n
      BY <1>5
  <2>2. QED
      BY <1>5, <2>1 DEF Splits
<1> HIDE DEF S, T
<1>7. /\ IsFiniteSet(R) /\ (\A s \in R : sc[s] \in Int)
      /\ IsFiniteSet(U) /\ (\A s \in U : sc[s] \in Int)
    BY <1>4, FS_RemoveElement, FS_Subset
<1>8. <<p, x>> \in T /\ <<x, c>> \in U /\ U \ {<<x, c>>} = R
  <2>1. <<p, x>> # <<x, c>>
      BY <1>5
  <2>2. <<p, x>> \notin S /\ <<x, c>> \notin S
      BY <1>4, <1>5
  <2>3. QED
      BY <1>3, <2>1, <2>2
<1>9. sum(S) = sc[<<p, c>>] + sum(R)
    BY <1>3, <1>4, SumTakesOut
<1>10. sum(T) = sc[<<p, x>>] + sum(U)
    BY <1>4, <1>8, SumTakesOut
<1>11. sum(U) = sc[<<x, c>>] + sum(R)
  <2> HIDE DEF R, U
  <2>1. sum(U) = sc[<<x, c>>] + sum(U \ {<<x, c>>})
      BY <1>7, <1>8, SumTakesOut
  <2>2. QED
      BY <1>8, <2>1
<1>12. sum(R) \in Int /\ sc[<<p, c>>] \in Int /\ sc[<<p, x>>] \in Int /\ sc[<<x, c>>] \in Int
  <2>1. sum(R) \in Int
    <3> HIDE DEF R
    <3>1. QED
        BY <1>7, SumIsANumber
  <2>2. QED
      BY <1>3, <1>4, <1>8, <2>1
<1> HIDE DEF R, U, sum
<1>13. sum(S) <= sum(T)
    BY <1>6, <1>9, <1>10, <1>11, <1>12
<1>14. QED
    BY <1>13 DEF Scored, sum, S, T

\* So no tiling scores more than one that has all its boundaries and more.
LEMMA MoreCuts ==
    ASSUME NEW n \in Nat, NEW B, Tiling(B, n), NEW sc, Splits(n, sc), NEW A \in SUBSET (0 .. n), B \subseteq A
    PROVE  Scored(sc, B) <= Scored(sc, A)
<1> DEFINE D == A \ B
           holds == {s \in SUBSET D : Scored(sc, B) <= Scored(sc, B \cup s)}
<1>1. ASSUME NEW s \in SUBSET D PROVE Tiling(B \cup s, n) /\ Scored(sc, B \cup s) \in Int
  <2>1. Tiling(B \cup s, n)
      BY DEF Tiling
  <2>2. IsFiniteSet(Steps(B \cup s)) /\ \A x \in Steps(B \cup s) : sc[x] \in Int
      BY <2>1, StepsAreScored DEF Tiling
  <2>3. QED
      BY <2>1, <2>2, SumIsANumber DEF Scored
<1>2. {} \in SUBSET D /\ B \cup {} = B
    OBVIOUS
<1>3. Scored(sc, B) \in Int
  <2> HIDE DEF D
  <2>1. QED
      BY <1>1, <1>2
<1>4. {} \in holds
    BY <1>2, <1>3
<1>5. ASSUME NEW s \in SUBSET D, s # {}, \A x \in s : s \ {x} \in holds PROVE s \in holds
  <2>1. PICK x \in s : TRUE
      BY <1>5
  <2> DEFINE r == s \ {x}
  <2>2. r \in SUBSET D /\ r \in holds /\ x \in (0 .. n) \ (B \cup r) /\ (B \cup r) \cup {x} = B \cup s
      BY <1>5, <2>1
  <2> HIDE DEF D, r
  <2>3. Tiling(B \cup r, n) /\ Scored(sc, B \cup r) \in Int /\ Scored(sc, B \cup s) \in Int
      BY <1>1, <2>2
  <2>4. Scored(sc, B \cup r) <= Scored(sc, (B \cup r) \cup {x})
      BY <2>2, <2>3, OneMoreCut
  <2>5. Scored(sc, B) <= Scored(sc, B \cup r)
      BY <2>2
  <2>6. Scored(sc, B) <= Scored(sc, B \cup s)
      BY <1>3, <2>2, <2>3, <2>4, <2>5
  <2>7. QED
      BY <2>6
<1>6. D \in holds
  <2>1. IsFiniteSet(D)
    <3>1. IsFiniteSet(0 .. n) /\ D \in SUBSET (0 .. n)
        BY FS_Interval
    <3> HIDE DEF D
    <3>2. QED
        BY <3>1, FS_Subset
  <2> HIDE DEF holds, D
  <2>2. SUBSET D \subseteq holds
      BY <1>4, <1>5, <2>1, SubsetsByOne
  <2>3. QED
      BY <2>2
<1>7. B \cup D = A
    OBVIOUS
<1>8. QED
    BY <1>6, <1>7

\* What the segmenter keeps: it cuts one document by one policy, and holds
\* nothing or what segment_document_levels gives.
SegmenterInv ==
    /\ text \in EmbeddedText /\ policy \in Policies
    /\ spans = <<>> \/ spans = segment_document_levels(text, policy)

LEMMA WholeTexts ==
    ASSUME NEW t \in EmbeddedText
    PROVE  IsText(t, Length(t.vectors))
BY TextsAreTexts DEF IsText

LEMMA ValleysAreNumbers == \A t : Valleys(t) \in SUBSET Int
<1>1. \A k \in Int : \A i \in 1 .. k : i \in Int
    OBVIOUS
<1>2. \A s : find_valleys(s) \in SUBSET (1 .. Length(s) - 2)
    BY DEF find_valleys
<1>3. \A a, b : a .. b \in SUBSET Int
    OBVIOUS
<1>4. QED
    BY <1>2, <1>3 DEF Valleys

\* The total of a tiling is what its segments score together.
LEMMA TotalsAreScores ==
    ASSUME NEW t, NEW n, IsText(t, n), NEW lvl, IsLevel(lvl), NEW B \in SUBSET (0 .. n)
    PROVE  Total(t, lvl, B) = Scored(ScoresOf(t, lvl, n), B)
<1> DEFINE sc == ScoresOf(t, lvl, n)
           f == [s \in Steps(B) |-> Score(t, lvl, s[1], s[2])]
<1>1. n \in Nat /\ Splits(n, sc)
    BY ScoresSplit DEF IsText
<1>2. /\ IsFiniteSet(Steps(B)) /\ \A s \in Steps(B) : sc[s] \in Int
      /\ \A s \in Steps(B) : s \in B \X B
    BY <1>1, StepsAreScored
<1>3. \A s \in Steps(B) : f[s] = sc[s]
  <2>1. \A s \in Steps(B) : s \in (0 .. n) \X (0 .. n)
      BY <1>2
  <2>2. QED
      BY <2>1 DEF ScoresOf
<1>4. Total(t, lvl, B) = SumFunctionOnSet(f, Steps(B))
    BY DEF Total, SumFunction
<1> HIDE DEF f, sc
<1>5. SumFunctionOnSet(sc, Steps(B)) = SumFunctionOnSet(f, Steps(B))
    BY <1>2, <1>3, SumAgrees
<1>6. QED
    BY <1>4, <1>5 DEF Scored, sc

\* The candidate boundaries tile the document in segments that fit, and no
\* tiling over them scores higher.
LEMMA CandidatesAreBest ==
    ASSUME NEW t, NEW n, IsText(t, n), NEW lvl, IsLevel(lvl), NEW A, Dense(A, n, lvl.max_len)
    PROVE  /\ {0, n} \subseteq A /\ Fits(A, lvl)
           /\ \A B \in {X \cup {0, n} : X \in SUBSET A} : Total(t, lvl, B) <= Total(t, lvl, A)
<1>1. A \in SUBSET (0 .. n) /\ 0 \in A /\ n \in A /\ n \in Nat
    BY DEF Dense, IsText
<1>2. ASSUME NEW s \in Steps(A) PROVE s[2] - s[1] <= lvl.max_len
  <2>1. s[1] \in A /\ s[2] \in A /\ s[1] < s[2] /\ ~\E b \in A : s[1] < b /\ b < s[2]
      BY DEF Steps
  <2>2. s[1] \in 0 .. n /\ s[2] \in 1 .. n
    <3>1. s[1] \in 0 .. n /\ s[2] \in 0 .. n
        BY <1>1, <2>1
    <3>2. \A a, b \in 0 .. n : a < b => b \in 1 .. n
        BY <1>1
    <3>3. QED
        BY <2>1, <3>1, <3>2
  <2>3. PICK p \in A : p < s[2] /\ s[2] - p <= lvl.max_len
      BY <2>2 DEF Dense
  <2>4. p <= s[1] /\ p \in 0 .. n
      BY <1>1, <2>1, <2>2, <2>3
  <2>5. QED
      BY <2>2, <2>3, <2>4 DEF IsLevel
<1>3. ASSUME NEW X \in SUBSET A PROVE Total(t, lvl, X \cup {0, n}) <= Total(t, lvl, A)
  <2> DEFINE B == X \cup {0, n}
             sc == ScoresOf(t, lvl, n)
  <2>1. Tiling(B, n) /\ B \subseteq A /\ B \in SUBSET (0 .. n)
      BY <1>1 DEF Tiling
  <2> HIDE DEF B
  <2>2. Splits(n, sc)
      BY ScoresSplit
  <2>3. Total(t, lvl, B) = Scored(sc, B) /\ Total(t, lvl, A) = Scored(sc, A)
      BY <1>1, <2>1, TotalsAreScores
  <2>4. Scored(sc, B) <= Scored(sc, A)
    <3> HIDE DEF sc
    <3>1. QED
        BY <1>1, <2>1, <2>2, MoreCuts
  <2>5. QED
      BY <2>3, <2>4 DEF B
<1>4. QED
    BY <1>1, <1>2, <1>3 DEF Fits

\* Whatever the embedder makes of a document and whatever the levels ask, each
\* level tiles the document in segments that fit, no tiling over its candidate
\* boundaries scores higher, and every candidate is a boundary (segment_dp and
\* segment_document_levels).
THEOREM SegmentsAreTheBest == SegmenterSpec => []SegmentsAreOptimal
<1>1. SegmenterInit => SegmenterInv
    BY DEF SegmenterInit, SegmenterInv
<1>2. SegmenterInv /\ [Segment]_segmenterVars => SegmenterInv'
    BY DEF SegmenterInv, Segment, segmenterVars
<1>3. SegmenterInv => SegmentsAreOptimal
  <2> DEFINE n == Length(text.vectors)
             all(lvl) == Candidates(Valleys(text), n, lvl.max_len)
             Optimal(lvl) ==
                 \/ n = 0
                 \/ Silent(text) /\ spans[lvl] = {0, n}
                 \/ /\ {0, n} \subseteq spans[lvl] /\ Fits(spans[lvl], lvl)
                    /\ \A B \in {X \cup {0, n} : X \in SUBSET all(lvl)} :
                         Fits(B, lvl) => Total(text, lvl, B) <= Total(text, lvl, spans[lvl])
                    /\ spans[lvl] = all(lvl)
  <2>1. SUFFICES ASSUME SegmenterInv, NEW lvl \in DOMAIN spans PROVE Optimal(lvl)
      BY DEF SegmentsAreOptimal
  <2>2. CASE spans = <<>>
      BY <2>1, <2>2
  <2>3. CASE n = 0
      BY <2>3
  <2>4. CASE n # 0 /\ spans = segment_document_levels(text, policy) /\ Silent(text)
    <3>1. spans[lvl] = {0, n}
        BY <2>1, <2>4 DEF segment_document_levels
    <3>2. QED
        BY <2>4, <3>1
  <2>5. CASE n # 0 /\ spans = segment_document_levels(text, policy) /\ ~Silent(text)
    <3>1. lvl \in policy /\ spans[lvl] = segment_dp(text, Valleys(text), lvl)
        BY <2>1, <2>5 DEF segment_document_levels
    <3>2. IsText(text, n) /\ IsLevel(lvl) /\ Valleys(text) \in SUBSET Int
        BY <2>1, <3>1, WholeTexts, LevelsAreLevels, ValleysAreNumbers DEF SegmenterInv, IsLevel
    <3>3. spans[lvl] = all(lvl)
        BY <3>1, <3>2, EveryCandidateIsCut
    <3>4. Dense(all(lvl), n, lvl.max_len)
        BY <3>2, CandidatesAreDense DEF IsText, IsLevel
    <3> HIDE DEF all, n
    <3>5. /\ {0, n} \subseteq all(lvl) /\ Fits(all(lvl), lvl)
          /\ \A B \in {X \cup {0, n} : X \in SUBSET all(lvl)} :
                Total(text, lvl, B) <= Total(text, lvl, all(lvl))
        BY <3>2, <3>4, CandidatesAreBest
    <3>6. QED
        BY <3>3, <3>5
  <2>6. QED
      BY <2>1, <2>2, <2>3, <2>4, <2>5 DEF SegmenterInv
<1>4. QED
    BY <1>1, <1>2, <1>3, PTL DEF SegmenterSpec

=============================================================================
