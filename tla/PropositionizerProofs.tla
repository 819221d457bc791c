------------------------ MODULE PropositionizerProofs ------------------------
(***************************************************************************)
(* What the propositionizer keeps true of its store, for every number of   *)
(* workers, documents, spans, pipelines and verifiers, as long as runs at  *)
(* work at the same time are of documents without a common span.  The box  *)
(* lock of the job queue is what keeps them so (JobQueueProofs).  And what *)
(* an extraction by several samples makes of them, for every number of     *)
(* samples and all they may answer (Consistency).                          *)
(***************************************************************************)
EXTENDS Propositionizer, Consistency, Counting, SequenceTheorems

\* Hypotheses on the runs at work.
RunsApart ==
    \A w, u \in Worker : w # u =>
        \A i \in DOMAIN run[w].spans, j \in DOMAIN run[u].spans : run[w].spans[i] # run[u].spans[j]

\* ... and, for reuse, no passage is being extracted twice.
PassagesApart ==
    \A w, u \in Worker : \A i \in DOMAIN run[w].spans, j \in DOMAIN run[u].spans :
        w # u \/ i # j => Passage[run[w].spans[i]] # Passage[run[u].spans[j]]

-----------------------------------------------------------------------------
(* The invariant. *)

RunRecord(Plan, Loaded) ==
    [pc : {"idle", "filter", "persist", "backfill", "verify", "report"},
     spans : {<<>>} \cup {SpansOf[d] : d \in Document},
     extractor : Extractor \cup {Null}, verifier : Sig, i : Nat \ {0},
     plan : Plan, loaded : Loaded, clean : BOOLEAN]

WellShaped(r) ==
    /\ r \in RunRecord({r.plan}, {r.loaded})
    /\ DOMAIN r.plan = DOMAIN r.spans
    /\ r.pc # "idle" => r.extractor \in Extractor
    /\ r.pc = "verify" => r.i \in DOMAIN r.spans

RunsTyped ==
    /\ deployed \in Deployment
    /\ \E Runs : run \in [Worker -> Runs]
    /\ \A w \in Worker : WellShaped(run[w])

\* Every Action is about one span; an extraction under a pipeline that is
\* configured; and its propositions are of a generation already minted.
IsLog == \E S : log \in Seq(S)
Accounted(a) ==
    /\ a.span \in Span
    /\ a.actor = "propositionizer" => \E x \in Extractor : a.hash = _pipeline_hash(a.span, x)
    /\ \A p \in a.props : p.span = a.span /\ p.gen \in 0 .. Cardinality(Extractions(a.span)) - 1
LogInv == IsLog /\ \A i \in DOMAIN log : Accounted(log[i])

\* A run that is to write a span knows whether there is something to purge,
\* and the span's newest extraction is of another pipeline; once written, or
\* found so, it is of the run's own.
Pending(entry) == entry.kind \in {"infer", "replay"}
PendingOf(w) ==
    \A i \in DOMAIN run[w].plan :
        Pending(run[w].plan[i]) =>
            /\ run[w].plan[i].stale <=> Extractions(run[w].spans[i]) # {}
            /\ _extracted_hash(run[w].spans[i]) # _pipeline_hash(run[w].spans[i], run[w].extractor)
DoneOf(w) ==
    \A i \in DOMAIN run[w].plan :
        run[w].plan[i].kind = "done" =>
            _extracted_hash(run[w].spans[i]) = _pipeline_hash(run[w].spans[i], run[w].extractor)

\* A backfill that waits for the verifier holds the propositions of the span.
LoadedOf(w) == run[w].pc = "verify" => run[w].loaded = On(run[w].spans[run[w].i])

RunOf(w) == PendingOf(w) /\ DoneOf(w) /\ LoadedOf(w)
StoreInv == LogInv /\ OneGeneration /\ NeverReextracted
Inv == RunsTyped /\ StoreInv /\ \A w \in Worker : RunOf(w)

\* What a verify identity and a report say, without reuse.
Unsigned(s) == Extractions(s) # {} => Newest(Extractions(s)).sig = Null
Assessed(s) ==
    _span_verify_identity(s) # Null => \A p \in On(s) : faith[p] = _span_verify_identity(s)
Behind(r, i) == r.pc = "report" \/ (r.pc \in {"backfill", "verify"} /\ i < r.i)
AssessedOf(w) ==
    /\ \A i \in DOMAIN run[w].plan : run[w].plan[i].kind # "replay"
    /\ run[w].pc \in {"backfill", "verify"} => run[w].verifier # Null
    /\ run[w].verifier # Null /\ run[w].clean =>
         \A i \in DOMAIN run[w].spans : Behind(run[w], i) =>
             \A p \in On(run[w].spans[i]) : faith[p] = run[w].verifier
ScoreInv ==
    ~deployed.reuse_extractions =>
        /\ \A s \in Span : Unsigned(s) /\ Assessed(s)
        /\ \A w \in Worker : AssessedOf(w)

\* Nothing is purged where stale spans are refused.
NothingStale(w) ==
    \A i \in DOMAIN run[w].plan : Pending(run[w].plan[i]) => ~run[w].plan[i].stale
StandingInv ==
    ~deployed.cascade_reextract =>
        /\ \A w \in Worker : NothingStale(w)
        /\ extracting # Null => extracting \in Live
        /\ \A p \in DOMAIN facts : facts[p]

\* With reuse: what waits for the extractor is extracted nowhere, what is to
\* be replayed has the claims of every extraction under its hash.
ClaimsOf(a) == {p.claim : p \in a.props}
CachedOf(w) ==
    \A i \in DOMAIN run[w].plan :
        LET h == _pipeline_hash(run[w].spans[i], run[w].extractor) IN
        /\ run[w].plan[i].kind = "infer" => WithHash(h) = {}
        /\ run[w].plan[i].kind = "replay" =>
             \A k \in WithHash(h) : ClaimsOf(log[k]) = DOMAIN run[w].plan[i].cached.claims
CachedInv ==
    deployed.reuse_extractions =>
        /\ \A w \in Worker : CachedOf(w)
        /\ \A i \in DOMAIN log : log[i].props \subseteq Live

-----------------------------------------------------------------------------
(* The log only grows. *)

\* Actions are numbered from 1, and the newest of some Actions is one of them.
LEMMA LogNumbers ==
    ASSUME IsLog
    PROVE  Len(log) \in Nat /\ DOMAIN log = 1 .. Len(log)
BY DEF IsLog

LEMMA NewestExists ==
    ASSUME IsLog, NEW entries \in SUBSET DOMAIN log
    PROVE  /\ entries \in SUBSET Nat /\ IsFiniteSet(entries) /\ Cardinality(entries) \in Nat
           /\ entries # {} => Max(entries) \in entries /\ \A k \in entries : k <= Max(entries)
<1>1. Len(log) \in Nat /\ DOMAIN log = 1 .. Len(log)
    BY LogNumbers
<1>2. IsFiniteSet(1 .. Len(log))
    BY <1>1, FS_Interval
<1>3. entries \in SUBSET Nat /\ IsFiniteSet(entries)
    BY <1>1, <1>2, FS_Subset
<1>4. QED
    BY <1>3, MaxIsLargest, FS_CardinalityType

LEMMA NewestEntry ==
    ASSUME IsLog, NEW actor, NEW s, Entries(actor, s) # {}
    PROVE  \E i \in DOMAIN log : /\ Newest(Entries(actor, s)) = log[i]
                                  /\ i = Max(Entries(actor, s)) /\ i \in Entries(actor, s)
                                  /\ log[i].actor = actor /\ log[i].span = s
<1>1. Entries(actor, s) \in SUBSET DOMAIN log
    BY DEF Entries
<1>2. Max(Entries(actor, s)) \in Entries(actor, s)
    BY <1>1, NewestExists
<1>3. QED
    BY <1>2 DEF Newest, Entries

\* A step that keeps every Action and may add some.
LogKept ==
    /\ IsLog /\ IsLog'
    /\ DOMAIN log \subseteq DOMAIN log' /\ \A i \in DOMAIN log : log'[i] = log[i]

LEMMA LogExtends ==
    ASSUME IsLog, NEW T, NEW more \in Seq(T), log' = log \o more
    PROVE  /\ LogKept
           /\ Len(log') = Len(log) + Len(more) /\ DOMAIN log' = 1 .. Len(log')
           /\ \A k \in 1 .. Len(more) : log'[Len(log) + k] = more[k]
<1>1. PICK S : log \in Seq(S)
    BY DEF IsLog
<1>2. log \in Seq(S \cup T) /\ more \in Seq(S \cup T)
    BY <1>1, SeqMonotonic
<1>3. log \o more \in Seq(S \cup T) /\ Len(log \o more) = Len(log) + Len(more)
    BY <1>2, ConcatProperties
<1>4. \A k \in 1 .. Len(log) + Len(more) :
          (log \o more)[k] = IF k <= Len(log) THEN log[k] ELSE more[k - Len(log)]
    BY <1>2, ConcatProperties
<1>5. Len(log) \in Nat /\ Len(more) \in Nat /\ DOMAIN log = 1 .. Len(log)
    BY <1>2, LenProperties
<1>6. IsLog'
    BY <1>3 DEF IsLog
<1>7. DOMAIN log' = 1 .. Len(log')
    BY <1>3, LenProperties
<1>8. \A i \in 1 .. Len(log) : log'[i] = log[i]
    BY <1>4, <1>5
<1>9. \A k \in 1 .. Len(more) : log'[Len(log) + k] = more[k]
  <2> TAKE k \in 1 .. Len(more)
  <2>1. Len(log) + k \in 1 .. Len(log) + Len(more) /\ ~(Len(log) + k <= Len(log))
        /\ (Len(log) + k) - Len(log) = k
      BY <1>5
  <2>2. QED
      BY <1>4, <2>1
<1>10. QED
    BY <1>3, <1>5, <1>6, <1>7, <1>8, <1>9 DEF LogKept

\* The Actions of one actor on one span, if the step adds none of them ...
Quiet(actor, s) ==
    /\ Entries(actor, s)' = Entries(actor, s)
    /\ Entries(actor, s) # {} => Newest(Entries(actor, s))' = Newest(Entries(actor, s))

\* ... and if it adds one, a.
Entered(actor, s, a) ==
    \E n \in DOMAIN log' \ DOMAIN log :
        /\ log'[n] = a /\ Newest(Entries(actor, s))' = a
        /\ Entries(actor, s)' = Entries(actor, s) \cup {n}
        /\ \A k \in Entries(actor, s) : k < n

LEMMA NoneAdded ==
    ASSUME LogKept, NEW actor, NEW s,
           \A i \in DOMAIN log' \ DOMAIN log : log'[i].actor # actor \/ log'[i].span # s
    PROVE  Quiet(actor, s)
<1>1. Entries(actor, s)' = Entries(actor, s)
    BY DEF LogKept, Entries
<1>2. Entries(actor, s) # {} => Max(Entries(actor, s)) \in DOMAIN log
    BY NewestExists DEF LogKept, Entries
<1>3. QED
    BY <1>1, <1>2 DEF Quiet, Newest, LogKept

LEMMA OneAdded ==
    ASSUME LogKept, NEW actor, NEW s, NEW n \in DOMAIN log' \ DOMAIN log,
           log'[n].actor = actor, log'[n].span = s,
           \A i \in DOMAIN log' \ DOMAIN log : i = n \/ log'[i].actor # actor \/ log'[i].span # s
    PROVE  Entered(actor, s, log'[n])
<1>1. Entries(actor, s)' = Entries(actor, s) \cup {n}
    BY DEF LogKept, Entries
<1>2. n \in Nat /\ \A k \in DOMAIN log : k \in Nat /\ k < n
  <2>1. Len(log) \in Nat /\ DOMAIN log = 1 .. Len(log)
      BY LogNumbers DEF LogKept
  <2>2. Len(log') \in Nat /\ DOMAIN log' = 1 .. Len(log')
      BY DEF LogKept, IsLog
  <2>3. QED
      BY <2>1, <2>2
<1>3. \A k \in Entries(actor, s) : k \in Nat /\ k < n
    BY <1>2 DEF Entries
<1>4. Max(Entries(actor, s) \cup {n}) = n
    BY <1>2, <1>3 DEF Max
<1>5. Newest(Entries(actor, s))' = log'[n]
    BY <1>1, <1>4 DEF Newest
<1>6. QED
    BY <1>1, <1>3, <1>5 DEF Entered

\* Each Action entered is counted.
LEMMA EnteredIsCounted ==
    ASSUME IsLog, NEW actor, NEW s, NEW a, Entered(actor, s, a)
    PROVE  Cardinality(Entries(actor, s)') = Cardinality(Entries(actor, s)) + 1
<1>1. PICK n \in DOMAIN log' \ DOMAIN log : Entries(actor, s)' = Entries(actor, s) \cup {n}
    BY DEF Entered
<1>2. IsFiniteSet(Entries(actor, s)) /\ n \notin Entries(actor, s)
    BY <1>1, NewestExists DEF Entries
<1>3. QED
    BY <1>1, <1>2, FS_AddElement

-----------------------------------------------------------------------------
(* What a transaction does to the spans. *)

\* An extract Action and the verify Action that may come with it.
LEMMA LogAppended ==
    ASSUME IsLog, NEW e, NEW rest, log' = Append(log, e) \o rest,
           rest = <<>> \/ \E v : rest = <<v>>
    PROVE  /\ LogKept
           /\ Len(log) + 1 \in DOMAIN log' \ DOMAIN log /\ log'[Len(log) + 1] = e
           /\ rest # <<>> => /\ Len(log) + 2 \in DOMAIN log' \ DOMAIN log
                             /\ rest = <<log'[Len(log) + 2]>>
           /\ \A i \in DOMAIN log' \ DOMAIN log :
                i = Len(log) + 1 \/ (rest # <<>> /\ i = Len(log) + 2)
<1>0. Len(log) \in Nat /\ DOMAIN log = 1 .. Len(log)
    BY LogNumbers
<1>1. CASE rest = <<>>
  <2>1. PICK S : log \in Seq(S)
      BY DEF IsLog
  <2>2. log \in Seq(S \cup {e}) /\ e \in S \cup {e}
      BY <2>1, SeqMonotonic
  <2>3. Append(log, e) \in Seq(S \cup {e}) /\ Append(log, e) = log \o <<e>>
      BY <2>2, AppendProperties, AppendIsConcat
  <2>4. log' = log \o <<e>>
      BY <1>1, <2>3, ConcatEmptySeq
  <2>5. <<e>> \in Seq({e}) /\ Len(<<e>>) = 1 /\ <<e>>[1] = e
      OBVIOUS
  <2>6. LogKept /\ DOMAIN log' = 1 .. Len(log) + 1 /\ \A k \in 1 .. 1 : log'[Len(log) + k] = <<e>>[k]
    <3>1. LogKept /\ Len(log') = Len(log) + Len(<<e>>) /\ DOMAIN log' = 1 .. Len(log')
          /\ \A k \in 1 .. Len(<<e>>) : log'[Len(log) + k] = <<e>>[k]
        BY <2>4, <2>5, LogExtends
    <3>2. QED
        BY <2>5, <3>1
  <2>7. log'[Len(log) + 1] = e
      BY <2>5, <2>6
  <2>8. QED
      BY <1>0, <1>1, <2>6, <2>7
<1>2. ASSUME NEW v, rest = <<v>>
      PROVE  /\ LogKept /\ DOMAIN log' = 1 .. Len(log) + 2
             /\ log'[Len(log) + 1] = e /\ log'[Len(log) + 2] = v
  <2>1. PICK S : log \in Seq(S)
      BY DEF IsLog
  <2> DEFINE T == S \cup {e, v}
  <2>2. log \in Seq(T) /\ <<e>> \in Seq(T) /\ <<v>> \in Seq(T) /\ e \in T
    <3>1. log \in Seq(T)
        BY <2>1, SeqMonotonic
    <3>2. QED
        BY <3>1
  <2>3. Append(log, e) = log \o <<e>>
      BY <2>2, AppendIsConcat
  <2>4. log' = log \o (<<e>> \o <<v>>)
      BY <1>2, <2>2, <2>3, ConcatAssociative
  <2> DEFINE more == <<e>> \o <<v>>
  <2>5. more \in Seq(T) /\ Len(more) = 2 /\ more[1] = e /\ more[2] = v
    <3>1. Len(<<e>>) = 1 /\ Len(<<v>>) = 1 /\ <<e>>[1] = e /\ <<v>>[1] = v
        OBVIOUS
    <3>2. more \in Seq(T) /\ Len(more) = 1 + 1
          /\ \A i \in 1 .. 1 + 1 : more[i] = IF i <= 1 THEN <<e>>[i] ELSE <<v>>[i - 1]
        BY <2>2, <3>1, ConcatProperties
    <3>3. more[1] = <<e>>[1] /\ more[2] = <<v>>[1]
        BY <3>2
    <3>4. QED
        BY <3>1, <3>2, <3>3
  <2> HIDE DEF more, T
  <2>6. LogKept /\ Len(log') = Len(log) + 2 /\ DOMAIN log' = 1 .. Len(log')
        /\ \A k \in 1 .. 2 : log'[Len(log) + k] = more[k]
      BY <2>4, <2>5, LogExtends DEF more
  <2>7. QED
      BY <2>5, <2>6
<1>3. QED
  <2>1. ASSUME NEW v, rest = <<v>> PROVE rest # <<>>
      BY <2>1
  <2>2. QED
      BY <1>0, <1>1, <1>2, <2>1

\* A span that a step leaves alone.
Untouched(s) ==
    /\ On(s)' = On(s) /\ \A p \in On(s) : faith'[p] = faith[p]
    /\ Quiet("propositionizer", s) /\ Quiet("verifier", s)

LEMMA UntouchedReads ==
    ASSUME NEW s, Untouched(s)
    PROVE  /\ Extractions(s)' = Extractions(s) /\ _extracted_hash(s)' = _extracted_hash(s)
           /\ Extractions(s) # {} => Newest(Extractions(s))' = Newest(Extractions(s))
           /\ Verifications(s)' = Verifications(s)
           /\ Verifications(s) # {} => Newest(Verifications(s))' = Newest(Verifications(s))
BY DEF Untouched, Quiet, Extractions, Verifications, _extracted_hash

LEMMA NothingWritten ==
    ASSUME UNCHANGED <<faith, log>>, NEW s
    PROVE  Untouched(s)
BY DEF Untouched, Quiet, On, Live, Entries, Newest

\* The propositions of a new generation.
LEMMA MintedParts ==
    ASSUME NEW s, NEW claims, NEW p \in Minted(s, claims)
    PROVE  p.span = s /\ p.gen = Cardinality(Extractions(s)) /\ p.claim \in claims
BY DEF Minted

\* The write of an extraction: the span has exactly the new propositions, and
\* one more extract Action; every other span is as it was.
Extracts(s, e, claims, new, rest) ==
    /\ s \in Span /\ e.span = s /\ e.actor = "propositionizer"
    /\ \E x \in Extractor : e.hash = _pipeline_hash(s, x)
    /\ e.props = Minted(s, claims) /\ DOMAIN new = e.props
    /\ PurgeAndWrite(On(s), new) /\ log' = Append(log, e) \o rest
    /\ rest = <<>> \/ \E v : rest = <<Verification(s, e.props, v)>>

LEMMA ExtractionWritten ==
    ASSUME LogInv, NEW s, NEW e, NEW claims, NEW new, NEW rest, Extracts(s, e, claims, new, rest)
    PROVE  /\ LogKept /\ LogInv'
           /\ On(s)' = e.props /\ \A p \in e.props : faith'[p] = new[p]
           /\ Entered("propositionizer", s, e)
           /\ rest = <<>> => Quiet("verifier", s)
           /\ \A v : rest = <<Verification(s, e.props, v)>> =>
                        Entered("verifier", s, Verification(s, e.props, v))
           /\ \A t : t # s => Untouched(t)
           /\ \A k \in DOMAIN log' \ DOMAIN log :
                log'[k].props = e.props /\ (log'[k] = e \/ log'[k].actor = "verifier")
<1> DEFINE n == Len(log) + 1
<1>1. /\ s \in Span /\ e.span = s /\ e.actor = "propositionizer"
      /\ \E x \in Extractor : e.hash = _pipeline_hash(s, x)
      /\ e.props = Minted(s, claims) /\ DOMAIN new = e.props
      /\ PurgeAndWrite(On(s), new) /\ log' = Append(log, e) \o rest
      /\ rest = <<>> \/ \E v : rest = <<Verification(s, e.props, v)>>
    BY DEF Extracts
<1>2. /\ LogKept
      /\ n \in DOMAIN log' \ DOMAIN log /\ log'[n] = e
      /\ rest # <<>> => Len(log) + 2 \in DOMAIN log' \ DOMAIN log /\ rest = <<log'[Len(log) + 2]>>
      /\ \A i \in DOMAIN log' \ DOMAIN log : i = n \/ (rest # <<>> /\ i = Len(log) + 2)
    BY <1>1, LogAppended DEF LogInv
<1>3. \A v : /\ Verification(s, e.props, v).actor = "verifier" /\ Verification(s, e.props, v).span = s
             /\ Verification(s, e.props, v).props = e.props
    BY DEF Verification
<1>4. rest # <<>> => \E v : log'[Len(log) + 2] = Verification(s, e.props, v)
    BY <1>1, <1>2
<1>5. \A i \in DOMAIN log' \ DOMAIN log :
          /\ log'[i].span = s /\ log'[i].props = e.props
          /\ i = n \/ log'[i].actor = "verifier"
    BY <1>1, <1>2, <1>3, <1>4
<1> HIDE DEF n
<1>6. Entered("propositionizer", s, e)
    BY <1>1, <1>2, <1>5, OneAdded
<1>7. rest = <<>> => Quiet("verifier", s)
    BY <1>1, <1>2, NoneAdded
<1>8. ASSUME NEW v, rest = <<Verification(s, e.props, v)>>
      PROVE  Entered("verifier", s, Verification(s, e.props, v))
  <2>1. rest # <<>> /\ log'[Len(log) + 2] = Verification(s, e.props, v)
      BY <1>2, <1>8
  <2>2. QED
      BY <1>1, <1>2, <1>3, <2>1, OneAdded
<1>9. On(s)' = e.props /\ \A p \in e.props : faith'[p] = new[p]
    BY <1>1, MintedParts DEF PurgeAndWrite, On, Live
<1>10. ASSUME NEW t, t # s PROVE Untouched(t)
  <2>1. On(t)' = On(t) /\ \A p \in On(t) : faith'[p] = faith[p]
      BY <1>1, <1>10, MintedParts DEF PurgeAndWrite, On, Live
  <2>2. Quiet("propositionizer", t) /\ Quiet("verifier", t)
      BY <1>2, <1>5, <1>10, NoneAdded
  <2>3. QED
      BY <2>1, <2>2 DEF Untouched
<1>11. LogInv'
  <2>1. Cardinality(Extractions(s)') = Cardinality(Extractions(s)) + 1
        /\ Cardinality(Extractions(s)) \in Nat
    <3>1. IsLog /\ Entries("propositionizer", s) \in SUBSET DOMAIN log
        BY DEF LogInv, Entries
    <3>2. QED
        BY <1>6, <3>1, EnteredIsCounted, NewestExists DEF Extractions
  <2>2. \A t : t # s => Extractions(t)' = Extractions(t)
      BY <1>10, UntouchedReads
  <2>3. ASSUME NEW i \in DOMAIN log PROVE Accounted(log[i])'
    <3>1. Accounted(log[i]) /\ log'[i] = log[i]
        BY <1>2 DEF LogInv, LogKept
    <3>2. Cardinality(Extractions(log[i].span)') = Cardinality(Extractions(log[i].span))
          \/ log[i].span = s
        BY <2>2, <3>1
    <3>3. QED
        BY <2>1, <3>1, <3>2 DEF Accounted, _pipeline_hash
  <2>4. ASSUME NEW i \in DOMAIN log' \ DOMAIN log PROVE Accounted(log[i])'
    <3>1. \A p \in e.props : p.span = s /\ p.gen = Cardinality(Extractions(s))
        BY <1>1, MintedParts
    <3>2. log'[i].actor = "propositionizer" => \E x \in Extractor : log'[i].hash = _pipeline_hash(s, x)
        BY <1>1, <1>2, <1>5
    <3>3. \A p \in e.props : p.span = s /\ p.gen \in 0 .. Cardinality(Extractions(s)') - 1
        BY <2>1, <3>1
    <3>4. QED
        BY <1>1, <1>5, <3>2, <3>3 DEF Accounted, _pipeline_hash
  <2>5. QED
      BY <1>2, <2>3, <2>4 DEF LogInv, LogKept
<1>12. QED
    BY <1>2, <1>5, <1>6, <1>7, <1>8, <1>9, <1>10, <1>11

\* The write of a backfill: the span keeps its propositions and may have one
\* more verify Action.
LEMMA BackfillWritten ==
    ASSUME LogInv, OneGeneration, NEW s \in Span, NEW score, NEW rest,
           faith' = [p \in Live |-> IF p \notin On(s) THEN faith[p] ELSE score[p]],
           log' = log \o rest,
           rest = <<>> \/ \E v : rest = <<Verification(s, On(s), v)>>
    PROVE  /\ LogKept /\ LogInv'
           /\ On(s)' = On(s) /\ \A p \in On(s) : faith'[p] = score[p]
           /\ Quiet("propositionizer", s)
           /\ rest = <<>> => Quiet("verifier", s)
           /\ \A v : rest = <<Verification(s, On(s), v)>> =>
                        Entered("verifier", s, Verification(s, On(s), v))
           /\ \A t : t # s => Untouched(t)
           /\ Live' = Live
           /\ \A k \in DOMAIN log' \ DOMAIN log :
                log'[k].props = On(s) /\ log'[k].actor = "verifier"
<1>0. IsLog
    BY DEF LogInv
<1>1. /\ LogKept
      /\ \A i \in DOMAIN log' \ DOMAIN log : \E v : log'[i] = Verification(s, On(s), v)
      /\ rest = <<>> => DOMAIN log' = DOMAIN log
      /\ \A v : rest = <<v>> => /\ Len(log) + 1 \in DOMAIN log' \ DOMAIN log
                                /\ log'[Len(log) + 1] = v
                                /\ DOMAIN log' \ DOMAIN log = {Len(log) + 1}
  <2>1. Len(log) \in Nat /\ DOMAIN log = 1 .. Len(log)
      BY <1>0, LogNumbers
  <2>2. CASE rest = <<>>
    <3>1. log' = log
        BY <1>0, <2>2, ConcatEmptySeq DEF IsLog
    <3>2. ASSUME NEW v PROVE rest # <<v>>
        BY <2>2
    <3>3. IsLog'
        BY <1>0, <3>1 DEF IsLog
    <3>4. QED
        BY <1>0, <3>1, <3>2, <3>3 DEF LogKept
  <2>3. ASSUME NEW v, rest = <<v>>
        PROVE  LogKept /\ DOMAIN log' = 1 .. Len(log) + 1 /\ log'[Len(log) + 1] = v /\ rest # <<>>
    <3>1. <<v>> \in Seq({v}) /\ Len(<<v>>) = 1 /\ <<v>>[1] = v /\ <<v>> # <<>>
        OBVIOUS
    <3>2. /\ LogKept /\ Len(log') = Len(log) + Len(<<v>>) /\ DOMAIN log' = 1 .. Len(log')
          /\ \A k \in 1 .. Len(<<v>>) : log'[Len(log) + k] = <<v>>[k]
        BY <1>0, <2>3, <3>1, LogExtends
    <3>3. QED
        BY <2>3, <3>1, <3>2
  <2>4. CASE \E v : rest = <<Verification(s, On(s), v)>>
    <3>1. PICK v : rest = <<Verification(s, On(s), v)>>
        BY <2>4
    <3>2. LogKept /\ DOMAIN log' = 1 .. Len(log) + 1
          /\ log'[Len(log) + 1] = Verification(s, On(s), v) /\ rest # <<>>
        BY <2>3, <3>1
    <3>3. DOMAIN log' \ DOMAIN log = {Len(log) + 1}
        BY <2>1, <3>2
    <3>4. QED
        BY <2>3, <3>2, <3>3
  <2>5. QED
      BY <2>2, <2>4
<1>2. \A v : /\ Verification(s, On(s), v).actor = "verifier" /\ Verification(s, On(s), v).span = s
             /\ Verification(s, On(s), v).props = On(s)
    BY DEF Verification
<1>3. \A i \in DOMAIN log' \ DOMAIN log :
          log'[i].actor = "verifier" /\ log'[i].span = s /\ log'[i].props = On(s)
    BY <1>1, <1>2
<1>4. \A t : Quiet("propositionizer", t)
    BY <1>1, <1>3, NoneAdded
<1>5. \A t : t # s \/ rest = <<>> => Quiet("verifier", t)
    BY <1>1, <1>3, NoneAdded
<1>6. ASSUME NEW v, rest = <<Verification(s, On(s), v)>>
      PROVE  Entered("verifier", s, Verification(s, On(s), v))
    BY <1>1, <1>2, <1>6, OneAdded
<1>7. Live' = Live /\ \A t : On(t)' = On(t)
    BY DEF Live, On
<1>8. /\ \A p \in On(s) : faith'[p] = score[p]
      /\ \A t : t # s => \A p \in On(t) : faith'[p] = faith[p]
    BY DEF Live, On
<1>9. \A t : t # s => Untouched(t)
    BY <1>4, <1>5, <1>7, <1>8 DEF Untouched
<1>10. LogInv'
  <2>1. \A t : Extractions(t)' = Extractions(t)
      BY <1>4 DEF Quiet, Extractions
  <2>2. \A i \in DOMAIN log : Accounted(log[i])'
      BY <1>1, <2>1 DEF Accounted, LogInv, LogKept, _pipeline_hash
  <2>3. \A p \in On(s) : p.span = s /\ p.gen \in 0 .. Cardinality(Extractions(s)) - 1
    <3>1. ASSUME NEW p \in On(s)
          PROVE  p \in Newest(Extractions(s)).props /\ Extractions(s) # {}
        BY <3>1 DEF OneGeneration
    <3>2. Extractions(s) # {} => /\ Accounted(Newest(Extractions(s)))
                                 /\ Newest(Extractions(s)).span = s
        BY <1>0, NewestEntry DEF LogInv, Extractions
    <3>3. QED
        BY <3>1, <3>2 DEF Accounted
  <2>4. \A i \in DOMAIN log' \ DOMAIN log : Accounted(log[i])'
      BY <1>3, <2>1, <2>3 DEF Accounted, _pipeline_hash
  <2>5. QED
      BY <1>1, <2>2, <2>4 DEF LogInv, LogKept
<1>11. QED
    BY <1>1, <1>3, <1>4, <1>5, <1>6, <1>7, <1>8, <1>9, <1>10

-----------------------------------------------------------------------------
(* The shape of a run. *)

\* One run is rewritten, the others stay.
Becomes(w, r) == run' = [run EXCEPT ![w] = r]

LEMMA RunSet ==
    ASSUME RunsTyped, NEW w \in Worker, NEW r, Becomes(w, r)
    PROVE  /\ \E Runs : run' \in [Worker -> Runs]
           /\ run'[w] = r /\ \A u \in Worker : u # w => run'[u] = run[u]
<1>1. PICK Runs : run \in [Worker -> Runs]
    BY DEF RunsTyped
<1>2. run' \in [Worker -> Runs \cup {r}]
    BY <1>1 DEF Becomes
<1>3. QED
    BY <1>1, <1>2 DEF Becomes

LEMMA NoRunIsShaped == WellShaped(NoRun)
BY DEF NoRun, WellShaped, RunRecord, Sig

\* The spans of a run are those of a document, each once.
LEMMA SpansAreDistinct ==
    ASSUME NEW r, WellShaped(r)
    PROVE  /\ Len(r.spans) \in Nat /\ DOMAIN r.spans = 1 .. Len(r.spans)
           /\ \A i \in DOMAIN r.spans : r.spans[i] \in Span
           /\ \A i, j \in DOMAIN r.spans : r.spans[i] = r.spans[j] => i = j
<1>1. CASE r.spans = <<>>
    BY <1>1
<1>2. ASSUME NEW d \in Document, r.spans = SpansOf[d]
      PROVE  r.spans \in Seq(Span) /\ \A i, j \in DOMAIN r.spans : r.spans[i] = r.spans[j] => i = j
    BY <1>2, DocumentsAreTyped DEF IsInjective
<1>3. QED
    BY <1>1, <1>2 DEF WellShaped, RunRecord

\* What a deployment offers is what there is.
LEMMA DeployedParts ==
    ASSUME RunsTyped
    PROVE  /\ deployed.documents \subseteq Document /\ deployed.verifiers \subseteq Verifier
           /\ deployed.reuse_extractions \in BOOLEAN /\ deployed.cascade_reextract \in BOOLEAN
BY DocumentsAreTyped DEF RunsTyped

LEMMA PlanSet ==
    ASSUME NEW r, WellShaped(r), r.pc # "verify", NEW i, NEW entry, NEW n \in Nat \ {0},
           NEW clean \in BOOLEAN
    PROVE  WellShaped([r EXCEPT !.plan[i] = entry, !.i = n, !.clean = clean])
<1> DEFINE plan == [r.plan EXCEPT ![i] = entry]
           q    == [r EXCEPT !.plan = plan, !.i = n, !.clean = clean]
<1>1. [r EXCEPT !.plan[i] = entry, !.i = n, !.clean = clean] = q
    OBVIOUS
<1>2. DOMAIN plan = DOMAIN r.plan
    OBVIOUS
<1> HIDE DEF plan
<1>3. /\ q \in RunRecord({plan}, {r.loaded}) /\ q.plan = plan /\ q.loaded = r.loaded
      /\ q.pc = r.pc /\ q.spans = r.spans /\ q.extractor = r.extractor
    BY DEF WellShaped, RunRecord
<1>4. WellShaped(q)
    BY <1>2, <1>3 DEF WellShaped
<1>5. QED
    BY <1>1, <1>4

\* Each step of a worker gives it another well-shaped run.
LEMMA NextRun ==
    ASSUME RunsTyped, NEW w \in Worker, WorkerStep(w)
    PROVE  \E r : WellShaped(r) /\ Becomes(w, r)
<1> DEFINE r == run[w]
<1>0. /\ WellShaped(r) /\ r.i \in Nat \ {0} /\ r.i + 1 \in Nat \ {0} /\ r.clean \in BOOLEAN
      /\ Len(r.spans) \in Nat /\ DOMAIN r.spans = 1 .. Len(r.spans)
  <2>1. WellShaped(r)
      BY DEF RunsTyped
  <2>2. r.i \in Nat \ {0} /\ r.i + 1 \in Nat \ {0} /\ r.clean \in BOOLEAN
      BY <2>1 DEF WellShaped, RunRecord
  <2>3. QED
      BY <2>1, <2>2, SpansAreDistinct
<1>1. ASSUME NEW q, WellShaped(q), Becomes(w, q)
      PROVE  \E p : WellShaped(p) /\ Becomes(w, p)
    BY <1>1
<1>2. ASSUME NEW i, NEW entry, NEW n \in Nat \ {0}, NEW clean \in BOOLEAN, r.pc # "verify",
             Becomes(w, [r EXCEPT !.plan[i] = entry, !.i = n, !.clean = clean])
      PROVE  \E q : WellShaped(q) /\ Becomes(w, q)
    BY <1>0, <1>2, PlanSet
<1>3. ASSUME NEW d \in deployed.documents, NEW x \in Extractor,
             NEW v \in deployed.verifiers \cup {Null}, Start(w, d, x, v)
      PROVE  \E q : WellShaped(q) /\ Becomes(w, q)
  <2> DEFINE plan == [i \in DOMAIN SpansOf[d] |-> Marked("new")]
             q1 == [NoRun EXCEPT !.pc = "filter", !.spans = SpansOf[d]]
             q2 == [q1 EXCEPT !.extractor = x, !.verifier = v]
             q  == [q2 EXCEPT !.plan = plan]
  <2>1. Becomes(w, q)
      BY <1>3 DEF Start, Becomes
  <2>2. d \in Document /\ v \in Sig /\ DOMAIN plan = DOMAIN SpansOf[d]
      BY DeployedParts DEF Sig
  <2> HIDE DEF plan
  <2>3. /\ q1 \in RunRecord({<<>>}, {{}}) /\ q1.loaded = {}
        /\ q1.pc = "filter" /\ q1.spans = SpansOf[d]
    <3>1. NoRun \in RunRecord({<<>>}, {{}}) /\ NoRun.loaded = {}
        BY DEF NoRun, RunRecord, Sig
    <3>2. QED
        BY <2>2, <3>1 DEF RunRecord
  <2> HIDE DEF q1
  <2>4. /\ q2 \in RunRecord({<<>>}, {{}}) /\ q2.loaded = {}
        /\ q2.pc = "filter" /\ q2.spans = SpansOf[d] /\ q2.extractor = x
      BY <2>2, <2>3 DEF RunRecord
  <2> HIDE DEF q2
  <2>5. /\ q \in RunRecord({plan}, {{}}) /\ q.plan = plan /\ q.loaded = {}
        /\ q.pc = "filter" /\ q.spans = SpansOf[d] /\ q.extractor = x
      BY <2>2, <2>4 DEF RunRecord
  <2>6. WellShaped(q)
      BY <2>2, <2>5 DEF WellShaped
  <2>7. QED
      BY <2>1, <2>6
<1>4. CASE Filter(w)
  <2>1. \/ Becomes(w, NoRun)
        \/ \E e : Becomes(w, [r EXCEPT !.plan[r.i] = e, !.i = r.i + 1])
      BY <1>4 DEF Filter, Becomes
  <2>2. \A e : [r EXCEPT !.plan[r.i] = e, !.i = r.i + 1]
                 = [r EXCEPT !.plan[r.i] = e, !.i = r.i + 1, !.clean = r.clean]
      BY <1>0 DEF WellShaped, RunRecord
  <2>3. r.pc # "verify"
      BY <1>4 DEF Filter
  <2>4. ASSUME NEW e, Becomes(w, [r EXCEPT !.plan[r.i] = e, !.i = r.i + 1])
        PROVE  \E q : WellShaped(q) /\ Becomes(w, q)
    <3>1. Becomes(w, [r EXCEPT !.plan[r.i] = e, !.i = r.i + 1, !.clean = r.clean])
        BY <2>2, <2>4
    <3>2. QED
        BY <1>0, <1>2, <2>3, <3>1
  <2>5. QED
      BY <1>1, <2>1, <2>4, NoRunIsShaped
<1>5. CASE Filtered(w)
    BY <1>0, <1>1, <1>5 DEF Filtered, Becomes, WellShaped, RunRecord
<1>6. ASSUME NEW i, NEW clean \in BOOLEAN, NEW entry, r.pc = "persist",
             Becomes(w, [r EXCEPT !.plan[i] = entry, !.clean = clean])
      PROVE  \E q : WellShaped(q) /\ Becomes(w, q)
  <2>1. [r EXCEPT !.plan[i] = entry, !.clean = clean]
          = [r EXCEPT !.plan[i] = entry, !.i = r.i, !.clean = clean]
      BY <1>0 DEF WellShaped, RunRecord
  <2>2. Becomes(w, [r EXCEPT !.plan[i] = entry, !.i = r.i, !.clean = clean])
      BY <1>6, <2>1
  <2>3. r.pc # "verify"
      BY <1>6
  <2>4. QED
      BY <1>0, <1>2, <2>2, <2>3
<1>7. ASSUME NEW claims, NEW answered, Persist(w, claims, answered)
      PROVE  \E q : WellShaped(q) /\ Becomes(w, q)
  <2> DEFINE ids(i) == Minted(r.spans[i], claims)
             ok(i)  == _verify_all(r.verifier, ids(i), answered)
  <2>1. PICK i \in DOMAIN r.plan :
            run' = [run EXCEPT ![w].plan[i] = Marked("done"), ![w].clean = @ /\ ok(i) = ids(i)]
      BY <1>7 DEF Persist
  <2> HIDE DEF ids, ok
  <2>2. Becomes(w, [r EXCEPT !.plan[i] = Marked("done"), !.clean = r.clean /\ ok(i) = ids(i)])
      BY <2>1 DEF Becomes, RunsTyped, WellShaped, RunRecord
  <2>3. r.pc = "persist" /\ (r.clean /\ ok(i) = ids(i)) \in BOOLEAN
      BY <1>7 DEF Persist, IsNext
  <2>4. QED
      BY <1>6, <2>2, <2>3
<1>8. CASE Replay(w) \/ Isolate(w)
  <2>1. PICK i, entry : run' = [run EXCEPT ![w].plan[i] = entry]
      BY <1>8 DEF Replay, Isolate
  <2>2. Becomes(w, [r EXCEPT !.plan[i] = entry, !.clean = r.clean])
      BY <2>1 DEF Becomes, RunsTyped, WellShaped, RunRecord
  <2>3. r.pc = "persist"
      BY <1>8 DEF Replay, Isolate, IsNext
  <2>4. QED
      BY <1>0, <1>6, <2>2, <2>3
<1>9. CASE Persisted(w)
  <2>1. ASSUME NEW pc \in {"report", "backfill"} PROVE WellShaped([r EXCEPT !.pc = pc, !.i = 1])
    <3> DEFINE q == [r EXCEPT !.pc = pc, !.i = 1]
    <3>1. r.pc # "idle" /\ 1 \in Nat \ {0}
        BY <1>9 DEF Persisted
    <3>2. q \in RunRecord({r.plan}, {r.loaded}) /\ q.plan = r.plan /\ q.loaded = r.loaded
          /\ q.spans = r.spans /\ q.extractor = r.extractor /\ q.pc = pc
        BY <1>0, <3>1 DEF WellShaped, RunRecord
    <3> HIDE DEF q
    <3>3. WellShaped(q)
        BY <1>0, <3>1, <3>2 DEF WellShaped
    <3>4. QED
        BY <3>3 DEF q
  <2>2. \E pc \in {"report", "backfill"} : Becomes(w, [r EXCEPT !.pc = pc, !.i = 1])
      BY <1>0, <1>9 DEF Persisted, Becomes
  <2>3. QED
      BY <1>1, <2>1, <2>2
<1>10. CASE BackfillLoad(w)
  <2>1. r.i <= Len(r.spans) => r.i \in DOMAIN r.spans
      BY <1>0
  <2>2. QED
      BY <1>0, <1>1, <1>10, <2>1 DEF BackfillLoad, Becomes, WellShaped, RunRecord
<1>11. ASSUME NEW answered, BackfillWrite(w, answered)
       PROVE  \E q : WellShaped(q) /\ Becomes(w, q)
  <2>1. PICK ok \in BOOLEAN : Becomes(w, [r EXCEPT !.pc = "backfill", !.i = r.i + 1, !.loaded = {},
                                                   !.clean = r.clean /\ ok])
      BY <1>11 DEF BackfillWrite, Becomes
  <2>2. QED
      BY <1>0, <1>1, <1>11, <2>1 DEF BackfillWrite, WellShaped, RunRecord
<1>12. CASE BackfillFails(w)
    BY <1>0, <1>1, <1>12 DEF BackfillFails, Becomes, WellShaped, RunRecord
<1>13. CASE Backfilled(w)
    BY <1>0, <1>1, <1>13 DEF Backfilled, Becomes, WellShaped, RunRecord
<1>14. CASE Report(w) \/ Crash(w)
    BY <1>1, <1>14, NoRunIsShaped DEF Report, Crash, Becomes
<1>15. QED
    BY <1>3, <1>4, <1>5, <1>7, <1>8, <1>9, <1>10, <1>11, <1>12, <1>13, <1>14 DEF WorkerStep
LEMMA RunsTypedNext ==
    ASSUME RunsTyped, [Next]_vars
    PROVE  /\ RunsTyped'
           /\ \A w \in Worker : WorkerStep(w) => \A u \in Worker : u # w => run'[u] = run[u]
<1>1. deployed' = deployed
    BY DEF Next, vars
<1>2. ASSUME NEW w \in Worker, WorkerStep(w)
      PROVE  RunsTyped' /\ \A u \in Worker : u # w => run'[u] = run[u]
  <2>1. PICK r : WellShaped(r) /\ Becomes(w, r)
      BY <1>2, NextRun
  <2>2. /\ \E Runs : run' \in [Worker -> Runs]
        /\ run'[w] = r /\ \A u \in Worker : u # w => run'[u] = run[u]
      BY <2>1, RunSet
  <2>3. \A u \in Worker : WellShaped(run[u])'
      BY <2>1, <2>2 DEF RunsTyped, WellShaped, RunRecord, Sig
  <2>4. QED
      BY <1>1, <2>2, <2>3 DEF RunsTyped
<1>3. CASE UNCHANGED run
    BY <1>1, <1>3 DEF RunsTyped, WellShaped, RunRecord, Sig
<1>4. QED
    BY <1>2, <1>3 DEF Next, vars, ExtractStart, ExtractPersist

\* What a transaction or a read of worker w leaves alone: every span that is
\* not of its document, hence every span that another run has to do with.
SpansIn(r) == {r.spans[i] : i \in DOMAIN r.spans}
Within(w) == \A t : t \notin SpansIn(run[w]) => Untouched(t)

LEMMA OthersKeep ==
    ASSUME RunsTyped, RunsApart, NEW w \in Worker, Within(w), NEW u \in Worker, u # w,
           run'[u] = run[u]
    PROVE  /\ \A s \in SpansIn(run[u]) : Untouched(s)
           /\ RunOf(u) => RunOf(u)'
<1>1. WellShaped(run[u])
    BY DEF RunsTyped
<1>2. \A s \in SpansIn(run[u]) : Untouched(s)
    BY DEF RunsApart, Within, SpansIn
<1>3. \A s \in SpansIn(run[u]) :
          /\ Extractions(s)' = Extractions(s) /\ _extracted_hash(s)' = _extracted_hash(s)
          /\ On(s)' = On(s)
    BY <1>2, UntouchedReads DEF Untouched
<1>4. \A i \in DOMAIN run[u].spans : run[u].spans[i] \in SpansIn(run[u])
    BY DEF SpansIn
<1>5. PendingOf(u) => PendingOf(u)'
    BY <1>1, <1>3, <1>4 DEF PendingOf, WellShaped, _pipeline_hash
<1>6. DoneOf(u) => DoneOf(u)'
    BY <1>1, <1>3, <1>4 DEF DoneOf, WellShaped, _pipeline_hash
<1>7. LoadedOf(u) => LoadedOf(u)'
    BY <1>1, <1>3, <1>4 DEF LoadedOf, WellShaped
<1>8. QED
    BY <1>2, <1>5, <1>6, <1>7 DEF RunOf

-----------------------------------------------------------------------------
(* The steps that write. *)

\* Worker w writes s, the i-th span of its document, with the extract Action e.
Writes(w, i, s, e) ==
    /\ i \in DOMAIN run[w].plan /\ Pending(run[w].plan[i]) /\ run[w].pc = "persist"
    /\ s = run[w].spans[i] /\ s \in Span
    /\ e.hash = _pipeline_hash(s, run[w].extractor)
    /\ \A p \in e.props : p.gen = Cardinality(Extractions(s))
    /\ LogKept /\ LogInv' /\ On(s)' = e.props /\ Entered("propositionizer", s, e)
    /\ \A k \in DOMAIN log' \ DOMAIN log :
           log'[k].props = e.props /\ (log'[k] = e \/ log'[k].actor = "verifier")
    /\ \A t : t # s => Untouched(t)
    /\ run'[w].plan = [run[w].plan EXCEPT ![i] = Marked("done")]
    /\ run'[w].pc = "persist" /\ run'[w].spans = run[w].spans
    /\ run'[w].extractor = run[w].extractor /\ run'[w].verifier = run[w].verifier

\* A pending span has in store what the run is about to purge.
LEMMA PendingParts ==
    ASSUME Inv, NEW w \in Worker, run[w].pc = "persist",
           NEW i \in DOMAIN run[w].plan, Pending(run[w].plan[i])
    PROVE  /\ run[w].spans[i] \in Span /\ run[w].extractor \in Extractor
           /\ (IF run[w].plan[i].stale THEN On(run[w].spans[i]) ELSE {}) = On(run[w].spans[i])
<1>1. WellShaped(run[w]) /\ PendingOf(w)
    BY DEF Inv, RunsTyped, RunOf
<1>2. run[w].spans[i] \in Span /\ run[w].extractor \in Extractor
    BY <1>1, SpansAreDistinct DEF WellShaped
<1>3. run[w].plan[i].stale <=> Extractions(run[w].spans[i]) # {}
    BY <1>1 DEF PendingOf
<1>4. Extractions(run[w].spans[i]) = {} => On(run[w].spans[i]) = {}
    BY <1>2 DEF Inv, StoreInv, OneGeneration
<1>5. QED
    BY <1>2, <1>3, <1>4

LEMMA PersistWrites ==
    ASSUME Inv, NEW w \in Worker, NEW claims, NEW answered, Persist(w, claims, answered)
    PROVE  \E i, s, e, v, ok :
               /\ Writes(w, i, s, e) /\ e.sig = Null /\ run[w].plan[i].kind = "infer"
               /\ v = run[w].verifier /\ ok = _verify_all(v, e.props, answered)
               /\ \A p \in e.props : faith'[p] = IF p \in ok THEN v ELSE Null
               /\ IF v = Null \/ e.props = {} THEN Quiet("verifier", s)
                  ELSE Entered("verifier", s, Verification(s, e.props, Stamp(e.props, ok, v)))
               /\ run'[w].clean = (run[w].clean /\ ok = e.props)
<1>1. PICK i \in DOMAIN run[w].plan :
          LET s   == run[w].spans[i]
              ids == Minted(s, claims)
              ok  == _verify_all(run[w].verifier, ids, answered)
          IN  /\ IsNext(run[w], i, "infer")
              /\ PurgeAndWrite(IF run[w].plan[i].stale THEN On(s) ELSE {},
                               [p \in ids |-> IF p \in ok THEN run[w].verifier ELSE Null])
              /\ log' = Append(log, Extraction(s, _pipeline_hash(s, run[w].extractor), ids, Null))
                          \o VerifyEntry(s, ids, ok, run[w].verifier)
              /\ run' = [run EXCEPT ![w].plan[i] = Marked("done"), ![w].clean = @ /\ ok = ids]
    BY DEF Persist
<1>2. run[w].pc = "persist" /\ run[w].plan[i].kind = "infer" /\ Pending(run[w].plan[i])
    BY <1>1 DEF IsNext, Waiting, Pending
<1>3. PICK s, x, v, ids, ok, new, rest, e :
          /\ s \in Span /\ x \in Extractor /\ s = run[w].spans[i]
          /\ x = run[w].extractor /\ v = run[w].verifier
          /\ ids = Minted(s, claims) /\ ok = _verify_all(v, ids, answered)
          /\ new = [p \in ids |-> IF p \in ok THEN v ELSE Null]
          /\ rest = VerifyEntry(s, ids, ok, v)
          /\ e = Extraction(s, _pipeline_hash(s, x), ids, Null)
    BY <1>2, PendingParts
<1>4. /\ PurgeAndWrite(On(s), new)
      /\ log' = Append(log, e) \o rest
      /\ run' = [run EXCEPT ![w].plan[i] = Marked("done"), ![w].clean = @ /\ ok = ids]
    BY <1>1, <1>2, <1>3, PendingParts
<1>5. /\ rest = <<>> \/ \E sig : rest = <<Verification(s, ids, sig)>>
      /\ v = Null \/ ids = {} => rest = <<>>
      /\ ~(v = Null \/ ids = {}) => rest = <<Verification(s, ids, Stamp(ids, ok, v))>>
    BY <1>3 DEF VerifyEntry
<1>6. DOMAIN new = ids /\ \A p \in ids : new[p] = IF p \in ok THEN v ELSE Null
    BY <1>3
<1>7. /\ e.actor = "propositionizer" /\ e.span = s /\ e.hash = _pipeline_hash(s, x)
      /\ e.props = ids /\ e.sig = Null
    BY <1>3 DEF Extraction
<1>8. Extracts(s, e, claims, new, rest)
    BY <1>3, <1>4, <1>5, <1>6, <1>7 DEF Extracts
<1>9. /\ LogKept /\ LogInv'
      /\ On(s)' = e.props /\ \A p \in e.props : faith'[p] = new[p]
      /\ Entered("propositionizer", s, e)
      /\ rest = <<>> => Quiet("verifier", s)
      /\ \A sig : rest = <<Verification(s, e.props, sig)>> =>
                      Entered("verifier", s, Verification(s, e.props, sig))
      /\ \A t : t # s => Untouched(t)
      /\ \A k \in DOMAIN log' \ DOMAIN log :
             log'[k].props = e.props /\ (log'[k] = e \/ log'[k].actor = "verifier")
    BY <1>8, ExtractionWritten DEF Inv, StoreInv
<1>10. /\ WellShaped(run[w]) /\ run'[w] = [[run[w] EXCEPT !.plan[i] = Marked("done")]
                                              EXCEPT !.clean = (run[w].clean /\ ok = ids)]
    BY <1>4 DEF Inv, RunsTyped, WellShaped, RunRecord
<1>11. /\ run'[w].plan = [run[w].plan EXCEPT ![i] = Marked("done")] /\ run'[w].pc = run[w].pc
       /\ run'[w].spans = run[w].spans /\ run'[w].extractor = run[w].extractor
       /\ run'[w].verifier = run[w].verifier /\ run'[w].clean = (run[w].clean /\ ok = ids)
    BY <1>10 DEF WellShaped, RunRecord
<1>12. Writes(w, i, s, e)
  <2>1. \A p \in e.props : p.gen = Cardinality(Extractions(s))
    <3>1. e.props = Minted(s, claims)
        BY <1>3, <1>7
    <3>2. QED
        BY <3>1, MintedParts
  <2>2. QED
      BY <1>2, <1>3, <1>7, <1>9, <1>11, <2>1 DEF Writes
<1>13. IF v = Null \/ e.props = {} THEN Quiet("verifier", s)
       ELSE Entered("verifier", s, Verification(s, e.props, Stamp(e.props, ok, v)))
    BY <1>5, <1>7, <1>9
<1>14. \A p \in e.props : faith'[p] = IF p \in ok THEN v ELSE Null
    BY <1>6, <1>7, <1>9
<1>15. QED
    BY <1>2, <1>3, <1>7, <1>11, <1>12, <1>13, <1>14

LEMMA ReplayWrites ==
    ASSUME Inv, NEW w \in Worker, Replay(w)
    PROVE  \E i, s, e, cached :
               /\ Writes(w, i, s, e) /\ run[w].plan[i].kind = "replay"
               /\ cached = run[w].plan[i].cached
               /\ e.props = Minted(s, DOMAIN cached.claims)
               /\ Quiet("verifier", s)
<1>1. PICK i \in DOMAIN run[w].plan :
          LET s      == run[w].spans[i]
              cached == run[w].plan[i].cached
              ids    == Minted(s, DOMAIN cached.claims)
          IN  /\ IsNext(run[w], i, "replay")
              /\ PurgeAndWrite(IF run[w].plan[i].stale THEN On(s) ELSE {},
                               [p \in ids |-> CopiedFaith(cached, run[w].verifier, p.claim)])
              /\ log' = Append(log, Extraction(s, _pipeline_hash(s, run[w].extractor), ids, cached.sig))
              /\ run' = [run EXCEPT ![w].plan[i] = Marked("done")]
    BY DEF Replay
<1>2. run[w].pc = "persist" /\ run[w].plan[i].kind = "replay" /\ Pending(run[w].plan[i])
    BY <1>1 DEF IsNext, Waiting, Pending
<1>3. PICK s, x, cached, claims, ids, new, e :
          /\ s \in Span /\ x \in Extractor /\ s = run[w].spans[i]
          /\ x = run[w].extractor /\ cached = run[w].plan[i].cached
          /\ claims = DOMAIN cached.claims /\ ids = Minted(s, claims)
          /\ new = [p \in ids |-> CopiedFaith(cached, run[w].verifier, p.claim)]
          /\ e = Extraction(s, _pipeline_hash(s, x), ids, cached.sig)
    BY <1>2, PendingParts
<1>4. PurgeAndWrite(On(s), new) /\ log' = Append(log, e)
    BY <1>1, <1>2, <1>3, PendingParts
<1>5. log' = Append(log, e) \o <<>>
  <2>1. PICK S : log \in Seq(S)
      BY DEF Inv, StoreInv, LogInv, IsLog
  <2>2. log \in Seq(S \cup {e})
      BY <2>1, SeqMonotonic
  <2>3. Append(log, e) \in Seq(S \cup {e})
      BY <2>2, AppendProperties
  <2>4. QED
      BY <1>4, <2>3, ConcatEmptySeq
<1>6. DOMAIN new = ids
    BY <1>3
<1>7. e.actor = "propositionizer" /\ e.span = s /\ e.hash = _pipeline_hash(s, x) /\ e.props = ids
    BY <1>3 DEF Extraction
<1>8. Extracts(s, e, claims, new, <<>>)
    BY <1>3, <1>4, <1>5, <1>6, <1>7 DEF Extracts
<1>9. /\ LogKept /\ LogInv' /\ On(s)' = e.props /\ Entered("propositionizer", s, e)
      /\ Quiet("verifier", s)
      /\ \A t : t # s => Untouched(t)
      /\ \A k \in DOMAIN log' \ DOMAIN log :
             log'[k].props = e.props /\ (log'[k] = e \/ log'[k].actor = "verifier")
    BY <1>8, ExtractionWritten DEF Inv, StoreInv
<1>10. WellShaped(run[w]) /\ run'[w] = [run[w] EXCEPT !.plan[i] = Marked("done")]
    BY <1>1 DEF Inv, RunsTyped
<1>11. /\ run'[w].plan = [run[w].plan EXCEPT ![i] = Marked("done")] /\ run'[w].pc = run[w].pc
       /\ run'[w].spans = run[w].spans /\ run'[w].extractor = run[w].extractor
       /\ run'[w].verifier = run[w].verifier
    BY <1>10 DEF WellShaped, RunRecord
<1>12. Writes(w, i, s, e)
  <2>1. \A p \in e.props : p.gen = Cardinality(Extractions(s))
    <3>1. e.props = Minted(s, claims)
        BY <1>3, <1>7
    <3>2. QED
        BY <3>1, MintedParts
  <2>2. /\ s = run[w].spans[i] /\ s \in Span
        /\ e.hash = _pipeline_hash(s, run[w].extractor)
        /\ run'[w].pc = "persist"
      BY <1>2, <1>3, <1>7, <1>11
  <2>3. QED
      BY <1>2, <1>9, <1>11, <2>1, <2>2 DEF Writes
<1>13. QED
    BY <1>2, <1>3, <1>7, <1>9, <1>12
\* After the write the span's newest extraction is e, and e is of another
\* pipeline than the one before.
LEMMA WritesKeepStore ==
    ASSUME Inv, NEW w \in Worker, NEW i, NEW s, NEW e, Writes(w, i, s, e)
    PROVE  StoreInv' /\ Within(w)
<1>1. /\ s \in Span /\ s = run[w].spans[i] /\ i \in DOMAIN run[w].plan /\ Pending(run[w].plan[i])
      /\ e.hash = _pipeline_hash(s, run[w].extractor)
      /\ LogKept /\ LogInv' /\ On(s)' = e.props /\ Entered("propositionizer", s, e)
      /\ \A t : t # s => Untouched(t)
    BY DEF Writes
<1>2. WellShaped(run[w]) /\ PendingOf(w) /\ IsLog /\ OneGeneration /\ NeverReextracted
    BY DEF Inv, RunsTyped, StoreInv, LogInv, RunOf
<1>3. PICK n \in DOMAIN log' \ DOMAIN log :
          /\ log'[n] = e /\ Newest(Extractions(s))' = e
          /\ Extractions(s)' = Extractions(s) \cup {n}
          /\ \A k \in Extractions(s) : k < n
    BY <1>1 DEF Entered, Extractions
<1>4. \A t : t # s => /\ On(t)' = On(t) /\ Extractions(t)' = Extractions(t)
                      /\ Extractions(t) # {} => Newest(Extractions(t))' = Newest(Extractions(t))
    BY <1>1, UntouchedReads DEF Untouched
<1>5. OneGeneration'
    BY <1>1, <1>2, <1>3, <1>4 DEF OneGeneration
<1>6. \A t : Extractions(t) \subseteq DOMAIN log /\ \A k \in Extractions(t) : log'[k] = log[k]
    BY <1>1 DEF Extractions, Entries, LogKept
<1>7. ASSUME NEW t \in Span, t # s, NEW k \in Extractions(t)', NEW m \in Extractions(t)', k < m,
             \A l \in Extractions(t)' : l <= k \/ m <= l
      PROVE  log'[k].hash # log'[m].hash
    BY <1>2, <1>4, <1>6, <1>7 DEF NeverReextracted
<1>8. ASSUME NEW k \in Extractions(s)', NEW m \in Extractions(s)', k < m,
             \A l \in Extractions(s)' : l <= k \/ m <= l
      PROVE  log'[k].hash # log'[m].hash
  <2>1. \A l \in Extractions(s) : l \in Nat /\ l < n
    <3>1. Len(log) \in Nat /\ DOMAIN log = 1 .. Len(log)
        BY <1>2, LogNumbers
    <3>2. QED
        BY <1>3, <1>6, <3>1
  <2>2. n \in Nat
    <3>1. Len(log') \in Nat /\ DOMAIN log' = 1 .. Len(log')
        BY <1>1 DEF LogKept, IsLog
    <3>2. QED
        BY <1>3, <3>1
  <2>3. k \in Extractions(s)
      BY <1>3, <1>8, <2>1, <2>2
  <2>4. CASE m \in Extractions(s)
      BY <1>1, <1>2, <1>3, <1>6, <1>8, <2>3, <2>4 DEF NeverReextracted
  <2>5. CASE m = n
    <3>1. Max(Extractions(s)) \in Extractions(s) /\ k <= Max(Extractions(s))
        BY <1>2, <1>6, <2>3, NewestExists
    <3>2. Max(Extractions(s)) <= k
        BY <1>3, <1>8, <2>1, <2>2, <2>5, <3>1
    <3>3. Max(Extractions(s)) = k
        BY <2>1, <2>3, <3>1, <3>2
    <3>4. _extracted_hash(s) = log[k].hash
        BY <2>3, <3>3 DEF _extracted_hash, Newest
    <3>5. log[k].hash # _pipeline_hash(s, run[w].extractor)
        BY <1>1, <1>2, <3>4 DEF PendingOf
    <3>6. QED
        BY <1>1, <1>3, <1>6, <2>3, <2>5, <3>5
  <2>6. QED
      BY <1>3, <1>8, <2>4, <2>5
<1>9. NeverReextracted'
    BY <1>7, <1>8 DEF NeverReextracted
<1>10. s \in SpansIn(run[w])
    BY <1>1, <1>2 DEF SpansIn, WellShaped
<1>11. Within(w)
    BY <1>1, <1>10 DEF Within
<1>12. QED
    BY <1>1, <1>5, <1>9, <1>11 DEF StoreInv

\* The run has done with the span, and what else it has to do stays as it was.
LEMMA WritesKeepRun ==
    ASSUME Inv, NEW w \in Worker, NEW i, NEW s, NEW e, Writes(w, i, s, e)
    PROVE  RunOf(w)'
<1>1. /\ s = run[w].spans[i] /\ i \in DOMAIN run[w].plan
      /\ e.hash = _pipeline_hash(s, run[w].extractor) /\ Entered("propositionizer", s, e)
      /\ \A t : t # s => Untouched(t)
      /\ run'[w].plan = [run[w].plan EXCEPT ![i] = Marked("done")]
      /\ run'[w].pc = "persist" /\ run'[w].spans = run[w].spans
      /\ run'[w].extractor = run[w].extractor
    BY DEF Writes
<1>2. WellShaped(run[w]) /\ PendingOf(w) /\ DoneOf(w)
    BY DEF Inv, RunsTyped, RunOf
<1>3. DOMAIN run'[w].plan = DOMAIN run[w].plan /\ DOMAIN run[w].plan = DOMAIN run[w].spans
    BY <1>1, <1>2 DEF WellShaped
<1>4. run'[w].plan[i].kind = "done" /\ ~Pending(run'[w].plan[i])
    BY <1>1 DEF Marked, Pending
<1>5. \A j \in DOMAIN run[w].plan : j # i =>
          /\ run'[w].plan[j] = run[w].plan[j]
          /\ Extractions(run[w].spans[j])' = Extractions(run[w].spans[j])
          /\ _extracted_hash(run[w].spans[j])' = _extracted_hash(run[w].spans[j])
  <2> TAKE j \in DOMAIN run[w].plan
  <2> HAVE j # i
  <2>1. PICK t : t = run[w].spans[j]
      OBVIOUS
  <2>2. t # s
      BY <1>1, <1>2, <1>3, <2>1, SpansAreDistinct
  <2>3. Extractions(t)' = Extractions(t) /\ _extracted_hash(t)' = _extracted_hash(t)
      BY <1>1, <2>2, UntouchedReads
  <2>4. QED
      BY <1>1, <2>1, <2>3
<1>6. _extracted_hash(s)' = _pipeline_hash(s, run[w].extractor)
    BY <1>1 DEF Entered, Extractions, _extracted_hash
<1>7. PendingOf(w)'
    BY <1>1, <1>2, <1>3, <1>4, <1>5 DEF PendingOf, _pipeline_hash
<1>8. DoneOf(w)'
    BY <1>1, <1>2, <1>3, <1>4, <1>5, <1>6 DEF DoneOf, _pipeline_hash
<1>9. LoadedOf(w)'
    BY <1>1 DEF LoadedOf
<1>10. QED
    BY <1>7, <1>8, <1>9 DEF RunOf

\* A backfill rewrites the scores of s, the span it has loaded, and says so in
\* the log: the verifier v has answered for the propositions ok.
Backfills(w, s, v, ok) ==
    /\ run[w].i \in DOMAIN run[w].spans /\ s = run[w].spans[run[w].i] /\ s \in Span
    /\ v = run[w].verifier /\ ok \subseteq On(s)
    /\ LogKept /\ LogInv' /\ Live' = Live /\ On(s)' = On(s)
    /\ \A p \in On(s) : faith'[p] = IF p \in ok THEN v ELSE Null
    /\ Quiet("propositionizer", s)
    /\ IF v = Null \/ On(s) = {} THEN Quiet("verifier", s)
       ELSE Entered("verifier", s, Verification(s, On(s), Stamp(On(s), ok, v)))
    /\ \A t : t # s => Untouched(t)
    /\ \A k \in DOMAIN log' \ DOMAIN log : log'[k].props = On(s) /\ log'[k].actor = "verifier"
    /\ run'[w].pc = "backfill" /\ run'[w].i = run[w].i + 1
    /\ run'[w].spans = run[w].spans /\ run'[w].plan = run[w].plan
    /\ run'[w].extractor = run[w].extractor /\ run'[w].verifier = v
    /\ run'[w].clean = (run[w].clean /\ ok = On(s))

LEMMA BackfillWrites ==
    ASSUME Inv, NEW w \in Worker, NEW answered, BackfillWrite(w, answered)
    PROVE  \E s, v, ok : Backfills(w, s, v, ok)
<1>1. /\ WellShaped(run[w]) /\ LoadedOf(w) /\ run[w].pc = "verify"
      /\ run[w].i \in DOMAIN run[w].spans /\ LogInv /\ OneGeneration
    BY DEF Inv, RunsTyped, RunOf, BackfillWrite, WellShaped, StoreInv
<1>2. PICK s, v, here, ok, score, rest :
          /\ s \in Span /\ s = run[w].spans[run[w].i] /\ v = run[w].verifier
          /\ here = On(s) /\ ok = {p \in here : p.claim \in answered}
          /\ score = [p \in here |-> IF p \in ok THEN v ELSE Null]
          /\ rest = VerifyEntry(s, here, ok, v)
    BY <1>1, SpansAreDistinct
<1>3. run[w].loaded = here
    BY <1>1, <1>2 DEF LoadedOf
<1>4. \A p \in here : score[p] = IF p \in ok THEN v ELSE Null
    BY <1>2
<1>5. /\ faith' = [p \in Live |-> IF p \notin here THEN faith[p] ELSE IF p \in ok THEN v ELSE Null]
      /\ log' = log \o rest
      /\ run' = [run EXCEPT ![w] = [run[w] EXCEPT !.pc = "backfill", !.i = @ + 1, !.loaded = {},
                                                  !.clean = @ /\ ok = here]]
    BY <1>2, <1>3 DEF BackfillWrite
<1>6. faith' = [p \in Live |-> IF p \notin On(s) THEN faith[p] ELSE score[p]]
    BY <1>2, <1>4, <1>5
<1>7. /\ s \in Span
      /\ rest = <<>> \/ \E sig : rest = <<Verification(s, On(s), sig)>>
      /\ v = Null \/ here = {} => rest = <<>>
      /\ ~(v = Null \/ here = {}) => rest = <<Verification(s, On(s), Stamp(On(s), ok, v))>>
    BY <1>2 DEF VerifyEntry
<1>8. /\ LogKept /\ LogInv'
      /\ On(s)' = On(s) /\ \A p \in On(s) : faith'[p] = score[p]
      /\ Quiet("propositionizer", s)
      /\ rest = <<>> => Quiet("verifier", s)
      /\ \A sig : rest = <<Verification(s, On(s), sig)>> =>
                      Entered("verifier", s, Verification(s, On(s), sig))
      /\ \A t : t # s => Untouched(t)
      /\ Live' = Live
      /\ \A k \in DOMAIN log' \ DOMAIN log : log'[k].props = On(s) /\ log'[k].actor = "verifier"
    BY <1>1, <1>5, <1>6, <1>7, BackfillWritten
<1>9. /\ run'[w].pc = "backfill" /\ run'[w].i = run[w].i + 1
      /\ run'[w].spans = run[w].spans /\ run'[w].plan = run[w].plan
      /\ run'[w].extractor = run[w].extractor /\ run'[w].verifier = v
      /\ run'[w].clean = (run[w].clean /\ ok = here)
    BY <1>1, <1>2, <1>5 DEF Inv, RunsTyped, WellShaped, RunRecord
<1>10. IF v = Null \/ On(s) = {} THEN Quiet("verifier", s)
       ELSE Entered("verifier", s, Verification(s, On(s), Stamp(On(s), ok, v)))
    BY <1>2, <1>7, <1>8
<1>11. \A p \in On(s) : faith'[p] = IF p \in ok THEN v ELSE Null
    BY <1>2, <1>4, <1>8
<1>12. run[w].i \in DOMAIN run[w].spans /\ ok \subseteq On(s)
    BY <1>1, <1>2
<1>13. run'[w].clean = (run[w].clean /\ ok = On(s))
    BY <1>2, <1>9
<1>14. Backfills(w, s, v, ok)
    BY <1>2, <1>8, <1>9, <1>10, <1>11, <1>12, <1>13 DEF Backfills
<1>15. QED
    BY <1>14

\* A span whose extractions a step leaves alone.
Kept(s) ==
    /\ On(s)' = On(s) /\ Quiet("propositionizer", s)

LEMMA KeptReads ==
    ASSUME NEW s, Kept(s)
    PROVE  /\ On(s)' = On(s)
           /\ Extractions(s)' = Extractions(s) /\ _extracted_hash(s)' = _extracted_hash(s)
           /\ Extractions(s) # {} => Newest(Extractions(s))' = Newest(Extractions(s))
BY DEF Kept, Quiet, Extractions, _extracted_hash

LEMMA ExtractionsKeepStore ==
    ASSUME StoreInv, LogKept, LogInv', \A s \in Span : Kept(s)
    PROVE  StoreInv'
<1>1. \A s \in Span :
          /\ On(s)' = On(s) /\ Extractions(s)' = Extractions(s)
          /\ Extractions(s) # {} => Newest(Extractions(s))' = Newest(Extractions(s))
    BY KeptReads
<1>2. \A s : \A k \in Extractions(s) : log'[k] = log[k]
    BY DEF Extractions, Entries, LogKept
<1>3. OneGeneration'
    BY <1>1 DEF StoreInv, OneGeneration
<1>4. NeverReextracted'
    BY <1>1, <1>2 DEF StoreInv, NeverReextracted
<1>5. QED
    BY <1>3, <1>4 DEF StoreInv

LEMMA SilentKeepsStore ==
    ASSUME StoreInv, UNCHANGED <<faith, log>>
    PROVE  StoreInv' /\ \A w \in Worker : Within(w)
<1>1. LogKept
    BY DEF StoreInv, LogInv, IsLog, LogKept
<1>2. \A s : Extractions(s)' = Extractions(s)
    BY DEF Extractions, Entries
<1>3. LogInv'
    BY <1>2 DEF StoreInv, LogInv, IsLog, Accounted, _pipeline_hash
<1>4. \A s : Untouched(s)
    BY NothingWritten
<1>5. QED
    BY <1>1, <1>3, <1>4, ExtractionsKeepStore DEF Within, Untouched, Kept

\* A run keeps what it knows of its spans if it stays at what it had planned.
LEMMA RunKept ==
    ASSUME Inv, NEW w \in Worker, \A s \in SpansIn(run[w]) : Kept(s),
           run'[w].spans = run[w].spans, run'[w].extractor = run[w].extractor,
           DOMAIN run'[w].plan = DOMAIN run[w].plan,
           \A i \in DOMAIN run[w].plan :
               \/ run'[w].plan[i] = run[w].plan[i]
               \/ run'[w].plan[i].kind \notin {"infer", "replay", "done"}
    PROVE  PendingOf(w)' /\ DoneOf(w)'
<1>1. WellShaped(run[w]) /\ PendingOf(w) /\ DoneOf(w)
    BY DEF Inv, RunsTyped, RunOf
<1>2. \A i \in DOMAIN run[w].plan :
          /\ Extractions(run[w].spans[i])' = Extractions(run[w].spans[i])
          /\ _extracted_hash(run[w].spans[i])' = _extracted_hash(run[w].spans[i])
  <2> TAKE i \in DOMAIN run[w].plan
  <2>1. PICK s : s = run[w].spans[i]
      OBVIOUS
  <2>2. s \in SpansIn(run[w])
      BY <1>1, <2>1 DEF SpansIn, WellShaped
  <2>3. Extractions(s)' = Extractions(s) /\ _extracted_hash(s)' = _extracted_hash(s)
      BY <2>2, KeptReads
  <2>4. QED
      BY <2>1, <2>3
<1>3. PendingOf(w)'
    BY <1>1, <1>2 DEF PendingOf, Pending, _pipeline_hash
<1>4. DoneOf(w)'
    BY <1>1, <1>2 DEF DoneOf, _pipeline_hash
<1>5. QED
    BY <1>3, <1>4

-----------------------------------------------------------------------------
(* Every step keeps the invariant. *)

\* No content hash is Null: a span is stale when it has been extracted before.
LEMMA StaleMeansExtracted ==
    ASSUME LogInv, NEW s
    PROVE  Stale(s) <=> Extractions(s) # {}
<1>1. ASSUME Extractions(s) # {} PROVE Newest(Extractions(s)).hash # Null
  <2>1. PICK k \in DOMAIN log : Newest(Extractions(s)) = log[k] /\ log[k].actor = "propositionizer"
      BY <1>1, NewestEntry DEF Extractions, LogInv
  <2>2. PICK x \in Extractor : log[k].hash = _pipeline_hash(log[k].span, x) /\ log[k].span \in Span
      BY <2>1 DEF LogInv, Accounted
  <2>3. QED
      BY <2>1, <2>2, NullIsNothing DEF _pipeline_hash
<1>2. QED
    BY <1>1 DEF Stale, _extracted_hash

\* What a run plans for s, the span it looks at.
Plans(w, i, s, entry) ==
    /\ i \in DOMAIN run[w].plan /\ s = run[w].spans[i] /\ s \in Span
    /\ run'[w].spans = run[w].spans /\ run'[w].extractor = run[w].extractor
    /\ run'[w].pc = "filter" /\ run'[w].plan = [run[w].plan EXCEPT ![i] = entry]
    /\ \/ /\ entry = Marked("done")
          /\ _extracted_hash(s) = _pipeline_hash(s, run[w].extractor)
       \/ /\ entry = Planned(s, _pipeline_hash(s, run[w].extractor)) /\ ~Refused(s)
          /\ _extracted_hash(s) # _pipeline_hash(s, run[w].extractor)

LEMMA FilterPlans ==
    ASSUME RunsTyped, NEW w \in Worker, Filter(w)
    PROVE  run'[w] = NoRun \/ \E i, s, entry : Plans(w, i, s, entry)
<1>1. WellShaped(run[w]) /\ run[w].pc = "filter" /\ run[w].i <= Len(run[w].spans)
    BY DEF RunsTyped, Filter
<1>2. run[w].i \in DOMAIN run[w].spans /\ run[w].i \in DOMAIN run[w].plan
    BY <1>1, SpansAreDistinct DEF WellShaped, RunRecord
<1>3. PICK i, s, h :
          /\ i \in DOMAIN run[w].plan /\ i = run[w].i /\ s \in Span
          /\ s = run[w].spans[i] /\ h = _pipeline_hash(s, run[w].extractor)
    BY <1>1, <1>2, SpansAreDistinct
<1>4. ASSUME NEW entry, run'[w] = [run[w] EXCEPT !.plan[i] = entry, !.i = i + 1]
      PROVE  /\ run'[w].spans = run[w].spans /\ run'[w].extractor = run[w].extractor
             /\ run'[w].pc = "filter" /\ run'[w].plan = [run[w].plan EXCEPT ![i] = entry]
    BY <1>1, <1>4 DEF WellShaped, RunRecord
<1>5. run'[w] = IF AlreadyExtracted(s, h) THEN [run[w] EXCEPT !.plan[i] = Marked("done"), !.i = i + 1]
                ELSE IF Refused(s) THEN NoRun
                ELSE [run[w] EXCEPT !.plan[i] = Planned(s, h), !.i = i + 1]
    BY <1>3 DEF Filter, RunsTyped
<1>6. CASE AlreadyExtracted(s, h)
  <2>1. Plans(w, i, s, Marked("done"))
      BY <1>3, <1>4, <1>5, <1>6 DEF AlreadyExtracted, Plans
  <2>2. QED
      BY <2>1
<1>7. CASE ~AlreadyExtracted(s, h) /\ ~Refused(s)
  <2>1. PICK entry : entry = Planned(s, h)
      OBVIOUS
  <2>2. Plans(w, i, s, entry)
      BY <1>3, <1>4, <1>5, <1>7, <2>1 DEF AlreadyExtracted, Plans
  <2>3. QED
      BY <2>2
<1>8. QED
    BY <1>5, <1>6, <1>7

LEMMA PlannedParts ==
    ASSUME NEW s, NEW h
    PROVE  /\ Planned(s, h).kind \in {"infer", "replay"} /\ Planned(s, h).stale = Stale(s)
           /\ Planned(s, h).kind = "infer" <=> ~(deployed.reuse_extractions /\ HasReusable(h))
           /\ Planned(s, h).kind = "replay" => Planned(s, h).cached = find_reusable_extraction(h)
BY DEF Planned

LEMMA FilterKeepsRun ==
    ASSUME Inv, NEW w \in Worker, Filter(w)
    PROVE  RunOf(w)'
<1>1. WellShaped(run[w]) /\ PendingOf(w) /\ DoneOf(w)
    BY DEF Inv, RunsTyped, RunOf
<1>2. UNCHANGED <<faith, log>> /\ \A s : Untouched(s)
    BY NothingWritten DEF Filter
<1>3. \A s : /\ Extractions(s)' = Extractions(s) /\ _extracted_hash(s)' = _extracted_hash(s)
    BY <1>2, UntouchedReads
<1>4. CASE run'[w] = NoRun
    BY <1>4 DEF RunOf, PendingOf, DoneOf, LoadedOf, NoRun
<1>5. ASSUME NEW i, NEW s, NEW entry, Plans(w, i, s, entry)
      PROVE  RunOf(w)'
  <2>1. /\ i \in DOMAIN run[w].plan /\ s = run[w].spans[i]
        /\ run'[w].spans = run[w].spans /\ run'[w].extractor = run[w].extractor
        /\ run'[w].pc = "filter" /\ run'[w].plan = [run[w].plan EXCEPT ![i] = entry]
      BY <1>5 DEF Plans
  <2>2. \/ /\ entry.kind = "done" /\ ~Pending(entry)
           /\ _extracted_hash(s) = _pipeline_hash(s, run[w].extractor)
        \/ /\ entry.kind # "done" /\ (entry.stale <=> Extractions(s) # {})
           /\ _extracted_hash(s) # _pipeline_hash(s, run[w].extractor)
      BY <1>5, PlannedParts, StaleMeansExtracted DEF Plans, Marked, Pending, Inv, StoreInv
  <2>3. PendingOf(w)'
      BY <1>1, <1>3, <2>1, <2>2 DEF PendingOf, _pipeline_hash
  <2>4. DoneOf(w)'
      BY <1>1, <1>3, <2>1, <2>2 DEF DoneOf, _pipeline_hash
  <2>5. LoadedOf(w)'
      BY <2>1 DEF LoadedOf
  <2>6. QED
      BY <2>3, <2>4, <2>5 DEF RunOf
<1>6. QED
    BY <1>4, <1>5, FilterPlans DEF Inv

\* The other steps that neither write a proposition nor an Action.
LEMMA SilentKeepsRun ==
    ASSUME Inv, NEW w \in Worker, UNCHANGED <<faith, log>>,
           \/ \E d \in deployed.documents, x \in Extractor, v \in deployed.verifiers \cup {Null} :
                 Start(w, d, x, v)
           \/ Filtered(w) \/ Isolate(w) \/ Persisted(w) \/ BackfillLoad(w) \/ BackfillFails(w)
           \/ Backfilled(w) \/ Report(w) \/ Crash(w)
    PROVE  RunOf(w)'
<1>1. WellShaped(run[w]) /\ \E Runs : run \in [Worker -> Runs]
    BY DEF Inv, RunsTyped
<1>2. \A s : Kept(s) /\ On(s)' = On(s)
    BY NothingWritten DEF Untouched, Kept
<1>3. ASSUME run'[w].spans = run[w].spans, run'[w].extractor = run[w].extractor,
             DOMAIN run'[w].plan = DOMAIN run[w].plan,
             \A i \in DOMAIN run[w].plan :
                 \/ run'[w].plan[i] = run[w].plan[i]
                 \/ run'[w].plan[i].kind \notin {"infer", "replay", "done"},
             LoadedOf(w)'
      PROVE  RunOf(w)'
    BY <1>2, <1>3, RunKept DEF RunOf
<1>4. CASE run'[w].plan = run[w].plan /\ run'[w].spans = run[w].spans
           /\ run'[w].extractor = run[w].extractor /\ run'[w].pc # "verify"
  <2>1. LoadedOf(w)'
      BY <1>4 DEF LoadedOf
  <2>2. QED
      BY <1>3, <1>4, <2>1
<1>5. CASE run'[w] = NoRun
    BY <1>5 DEF RunOf, PendingOf, DoneOf, LoadedOf, NoRun
<1>6. ASSUME NEW d, NEW x, NEW v, Start(w, d, x, v)
      PROVE  RunOf(w)'
  <2>1. /\ run'[w].pc = "filter"
        /\ run'[w].plan = [i \in DOMAIN SpansOf[d] |-> Marked("new")]
      BY <1>1, <1>6 DEF Start, NoRun
  <2>2. QED
      BY <2>1 DEF RunOf, PendingOf, DoneOf, LoadedOf, Marked, Pending
<1>7. CASE Isolate(w)
  <2>1. PICK i \in DOMAIN run[w].plan :
            run' = [run EXCEPT ![w].plan[i] = Marked("failed")] /\ run[w].pc = "persist"
      BY <1>7 DEF Isolate, IsNext
  <2>2. /\ run'[w].plan = [run[w].plan EXCEPT ![i] = Marked("failed")]
        /\ run'[w].spans = run[w].spans /\ run'[w].extractor = run[w].extractor
        /\ run'[w].pc = "persist"
      BY <1>1, <2>1 DEF WellShaped, RunRecord
  <2>3. LoadedOf(w)' /\ Marked("failed").kind = "failed"
      BY <2>2 DEF LoadedOf, Marked
  <2>4. QED
      BY <1>3, <2>2, <2>3
<1>8. CASE BackfillLoad(w)
  <2>1. CASE run'[w] = [run[w] EXCEPT !.i = run[w].i + 1]
    <3>1. run'[w].pc # "verify"
        BY <1>1, <1>8, <2>1 DEF BackfillLoad, WellShaped, RunRecord
    <3>2. QED
        BY <1>1, <1>4, <2>1, <3>1 DEF WellShaped, RunRecord
  <2>2. ASSUME NEW s, s = run[w].spans[run[w].i],
               run'[w] = [run[w] EXCEPT !.pc = "verify", !.loaded = On(s)]
        PROVE  RunOf(w)'
    <3>1. /\ run'[w].plan = run[w].plan /\ run'[w].spans = run[w].spans
          /\ run'[w].extractor = run[w].extractor /\ run'[w].i = run[w].i
          /\ run'[w].loaded = On(s)
        BY <1>1, <2>2 DEF WellShaped, RunRecord
    <3>2. LoadedOf(w)'
        BY <1>2, <2>2, <3>1 DEF LoadedOf
    <3>3. QED
        BY <1>3, <3>1, <3>2
  <2>3. \/ run'[w] = [run[w] EXCEPT !.i = run[w].i + 1]
        \/ \E s : /\ s = run[w].spans[run[w].i]
                  /\ run'[w] = [run[w] EXCEPT !.pc = "verify", !.loaded = On(s)]
      BY <1>1, <1>8 DEF BackfillLoad
  <2>4. QED
      BY <2>1, <2>2, <2>3
<1>9. CASE Filtered(w) \/ Persisted(w) \/ BackfillFails(w) \/ Backfilled(w)
    BY <1>1, <1>4, <1>9 DEF Filtered, Persisted, BackfillFails, Backfilled, WellShaped, RunRecord
<1>10. CASE Report(w) \/ Crash(w)
    BY <1>1, <1>5, <1>10 DEF Report, Crash
<1>11. QED
    BY <1>6, <1>7, <1>8, <1>9, <1>10

\* What a step of worker w does to the invariant.
LEMMA WorkerKeeps ==
    ASSUME Inv, NEW w \in Worker, WorkerStep(w)
    PROVE  StoreInv' /\ Within(w) /\ RunOf(w)'
<1>1. ASSUME NEW i, NEW s, NEW e, Writes(w, i, s, e)
      PROVE  StoreInv' /\ Within(w) /\ RunOf(w)'
    BY <1>1, WritesKeepStore, WritesKeepRun
<1>2. ASSUME NEW claims, NEW answered, Persist(w, claims, answered)
      PROVE  StoreInv' /\ Within(w) /\ RunOf(w)'
    BY <1>1, <1>2, PersistWrites
<1>3. CASE Replay(w)
    BY <1>1, <1>3, ReplayWrites
<1>4. ASSUME NEW answered, BackfillWrite(w, answered)
      PROVE  StoreInv' /\ Within(w) /\ RunOf(w)'
  <2>1. PICK s, v, ok : Backfills(w, s, v, ok)
      BY <1>4, BackfillWrites
  <2>2. /\ run[w].i \in DOMAIN run[w].spans /\ s = run[w].spans[run[w].i]
        /\ LogKept /\ LogInv' /\ On(s)' = On(s) /\ Quiet("propositionizer", s)
        /\ \A t : t # s => Untouched(t)
        /\ run'[w].pc = "backfill" /\ run'[w].spans = run[w].spans
        /\ run'[w].plan = run[w].plan /\ run'[w].extractor = run[w].extractor
      BY <2>1 DEF Backfills
  <2>3. \A t : Kept(t)
      BY <2>2 DEF Kept, Untouched
  <2>4. StoreInv'
      BY <2>2, <2>3, ExtractionsKeepStore DEF Inv
  <2>5. Within(w)
      BY <2>2 DEF Within, SpansIn
  <2>6. LoadedOf(w)'
      BY <2>2 DEF LoadedOf
  <2>7. QED
      BY <2>2, <2>3, <2>4, <2>5, <2>6, RunKept DEF RunOf
<1>5. ASSUME UNCHANGED <<faith, log>>,
             \/ \E d \in deployed.documents, x \in Extractor, v \in deployed.verifiers \cup {Null} :
                   Start(w, d, x, v)
             \/ Filtered(w) \/ Isolate(w) \/ Persisted(w) \/ BackfillLoad(w) \/ BackfillFails(w)
             \/ Backfilled(w) \/ Report(w) \/ Crash(w)
      PROVE  StoreInv' /\ Within(w) /\ RunOf(w)'
  <2>1. StoreInv' /\ Within(w)
      BY <1>5, SilentKeepsStore DEF Inv
  <2>2. RunOf(w)'
      BY <1>5, SilentKeepsRun
  <2>3. QED
      BY <2>1, <2>2
<1>6. CASE Filter(w)
    BY <1>6, SilentKeepsStore, FilterKeepsRun DEF Inv, Filter
<1>7. QED
    BY <1>2, <1>3, <1>4, <1>5, <1>6
       DEF WorkerStep, Start, Filtered, Isolate, Persisted, BackfillLoad, BackfillFails, Backfilled,
           Report, Crash

LEMMA InvNext ==
    ASSUME Inv, RunsApart, [Next]_vars
    PROVE  Inv'
<1>1. /\ RunsTyped /\ RunsTyped'
      /\ \A w \in Worker : WorkerStep(w) => \A u \in Worker : u # w => run'[u] = run[u]
    BY RunsTypedNext DEF Inv
<1>2. ASSUME NEW w \in Worker, WorkerStep(w)
      PROVE  Inv'
  <2>1. StoreInv' /\ Within(w) /\ RunOf(w)'
      BY <1>2, WorkerKeeps
  <2>2. ASSUME NEW u \in Worker, u # w PROVE RunOf(u)'
      BY <1>1, <1>2, <2>1, <2>2, OthersKeep DEF Inv
  <2>3. QED
      BY <1>1, <2>1, <2>2 DEF Inv
<1>3. CASE UNCHANGED <<faith, log, run>>
  <2>1. StoreInv'
      BY <1>3, SilentKeepsStore DEF Inv
  <2>2. \A s : Kept(s) /\ On(s)' = On(s)
      BY <1>3, NothingWritten DEF Untouched, Kept
  <2>3. ASSUME NEW w \in Worker PROVE RunOf(w)'
    <3>1. PendingOf(w)' /\ DoneOf(w)'
        BY <1>3, <2>2, RunKept
    <3>2. LoadedOf(w)'
        BY <1>3, <2>2 DEF LoadedOf, Inv, RunOf
    <3>3. QED
        BY <3>1, <3>2 DEF RunOf
  <2>4. QED
      BY <1>1, <2>1, <2>3 DEF Inv
<1>4. QED
    BY <1>2, <1>3 DEF Next, vars, ExtractStart, ExtractPersist

LEMMA InvInit == Init => Inv
<1> SUFFICES ASSUME Init PROVE Inv
    OBVIOUS
<1>1. RunsTyped
  <2>1. run \in [Worker -> {NoRun}] /\ \A w \in Worker : run[w] = NoRun
      BY DEF Init
  <2>2. QED
      BY <2>1, NoRunIsShaped DEF Init, RunsTyped
<1>2. StoreInv
  <2>1. DOMAIN log = {} /\ log \in Seq({}) /\ Live = {}
      BY DEF Init, Live
  <2>2. \A s : Extractions(s) = {} /\ On(s) = {}
      BY <2>1 DEF Extractions, Entries, On
  <2>3. QED
      BY <2>1, <2>2 DEF StoreInv, LogInv, IsLog, OneGeneration, NeverReextracted
<1>3. \A w \in Worker : RunOf(w)
    BY DEF Init, RunOf, PendingOf, DoneOf, LoadedOf, NoRun
<1>4. QED
    BY <1>1, <1>2, <1>3 DEF Inv

\* As long as runs keep apart, a span has exactly the propositions of its newest
\* extraction: persist purges and writes in one transaction what filter has seen.
THEOREM GenerationsDoNotMix == Spec /\ []RunsApart => []OneGeneration
<1>1. Inv /\ RunsApart /\ [Next]_vars => Inv'
    BY InvNext
<1>2. Inv => OneGeneration
    BY DEF Inv, StoreInv
<1>3. QED
    BY InvInit, <1>1, <1>2, PTL DEF Spec

\* As long as runs keep apart, no span is extracted twice in a row under one
\* content hash: filter skips what the newest extraction already holds.
THEOREM ExtractionIsNotRepeated == Spec /\ []RunsApart => []NeverReextracted
<1>1. Inv /\ RunsApart /\ [Next]_vars => Inv'
    BY InvNext
<1>2. Inv => NeverReextracted
    BY DEF Inv, StoreInv
<1>3. QED
    BY InvInit, <1>1, <1>2, PTL DEF Spec

-----------------------------------------------------------------------------
(* Facts: where stale spans are refused, nothing is ever purged.           *)

LEMMA StaleNeverPlanned ==
    ASSUME RunsTyped, ~deployed.cascade_reextract, NEW w \in Worker, NothingStale(w), WorkerStep(w)
    PROVE  NothingStale(w)'
<1>1. WellShaped(run[w]) /\ \E Runs : run \in [Worker -> Runs]
    BY DEF RunsTyped
<1>2. CASE run'[w].plan = run[w].plan
    BY <1>2 DEF NothingStale
<1>3. ASSUME NEW i, NEW entry, ~Pending(entry) \/ ~entry.stale,
             run'[w].plan = [run[w].plan EXCEPT ![i] = entry]
      PROVE  NothingStale(w)'
    BY <1>3 DEF NothingStale
<1>4. CASE run'[w] = NoRun
    BY <1>4 DEF NothingStale, NoRun
<1>5. \A kind \in {"new", "done", "failed"} : ~Pending(Marked(kind))
    BY DEF Marked, Pending
<1>6. ASSUME NEW d, NEW x, NEW v, Start(w, d, x, v)
      PROVE  NothingStale(w)'
  <2>1. run'[w].plan = [i \in DOMAIN SpansOf[d] |-> Marked("new")]
      BY <1>1, <1>6 DEF Start, NoRun
  <2>2. QED
      BY <1>5, <2>1 DEF NothingStale
<1>7. CASE Filter(w)
  <2>1. ASSUME NEW i, NEW s, NEW entry, Plans(w, i, s, entry)
        PROVE  ~Pending(entry) \/ ~entry.stale
      BY <1>5, <2>1, PlannedParts DEF Plans, Refused
  <2>2. ASSUME NEW i, NEW s, NEW entry, Plans(w, i, s, entry)
        PROVE  NothingStale(w)'
      BY <1>3, <2>1, <2>2 DEF Plans
  <2>3. QED
      BY <1>4, <1>7, <2>2, FilterPlans
<1>8. ASSUME NEW claims, NEW answered, Persist(w, claims, answered)
      PROVE  NothingStale(w)'
  <2>1. PICK i, clean : run' = [run EXCEPT ![w].plan[i] = Marked("done"), ![w].clean = clean]
      BY <1>1, <1>8 DEF Persist
  <2>2. run'[w].plan = [run[w].plan EXCEPT ![i] = Marked("done")]
      BY <1>1, <2>1 DEF WellShaped, RunRecord
  <2>3. QED
      BY <1>3, <1>5, <2>2
<1>9. CASE Replay(w) \/ Isolate(w)
  <2>1. PICK i, kind : /\ run' = [run EXCEPT ![w].plan[i] = Marked(kind)]
                       /\ kind \in {"done", "failed"}
      BY <1>9 DEF Replay, Isolate
  <2>2. run'[w].plan = [run[w].plan EXCEPT ![i] = Marked(kind)]
      BY <1>1, <2>1 DEF WellShaped, RunRecord
  <2>3. QED
      BY <1>3, <1>5, <2>1, <2>2
<1>10. CASE \/ Filtered(w) \/ Persisted(w) \/ BackfillLoad(w) \/ BackfillFails(w)
            \/ Backfilled(w) \/ \E answered : BackfillWrite(w, answered)
  <2>1. CASE Filtered(w) \/ Persisted(w) \/ BackfillFails(w) \/ Backfilled(w)
      BY <1>1, <1>2, <2>1
         DEF Filtered, Persisted, BackfillFails, Backfilled, WellShaped, RunRecord
  <2>2. CASE BackfillLoad(w)
      BY <1>1, <1>2, <2>2 DEF BackfillLoad, WellShaped, RunRecord
  <2>3. CASE \E answered : BackfillWrite(w, answered)
      BY <1>1, <1>2, <2>3 DEF BackfillWrite, WellShaped, RunRecord
  <2>4. QED
      BY <1>10, <2>1, <2>2, <2>3
<1>11. CASE Report(w) \/ Crash(w)
    BY <1>1, <1>4, <1>11 DEF Report, Crash
<1>12. QED
    BY <1>6, <1>7, <1>8, <1>9, <1>10, <1>11 DEF WorkerStep

LEMMA NothingPurged ==
    ASSUME NEW w \in Worker, NothingStale(w), WorkerStep(w), \A p \in DOMAIN facts : facts[p]
    PROVE  /\ Live \subseteq Live' /\ extracting' = extracting
           /\ \A p \in DOMAIN facts' : facts'[p]
<1>1. ASSUME NEW new, PurgeAndWrite({}, new)
      PROVE  Live \subseteq Live' /\ \A p \in DOMAIN facts' : facts'[p]
    BY <1>1 DEF PurgeAndWrite, Live
<1>2. CASE Replay(w) \/ \E claims, answered : Persist(w, claims, answered)
  <2>1. PICK i \in DOMAIN run[w].plan :
            /\ Pending(run[w].plan[i]) /\ extracting' = extracting
            /\ \E new : PurgeAndWrite(IF run[w].plan[i].stale THEN On(run[w].spans[i]) ELSE {}, new)
      BY <1>2 DEF Replay, Persist, IsNext, Waiting, Pending
  <2>2. ~run[w].plan[i].stale
      BY <2>1 DEF NothingStale
  <2>3. QED
      BY <1>1, <2>1, <2>2
<1>3. ASSUME NEW answered, BackfillWrite(w, answered)
      PROVE  Live' = Live /\ UNCHANGED <<facts, extracting>>
    BY <1>3 DEF BackfillWrite, Live
<1>4. QED
    BY <1>2, <1>3
       DEF WorkerStep, Start, Filter, Filtered, Isolate, Persisted, BackfillLoad, BackfillFails,
           Backfilled, Report, Crash, Live

LEMMA StandingInit == Init => StandingInv
BY DEF Init, StandingInv, NothingStale, NoRun

LEMMA StandingNext ==
    ASSUME RunsTyped, StandingInv, [Next]_vars
    PROVE  StandingInv'
<1>1. deployed' = deployed
    BY DEF Next, vars
<1> SUFFICES ASSUME ~deployed.cascade_reextract
             PROVE  /\ \A w \in Worker : NothingStale(w)'
                    /\ extracting' # Null => extracting' \in Live'
                    /\ \A p \in DOMAIN facts' : facts'[p]
    BY <1>1 DEF StandingInv
<1>2. /\ \A w \in Worker : NothingStale(w)
      /\ extracting # Null => extracting \in Live
      /\ \A p \in DOMAIN facts : facts[p]
    BY DEF StandingInv
<1>3. ASSUME UNCHANGED run PROVE \A w \in Worker : NothingStale(w)'
    BY <1>2, <1>3 DEF NothingStale
<1>4. ASSUME NEW w \in Worker, WorkerStep(w)
      PROVE  /\ \A u \in Worker : NothingStale(u)'
             /\ extracting' # Null => extracting' \in Live'
             /\ \A p \in DOMAIN facts' : facts'[p]
  <2>1. NothingStale(w)'
      BY <1>2, <1>4, StaleNeverPlanned
  <2>2. \A u \in Worker : u # w => run'[u] = run[u]
      BY <1>4, RunsTypedNext
  <2>3. \A u \in Worker : u # w => NothingStale(u)'
      BY <1>2, <2>2 DEF NothingStale
  <2>4. QED
      BY <1>2, <1>4, <2>1, <2>3, NothingPurged
<1>5. CASE ExtractPersist \/ \E p \in Live : ExtractStart(p)
    BY <1>2, <1>3, <1>5 DEF ExtractPersist, ExtractStart, Live
<1>6. CASE UNCHANGED vars
    BY <1>2, <1>3, <1>6 DEF vars, Live
<1>7. QED
    BY <1>4, <1>5, <1>6 DEF Next

\* No Fact loses its proposition where a purge is refused: a span is written
\* without a purge, because filter has refused it if there was anything to purge.
THEOREM FactsKeepTheirProposition == Spec => []FactsStayGroundedWithoutCascade
<1>1. Init => RunsTyped
    BY InvInit DEF Inv
<1>2. RunsTyped /\ [Next]_vars => RunsTyped'
    BY RunsTypedNext
<1>3. StandingInv => FactsStayGroundedWithoutCascade
    BY DEF StandingInv, FactsStayGroundedWithoutCascade, FactsStayGrounded
<1>4. QED
    BY StandingInit, StandingNext, <1>1, <1>2, <1>3, PTL DEF Spec

-----------------------------------------------------------------------------
(* Identities and reports, without reuse: an identity is never copied. *)

LEMMA IdentityKept ==
    ASSUME NEW s, Untouched(s)
    PROVE  /\ _span_verify_identity(s)' = _span_verify_identity(s)
           /\ Unsigned(s) => Unsigned(s)'
           /\ Assessed(s) => Assessed(s)'
<1>1. /\ On(s)' = On(s) /\ \A p \in On(s) : faith'[p] = faith[p]
      /\ Extractions(s)' = Extractions(s)
      /\ Extractions(s) # {} => Newest(Extractions(s))' = Newest(Extractions(s))
      /\ Verifications(s)' = Verifications(s)
      /\ Verifications(s) # {} => Newest(Verifications(s))' = Newest(Verifications(s))
    BY UntouchedReads DEF Untouched
<1>2. NewestVerification(s)' = NewestVerification(s)
    BY <1>1 DEF NewestVerification
<1>3. NewestVerification(s) # Null => CoversCurrent(s)' = CoversCurrent(s)
    BY <1>1 DEF NewestVerification, CoversCurrent
<1>4. _span_verify_identity(s)' = _span_verify_identity(s)
    BY <1>1, <1>2, <1>3 DEF _span_verify_identity
<1>5. QED
    BY <1>1, <1>4 DEF Unsigned, Assessed

\* A verification that covers a whole span and is signed is true of it.
LEMMA SignedIsAssessed ==
    ASSUME NEW s, NEW ids, NEW ok, NEW v, On(s)' = ids, Unsigned(s)',
           \A p \in ids : faith'[p] = IF p \in ok THEN v ELSE Null,
           Entered("verifier", s, Verification(s, ids, Stamp(ids, ok, v)))
    PROVE  Assessed(s)'
<1>1. /\ Newest(Verifications(s))' = Verification(s, ids, Stamp(ids, ok, v))
      /\ Verification(s, ids, Stamp(ids, ok, v)).sig = Stamp(ids, ok, v)
    BY DEF Entered, Verification, Verifications
<1>2. ASSUME _span_verify_identity(s)' # Null
      PROVE  _span_verify_identity(s)' = v /\ ok = ids
  <2>1. _span_verify_identity(s)' = Newest(Verifications(s))'.sig
      BY <1>2 DEF Unsigned, _span_verify_identity, NewestVerification
  <2>2. Stamp(ids, ok, v) # Null
      BY <1>1, <1>2, <2>1
  <2>3. QED
      BY <1>1, <2>1, <2>2 DEF Stamp
<1>3. QED
    BY <1>2 DEF Assessed

\* The extraction of a span starts it afresh: no earlier verification covers
\* a proposition of the new generation.
LEMMA ExtractionIsAssessed ==
    ASSUME Inv, NEW w \in Worker, NEW i, NEW s, NEW e, NEW ok, NEW v, Writes(w, i, s, e),
           e.sig = Null, \A p \in e.props : faith'[p] = IF p \in ok THEN v ELSE Null,
           IF v = Null \/ e.props = {} THEN Quiet("verifier", s)
           ELSE Entered("verifier", s, Verification(s, e.props, Stamp(e.props, ok, v)))
    PROVE  Unsigned(s)' /\ Assessed(s)'
<1>1. /\ On(s)' = e.props /\ Newest(Extractions(s))' = e
      /\ \A p \in e.props : p.gen = Cardinality(Extractions(s))
    BY DEF Writes, Entered, Extractions
<1>2. Unsigned(s)'
    BY <1>1 DEF Unsigned
<1>3. CASE ~(v = Null \/ e.props = {})
    BY <1>1, <1>2, <1>3, SignedIsAssessed
<1>4. CASE Quiet("verifier", s)
  <2>1. /\ Verifications(s)' = Verifications(s)
        /\ Verifications(s) # {} => Newest(Verifications(s))' = Newest(Verifications(s))
      BY <1>4 DEF Quiet, Verifications
  <2>2. ASSUME Verifications(s) # {}, NEW p \in Newest(Verifications(s)).props
        PROVE  p \notin e.props
    <3>1. PICK k \in DOMAIN log : Newest(Verifications(s)) = log[k] /\ log[k].span = s
        BY <2>2, NewestEntry DEF Verifications, Inv, StoreInv, LogInv
    <3>2. p.gen \in 0 .. Cardinality(Extractions(s)) - 1
        BY <2>2, <3>1 DEF Inv, StoreInv, LogInv, Accounted
    <3>3. Cardinality(Extractions(s)) \in Nat
        BY NewestExists DEF Inv, StoreInv, LogInv, Extractions, Entries
    <3>4. QED
        BY <1>1, <3>2, <3>3
  <2>3. _span_verify_identity(s)' = Null
      BY <1>1, <1>2, <2>1, <2>2
         DEF Unsigned, _span_verify_identity, NewestVerification, CoversCurrent
  <2>4. QED
      BY <1>2, <2>3 DEF Assessed
<1>5. QED
    BY <1>3, <1>4

\* A backfill leaves its span assessed, or unsigned.
LEMMA BackfillIsAssessed ==
    ASSUME NEW w \in Worker, NEW s, NEW v, NEW ok, Backfills(w, s, v, ok), v # Null, Unsigned(s)
    PROVE  Unsigned(s)' /\ Assessed(s)'
<1>1. Unsigned(s)'
    BY DEF Backfills, Quiet, Unsigned, Extractions
<1>2. CASE On(s) = {}
    BY <1>1, <1>2 DEF Backfills, Assessed
<1>3. CASE On(s) # {}
  <2>1. PICK ids : ids = On(s)
      OBVIOUS
  <2>2. /\ On(s)' = ids /\ \A p \in ids : faith'[p] = IF p \in ok THEN v ELSE Null
        /\ Entered("verifier", s, Verification(s, ids, Stamp(ids, ok, v)))
      BY <1>3, <2>1 DEF Backfills
  <2>3. QED
      BY <1>1, <2>2, SignedIsAssessed
<1>4. QED
    BY <1>1, <1>2, <1>3

\* What a run has left behind stays assessed.
LEMMA AssessedKept ==
    ASSUME NEW w \in Worker, AssessedOf(w), WellShaped(run[w]), WellShaped(run[w])',
           run'[w].spans = run[w].spans, run'[w].verifier = run[w].verifier,
           run'[w].clean => run[w].clean,
           run'[w].pc \in {"backfill", "verify"} => run[w].verifier # Null,
           \A i \in DOMAIN run'[w].plan : run'[w].plan[i].kind # "replay",
           \A i \in DOMAIN run[w].spans : \A s :
               s = run[w].spans[i] /\ Behind(run'[w], i) /\ run'[w].clean =>
                   \/ Behind(run[w], i) /\ Untouched(s)
                   \/ \A p \in On(s)' : faith'[p] = run[w].verifier
    PROVE  AssessedOf(w)'
<1>1. ASSUME run[w].verifier # Null, run'[w].clean, NEW i \in DOMAIN run[w].spans,
             Behind(run'[w], i), NEW s, s = run[w].spans[i]
      PROVE  \A p \in On(s)' : faith'[p] = run[w].verifier
  <2>1. CASE Behind(run[w], i) /\ Untouched(s)
    <3>1. \A p \in On(s) : faith[p] = run[w].verifier
        BY <1>1, <2>1 DEF AssessedOf
    <3>2. On(s)' = On(s) /\ \A p \in On(s) : faith'[p] = faith[p]
        BY <2>1 DEF Untouched
    <3>3. QED
        BY <3>1, <3>2
  <2>2. QED
      BY <1>1, <2>1
<1>2. run'[w].verifier # Null /\ run'[w].clean =>
          \A i \in DOMAIN run'[w].spans : \A s : s = run'[w].spans[i] /\ Behind(run'[w], i) =>
              \A p \in On(s)' : faith'[p] = run'[w].verifier
    BY <1>1
<1>3. QED
    BY <1>2 DEF AssessedOf, Behind

\* What a run has behind it has not begun while it filters and persists.
LEMMA NothingBehind ==
    ASSUME NEW w \in Worker, run'[w].pc \in {"idle", "filter", "persist"},
           \A i \in DOMAIN run'[w].plan : run'[w].plan[i].kind # "replay"
    PROVE  AssessedOf(w)'
BY DEF AssessedOf, Behind

LEMMA WorkerAssesses ==
    ASSUME Inv, RunsTyped', ~deployed.reuse_extractions, \A s \in Span : Unsigned(s) /\ Assessed(s),
           NEW w \in Worker, AssessedOf(w), WorkerStep(w)
    PROVE  AssessedOf(w)' /\ \A s \in Span : Unsigned(s)' /\ Assessed(s)'
<1> DEFINE Goal == AssessedOf(w)' /\ \A s \in Span : Unsigned(s)' /\ Assessed(s)'
<1>1. /\ WellShaped(run[w]) /\ WellShaped(run[w])' /\ \E Runs : run \in [Worker -> Runs]
      /\ \A i \in DOMAIN run[w].plan : run[w].plan[i].kind # "replay"
      /\ run[w].pc \in {"backfill", "verify"} => run[w].verifier # Null
    BY DEF Inv, RunsTyped, AssessedOf
<1>2. /\ Len(run[w].spans) \in Nat /\ DOMAIN run[w].spans = 1 .. Len(run[w].spans)
      /\ \A i \in DOMAIN run[w].spans : run[w].spans[i] \in Span
      /\ \A i, j \in DOMAIN run[w].spans : run[w].spans[i] = run[w].spans[j] => i = j
      /\ run[w].i \in Nat
    BY <1>1, SpansAreDistinct DEF WellShaped, RunRecord
<1>3. ASSUME UNCHANGED <<faith, log>>
      PROVE  (\A s : Untouched(s)) /\ \A s \in Span : Unsigned(s)' /\ Assessed(s)'
    BY <1>3, NothingWritten, IdentityKept
<1>4. ASSUME NEW i, NEW entry, entry.kind # "replay",
             run'[w].plan = [run[w].plan EXCEPT ![i] = entry],
             run'[w].pc \in {"idle", "filter", "persist"}
      PROVE  AssessedOf(w)'
  <2>1. \A j \in DOMAIN run'[w].plan : run'[w].plan[j].kind # "replay"
      BY <1>1, <1>4
  <2>2. run'[w].pc \in {"idle", "filter", "persist"}
      BY <1>4
  <2>3. QED
      BY <2>1, <2>2, NothingBehind
<1>5. \A kind : Marked(kind).kind = kind
    BY DEF Marked
<1>6. ASSUME run'[w] = NoRun PROVE AssessedOf(w)'
    BY <1>6, NothingBehind DEF NoRun
<1>7. ASSUME NEW d, NEW x, NEW v, Start(w, d, x, v) PROVE Goal
  <2>1. /\ run'[w].pc = "filter" /\ run'[w].plan = [i \in DOMAIN SpansOf[d] |-> Marked("new")]
        /\ UNCHANGED <<faith, log>>
      BY <1>1, <1>7 DEF Start, NoRun
  <2>2. QED
      BY <1>3, <1>5, <2>1, NothingBehind
<1>8. CASE Filter(w)
  <2>1. ASSUME NEW i, NEW s, NEW entry, Plans(w, i, s, entry) PROVE AssessedOf(w)'
    <3>1. entry.kind # "replay"
        BY <1>5, <2>1, PlannedParts DEF Plans
    <3>2. QED
        BY <1>4, <2>1, <3>1 DEF Plans
  <2>2. UNCHANGED <<faith, log>>
      BY <1>8 DEF Filter
  <2>3. QED
      BY <1>3, <1>6, <1>8, <2>1, <2>2, FilterPlans DEF Inv
<1>9. ASSUME NEW claims, NEW answered, Persist(w, claims, answered) PROVE Goal
  <2>1. PICK i, s, e, v, ok :
               /\ Writes(w, i, s, e) /\ e.sig = Null
               /\ \A p \in e.props : faith'[p] = IF p \in ok THEN v ELSE Null
               /\ IF v = Null \/ e.props = {} THEN Quiet("verifier", s)
                  ELSE Entered("verifier", s, Verification(s, e.props, Stamp(e.props, ok, v)))
      BY <1>9, PersistWrites
  <2>2. Unsigned(s)' /\ Assessed(s)'
      BY <2>1, ExtractionIsAssessed
  <2>3. \A t \in Span : t # s => Unsigned(t)' /\ Assessed(t)'
      BY <2>1, IdentityKept DEF Writes
  <2>4. AssessedOf(w)'
      BY <1>4, <1>5, <2>1 DEF Writes
  <2>5. QED
      BY <2>2, <2>3, <2>4
<1>10. ~Replay(w)
    BY <1>1, ReplayWrites DEF Writes
<1>11. CASE Isolate(w)
  <2>1. PICK i : run' = [run EXCEPT ![w].plan[i] = Marked("failed")] /\ run[w].pc = "persist"
      BY <1>11 DEF Isolate, IsNext
  <2>2. run'[w].plan = [run[w].plan EXCEPT ![i] = Marked("failed")] /\ run'[w].pc = "persist"
      BY <1>1, <2>1 DEF WellShaped, RunRecord
  <2>3. UNCHANGED <<faith, log>>
      BY <1>11 DEF Isolate
  <2>4. QED
      BY <1>3, <1>4, <1>5, <2>2, <2>3
<1>12. CASE Filtered(w)
  <2>1. run'[w].plan = run[w].plan /\ run'[w].pc = "persist" /\ UNCHANGED <<faith, log>>
      BY <1>1, <1>12 DEF Filtered, WellShaped, RunRecord
  <2>2. QED
      BY <1>1, <1>3, <2>1, NothingBehind
<1>13. CASE Persisted(w)
  <2>1. /\ run'[w].plan = run[w].plan /\ run'[w].spans = run[w].spans /\ run'[w].i = 1
        /\ run'[w].verifier = run[w].verifier
        /\ run'[w].pc = IF run[w].verifier = Null THEN "report" ELSE "backfill"
        /\ UNCHANGED <<faith, log>>
      BY <1>1, <1>13 DEF Persisted, WellShaped, RunRecord
  <2>2. run[w].verifier # Null => \A i \in DOMAIN run[w].spans : ~Behind(run'[w], i)
      BY <1>2, <2>1 DEF Behind
  <2>3. AssessedOf(w)'
      BY <1>1, <2>1, <2>2 DEF AssessedOf, Behind
  <2>4. QED
      BY <1>3, <2>1, <2>3
<1>14. CASE BackfillLoad(w)
  <2>1. PICK s : s = run[w].spans[run[w].i]
      OBVIOUS
  <2>2. /\ run[w].pc = "backfill" /\ run[w].i \in DOMAIN run[w].spans /\ UNCHANGED <<faith, log>>
        /\ run'[w].plan = run[w].plan /\ run'[w].spans = run[w].spans
        /\ run'[w].verifier = run[w].verifier /\ run'[w].clean = run[w].clean
        /\ \/ run'[w].pc = "verify" /\ run'[w].i = run[w].i
           \/ /\ run'[w].pc = "backfill" /\ run'[w].i = run[w].i + 1
              /\ _span_verify_identity(s) = run[w].verifier \/ On(s) = {}
      BY <1>1, <1>2, <1>14, <2>1 DEF BackfillLoad, WellShaped, RunRecord
  <2>3. /\ (\A t : Untouched(t)) /\ \A t \in Span : Unsigned(t)' /\ Assessed(t)'
      BY <1>3, <2>2
  <2>4. ASSUME NEW i \in DOMAIN run[w].spans, Behind(run'[w], i), ~Behind(run[w], i)
        PROVE  /\ i = run[w].i
               /\ _span_verify_identity(s) = run[w].verifier \/ On(s) = {}
      BY <1>2, <2>2, <2>4 DEF Behind
  <2>5. _span_verify_identity(s) = run[w].verifier \/ On(s) = {} =>
            \A p \in On(s) : faith[p] = run[w].verifier
      BY <1>1, <1>2, <2>1, <2>2 DEF Assessed
  <2>6. On(s)' = On(s) /\ faith' = faith
      BY <2>2, <2>3 DEF Untouched
  <2>7. \A i \in DOMAIN run[w].spans : \A t :
            t = run[w].spans[i] /\ Behind(run'[w], i) /\ run'[w].clean =>
                \/ Behind(run[w], i) /\ Untouched(t)
                \/ \A p \in On(t)' : faith'[p] = run[w].verifier
      BY <2>1, <2>3, <2>4, <2>5, <2>6
  <2>8. AssessedOf(w)'
      BY <1>1, <2>2, <2>7, AssessedKept
  <2>9. QED
      BY <2>3, <2>8
<1>15. ASSUME NEW answered, BackfillWrite(w, answered) PROVE Goal
  <2>1. PICK s, v, ok : Backfills(w, s, v, ok)
      BY <1>15, BackfillWrites
  <2>2. run[w].pc = "verify"
      BY <1>15 DEF BackfillWrite
  <2>3. /\ run[w].i \in DOMAIN run[w].spans /\ s = run[w].spans[run[w].i] /\ s \in Span
        /\ v = run[w].verifier /\ v # Null /\ On(s)' = On(s)
        /\ \A p \in On(s) : faith'[p] = IF p \in ok THEN v ELSE Null
        /\ \A t : t # s => Untouched(t)
        /\ run'[w].pc = "backfill" /\ run'[w].i = run[w].i + 1
        /\ run'[w].spans = run[w].spans /\ run'[w].plan = run[w].plan
        /\ run'[w].verifier = v /\ run'[w].clean = (run[w].clean /\ ok = On(s))
      BY <1>1, <2>1, <2>2 DEF Backfills
  <2>4. Unsigned(s)' /\ Assessed(s)'
      BY <2>1, <2>3, BackfillIsAssessed
  <2>5. \A t \in Span : t # s => Unsigned(t)' /\ Assessed(t)'
      BY <2>3, IdentityKept
  <2>6. ASSUME NEW i \in DOMAIN run[w].spans, NEW t, t = run[w].spans[i], Behind(run'[w], i),
               run'[w].clean
        PROVE  \/ Behind(run[w], i) /\ Untouched(t)
               \/ \A p \in On(t)' : faith'[p] = run[w].verifier
    <3>1. CASE t = s
        BY <2>3, <2>6, <3>1
    <3>2. CASE t # s
        BY <1>2, <2>2, <2>3, <2>6, <3>2 DEF Behind
    <3>3. QED
        BY <3>1, <3>2
  <2>7. AssessedOf(w)'
      BY <1>1, <2>3, <2>6, AssessedKept
  <2>8. QED
      BY <2>4, <2>5, <2>7
<1>16. CASE BackfillFails(w)
  <2>1. /\ run'[w].plan = run[w].plan /\ run'[w].verifier = run[w].verifier
        /\ run'[w].clean = FALSE /\ run[w].pc = "verify" /\ UNCHANGED <<faith, log>>
      BY <1>1, <1>16 DEF BackfillFails, WellShaped, RunRecord
  <2>2. AssessedOf(w)'
      BY <1>1, <2>1 DEF AssessedOf
  <2>3. QED
      BY <1>3, <2>1, <2>2
<1>17. CASE Backfilled(w)
  <2>1. /\ run'[w].plan = run[w].plan /\ run'[w].spans = run[w].spans
        /\ run'[w].verifier = run[w].verifier /\ run'[w].clean = run[w].clean
        /\ run[w].pc = "backfill" /\ run[w].i > Len(run[w].spans) /\ run'[w].pc = "report"
        /\ UNCHANGED <<faith, log>>
      BY <1>1, <1>17 DEF Backfilled, WellShaped, RunRecord
  <2>2. \A i \in DOMAIN run[w].spans : Behind(run[w], i)
      BY <1>2, <2>1 DEF Behind
  <2>3. AssessedOf(w)'
      BY <1>1, <1>3, <2>1, <2>2, AssessedKept
  <2>4. QED
      BY <1>3, <2>1, <2>3
<1>18. CASE Report(w) \/ Crash(w)
    BY <1>1, <1>3, <1>6, <1>18 DEF Report, Crash
<1>19. QED
    BY <1>7, <1>8, <1>9, <1>10, <1>11, <1>12, <1>13, <1>14, <1>15, <1>16, <1>17, <1>18 DEF WorkerStep

LEMMA ScoreNext ==
    ASSUME Inv, Inv', RunsApart, ScoreInv, [Next]_vars
    PROVE  ScoreInv'
<1>1. deployed' = deployed
    BY DEF Next, vars
<1> SUFFICES ASSUME ~deployed.reuse_extractions
             PROVE  /\ \A s \in Span : Unsigned(s)' /\ Assessed(s)'
                    /\ \A w \in Worker : AssessedOf(w)'
    BY <1>1 DEF ScoreInv
<1>2. /\ \A s \in Span : Unsigned(s) /\ Assessed(s)
      /\ \A w \in Worker : AssessedOf(w) /\ WellShaped(run[w]) /\ WellShaped(run[w])'
    BY DEF ScoreInv, Inv, RunsTyped
<1>3. ASSUME NEW u \in Worker, run'[u] = run[u], \A s \in SpansIn(run[u]) : Untouched(s)
      PROVE  AssessedOf(u)'
  <2>1. \A i \in DOMAIN run[u].spans : \A t :
            t = run[u].spans[i] => t \in SpansIn(run[u]) /\ Untouched(t)
      BY <1>3 DEF SpansIn
  <2>2. \A i \in DOMAIN run[u].spans : Behind(run'[u], i) => Behind(run[u], i)
      BY <1>3
  <2>3. QED
      BY <1>2, <1>3, <2>1, <2>2, AssessedKept DEF AssessedOf
<1>4. ASSUME NEW w \in Worker, WorkerStep(w)
      PROVE  /\ \A s \in Span : Unsigned(s)' /\ Assessed(s)'
             /\ \A u \in Worker : AssessedOf(u)'
  <2>1. AssessedOf(w)' /\ \A s \in Span : Unsigned(s)' /\ Assessed(s)'
      BY <1>2, <1>4, WorkerAssesses DEF Inv
  <2>2. ASSUME NEW u \in Worker, u # w PROVE AssessedOf(u)'
    <3>1. run'[u] = run[u]
        BY <1>4, <2>2, RunsTypedNext DEF Inv
    <3>2. \A s \in SpansIn(run[u]) : Untouched(s)
        BY <1>4, <2>2, <3>1, WorkerKeeps, OthersKeep DEF Inv
    <3>3. QED
        BY <1>3, <3>1, <3>2
  <2>3. QED
      BY <2>1, <2>2
<1>5. CASE UNCHANGED <<faith, log, run>>
    BY <1>2, <1>3, <1>5, NothingWritten, IdentityKept
<1>6. QED
    BY <1>4, <1>5 DEF Next, vars, ExtractStart, ExtractPersist

LEMMA ScoreInit == Init => ScoreInv
<1> SUFFICES ASSUME Init PROVE ScoreInv
    OBVIOUS
<1>1. DOMAIN log = {} /\ Live = {} /\ \A w \in Worker : run[w] = NoRun
    BY DEF Init, Live
<1>2. \A s : Extractions(s) = {} /\ On(s) = {}
    BY <1>1 DEF Extractions, Entries, On
<1>3. \A w \in Worker : AssessedOf(w)
    BY <1>1 DEF AssessedOf, NoRun
<1>4. QED
    BY <1>2, <1>3 DEF ScoreInv, Unsigned, Assessed

\* Without reuse, as long as runs keep apart, a span counts as verified under an
\* identity only if each of its propositions carries that verifier's assessment:
\* an extraction is unsigned, and no old verification covers a new generation.
THEOREM IdentityDoesNotOverstate == Spec /\ []RunsApart => []IdentityMeansAssessedWithoutReuse
<1>1. Inv /\ RunsApart /\ [Next]_vars => Inv'
    BY InvNext
<1>2. Inv /\ Inv' /\ RunsApart /\ ScoreInv /\ [Next]_vars => ScoreInv'
    BY ScoreNext
<1>3. ScoreInv => IdentityMeansAssessedWithoutReuse
    BY DEF ScoreInv, Assessed, IdentityMeansAssessedWithoutReuse, IdentityMeansAssessed
<1>4. QED
    BY InvInit, ScoreInit, <1>1, <1>2, <1>3, PTL DEF Spec

\* Without reuse, as long as runs keep apart, a run that reports a document has
\* extracted what it calls done, and its verifier, if it always answered, has
\* assessed every proposition of the document.
THEOREM ReportsTellWhatWasDone == Spec /\ []RunsApart => []ReportIsTrueWithoutReuse
<1>1. Inv /\ RunsApart /\ [Next]_vars => Inv'
    BY InvNext
<1>2. Inv /\ Inv' /\ RunsApart /\ ScoreInv /\ [Next]_vars => ScoreInv'
    BY ScoreNext
<1>3. ASSUME Inv, ScoreInv, ~deployed.reuse_extractions, NEW w \in Worker, run[w].pc = "report",
             NEW i \in DOMAIN run[w].spans
      PROVE  /\ run[w].plan[i].kind = "done" =>
                  _extracted_hash(run[w].spans[i]) = _pipeline_hash(run[w].spans[i], run[w].extractor)
             /\ run[w].verifier # Null /\ run[w].clean =>
                  \A p \in On(run[w].spans[i]) : faith[p] = run[w].verifier
  <2>1. WellShaped(run[w]) /\ DoneOf(w) /\ AssessedOf(w)
      BY <1>3 DEF Inv, RunsTyped, RunOf, ScoreInv
  <2>2. QED
      BY <1>3, <2>1 DEF WellShaped, DoneOf, AssessedOf, Behind
<1>4. Inv /\ ScoreInv => ReportIsTrueWithoutReuse
    BY <1>3 DEF ReportIsTrueWithoutReuse, ReportIsTrue
<1>5. QED
    BY InvInit, ScoreInit, <1>1, <1>2, <1>4, PTL DEF Spec

-----------------------------------------------------------------------------
(* Reuse without cascade: a hash is extracted once and then only replayed. *)

LEMMA PassagesKeepSpansApart ==
    ASSUME PassagesApart
    PROVE  RunsApart
BY DEF PassagesApart, RunsApart

LEMMA MintedClaims ==
    ASSUME NEW s, NEW claims
    PROVE  {p.claim : p \in Minted(s, claims)} = claims
<1>1. ASSUME NEW c \in claims PROVE \E p \in Minted(s, claims) : p.claim = c
  <2>1. PICK p : p = [span |-> s, gen |-> Cardinality(Extractions(s)), claim |-> c]
      OBVIOUS
  <2>2. p \in Minted(s, claims)
      BY <2>1 DEF Minted
  <2>3. p.claim = c
      BY <2>1
  <2>4. QED
      BY <2>2, <2>3
<1>2. \A p \in Minted(s, claims) : p.claim \in claims
    BY MintedParts
<1>3. QED
    BY <1>1, <1>2

\* The extractions under a hash, before and after a step that keeps the log.
LEMMA HashesKept ==
    ASSUME LogKept, NEW h,
           \A k \in DOMAIN log' \ DOMAIN log : log'[k].actor = "verifier" \/ log'[k].hash # h
    PROVE  WithHash(h)' = WithHash(h) /\ \A k \in WithHash(h) : log'[k] = log[k]
BY DEF LogKept, WithHash

\* What filter plans under reuse.
LEMMA ReusePlanned ==
    ASSUME Inv, deployed.reuse_extractions, ExtractOnce, \A k \in DOMAIN log : log[k].props \subseteq Live,
           NEW s, NEW h
    PROVE  /\ Planned(s, h).kind = "infer" => WithHash(h) = {}
           /\ Planned(s, h).kind = "replay" =>
                \A k \in WithHash(h) : ClaimsOf(log[k]) = DOMAIN Planned(s, h).cached.claims
<1>1. ASSUME WithHash(h) # {}
      PROVE  /\ HasReusable(h)
             /\ \A k \in WithHash(h) : ClaimsOf(log[k]) = DOMAIN find_reusable_extraction(h).claims
  <2>1. Max(WithHash(h)) \in WithHash(h) /\ WithHash(h) \subseteq DOMAIN log
      BY <1>1, NewestExists DEF WithHash, Inv, StoreInv, LogInv
  <2>2. PICK m \in WithHash(h) : Newest(WithHash(h)) = log[m]
      BY <2>1 DEF Newest
  <2>3. HasReusable(h)
      BY <1>1, <2>1, <2>2 DEF HasReusable
  <2>4. DOMAIN find_reusable_extraction(h).claims = ClaimsOf(log[m])
      BY <2>2 DEF find_reusable_extraction, ClaimsOf
  <2>5. \A k \in WithHash(h) : ClaimsOf(log[k]) = ClaimsOf(log[m])
      BY <2>2 DEF ExtractOnce, WithHash, ClaimsOf
  <2>6. QED
      BY <2>3, <2>4, <2>5
<1>2. QED
    BY <1>1, PlannedParts

\* What the write of s means for the other spans at work.
LEMMA WriteIsElsewhere ==
    ASSUME Inv, PassagesApart, NEW w \in Worker, NEW i, NEW s, NEW e, Writes(w, i, s, e),
           NEW u \in Worker, NEW j \in DOMAIN run[u].plan, u # w \/ j # i, NEW h,
           h = _pipeline_hash(run[u].spans[j], run[u].extractor)
    PROVE  WithHash(h)' = WithHash(h) /\ \A k \in WithHash(h) : log'[k] = log[k]
<1>1. /\ WellShaped(run[w]) /\ WellShaped(run[u]) /\ i \in DOMAIN run[w].spans
      /\ j \in DOMAIN run[u].spans
    BY DEF Inv, RunsTyped, WellShaped, Writes
<1>2. Passage[run[u].spans[j]] # Passage[run[w].spans[i]]
    BY <1>1 DEF PassagesApart
<1>3. e.hash # h
    BY <1>2 DEF Writes, _pipeline_hash
<1>4. QED
    BY <1>3, HashesKept DEF Writes

\* What a run has planned stays right if nothing is extracted under its hashes.
LEMMA CachedKept ==
    ASSUME NEW u \in Worker, CachedOf(u), run'[u].extractor = run[u].extractor,
           run'[u].spans = run[u].spans, DOMAIN run'[u].plan = DOMAIN run[u].plan,
           \A j \in DOMAIN run[u].plan : \A h :
               \/ run'[u].plan[j].kind \notin {"infer", "replay"}
               \/ /\ run'[u].plan[j] = run[u].plan[j]
                  /\ h = _pipeline_hash(run[u].spans[j], run[u].extractor) =>
                       WithHash(h)' = WithHash(h) /\ \A k \in WithHash(h) : log'[k] = log[k]
    PROVE  CachedOf(u)'
<1>1. ASSUME NEW j \in DOMAIN run[u].plan, NEW h,
             h = _pipeline_hash(run[u].spans[j], run[u].extractor)
      PROVE  /\ run'[u].plan[j].kind = "infer" => WithHash(h)' = {}
             /\ run'[u].plan[j].kind = "replay" =>
                  \A k \in WithHash(h)' : ClaimsOf(log'[k]) = DOMAIN run'[u].plan[j].cached.claims
  <2>1. CASE run'[u].plan[j].kind \notin {"infer", "replay"}
      BY <2>1
  <2>2. CASE /\ run'[u].plan[j] = run[u].plan[j] /\ WithHash(h)' = WithHash(h)
             /\ \A k \in WithHash(h) : log'[k] = log[k]
      BY <1>1, <2>2 DEF CachedOf
  <2>3. QED
      BY <1>1, <2>1, <2>2
<1>2. \A j \in DOMAIN run'[u].plan : \A h : h = _pipeline_hash(run'[u].spans[j], run'[u].extractor) =>
          /\ run'[u].plan[j].kind = "infer" => WithHash(h)' = {}
          /\ run'[u].plan[j].kind = "replay" =>
               \A k \in WithHash(h)' : ClaimsOf(log'[k]) = DOMAIN run'[u].plan[j].cached.claims
    BY <1>1
<1>3. QED
    BY <1>2 DEF CachedOf, ClaimsOf, _pipeline_hash

\* The write itself: the first extraction under its hash, or a replay of one.
LEMMA WriteExtractsOnce ==
    ASSUME ExtractOnce, NEW w \in Worker, NEW i, NEW s, NEW e, Writes(w, i, s, e),
           \A k \in WithHash(e.hash) : ClaimsOf(log[k]) = ClaimsOf(e)
    PROVE  ExtractOnce'
<1>1. /\ LogKept
      /\ \A k \in DOMAIN log' \ DOMAIN log : log'[k] = e \/ log'[k].actor = "verifier"
    BY DEF Writes
<1>2. \A k \in DOMAIN log : log'[k] = log[k]
    BY <1>1 DEF LogKept
<1>3. ASSUME NEW k \in DOMAIN log, log'[k].actor = "propositionizer", log'[k].hash = e.hash
      PROVE  ClaimsOf(log'[k]) = ClaimsOf(e)
    BY <1>2, <1>3 DEF WithHash
<1>4. ASSUME NEW k \in DOMAIN log', NEW m \in DOMAIN log', log'[k].actor = "propositionizer",
             log'[m].actor = "propositionizer", log'[k].hash = log'[m].hash
      PROVE  ClaimsOf(log'[k]) = ClaimsOf(log'[m])
  <2>1. CASE k \in DOMAIN log /\ m \in DOMAIN log
      BY <1>2, <1>4, <2>1 DEF ExtractOnce, ClaimsOf
  <2>2. CASE k \notin DOMAIN log
    <3>1. log'[k] = e
        BY <1>1, <1>4, <2>2
    <3>2. QED
        BY <1>1, <1>3, <1>4, <3>1
  <2>3. CASE m \notin DOMAIN log
    <3>1. log'[m] = e
        BY <1>1, <1>4, <2>3
    <3>2. QED
        BY <1>1, <1>3, <1>4, <3>1
  <2>4. QED
      BY <2>1, <2>2, <2>3
<1>5. QED
    BY <1>4 DEF ExtractOnce, ClaimsOf

\* A step that extracts nothing.
LEMMA NothingExtracted ==
    ASSUME LogKept, \A k \in DOMAIN log' \ DOMAIN log : log'[k].actor = "verifier"
    PROVE  /\ ExtractOnce => ExtractOnce'
           /\ \A h : WithHash(h)' = WithHash(h) /\ \A k \in WithHash(h) : log'[k] = log[k]
<1>1. ExtractOnce => ExtractOnce'
    BY DEF ExtractOnce, LogKept
<1>2. QED
    BY <1>1, HashesKept

\* The steps of the run of w that write nothing, or only scores.
LEMMA QuietKeepsCached ==
    ASSUME Inv, deployed.reuse_extractions, ExtractOnce, \A k \in DOMAIN log : log[k].props \subseteq Live,
           NEW w \in Worker, CachedOf(w), WorkerStep(w),
           \A h : WithHash(h)' = WithHash(h) /\ \A k \in WithHash(h) : log'[k] = log[k]
    PROVE  CachedOf(w)' \/ \E i, s, e : Writes(w, i, s, e)
<1>1. WellShaped(run[w]) /\ \E Runs : run \in [Worker -> Runs]
    BY DEF Inv, RunsTyped
<1>2. CASE run'[w] = NoRun
    BY <1>2 DEF CachedOf, NoRun
<1>3. ASSUME run'[w].plan = run[w].plan, run'[w].spans = run[w].spans,
             run'[w].extractor = run[w].extractor
      PROVE  CachedOf(w)'
    BY <1>3, CachedKept
<1>4. ASSUME NEW d, NEW x, NEW v, Start(w, d, x, v)
      PROVE  CachedOf(w)'
  <2>1. run'[w].plan = [i \in DOMAIN SpansOf[d] |-> Marked("new")]
      BY <1>1, <1>4 DEF Start, NoRun
  <2>2. QED
      BY <2>1 DEF CachedOf, Marked
<1>5. CASE Filter(w)
  <2>1. UNCHANGED <<faith, log>>
      BY <1>5 DEF Filter
  <2>2. ASSUME NEW i, NEW s, NEW entry, Plans(w, i, s, entry) PROVE CachedOf(w)'
    <3>1. PICK h : h = _pipeline_hash(s, run[w].extractor)
        OBVIOUS
    <3>2. /\ i \in DOMAIN run[w].plan /\ s = run[w].spans[i]
          /\ run'[w].spans = run[w].spans /\ run'[w].extractor = run[w].extractor
          /\ run'[w].plan = [run[w].plan EXCEPT ![i] = entry]
          /\ entry = Marked("done") \/ entry = Planned(s, h)
        BY <2>2, <3>1 DEF Plans
    <3>3. /\ entry.kind = "infer" => WithHash(h) = {}
          /\ entry.kind = "replay" =>
               \A k \in WithHash(h) : ClaimsOf(log[k]) = DOMAIN entry.cached.claims
        BY <3>2, ReusePlanned DEF Marked
    <3>4. QED
        BY <2>1, <3>1, <3>2, <3>3 DEF CachedOf, ClaimsOf, WithHash, _pipeline_hash
  <2>3. QED
      BY <1>2, <1>5, <2>2, FilterPlans DEF Inv
<1>6. CASE Replay(w) \/ \E claims, answered : Persist(w, claims, answered)
    BY <1>6, PersistWrites, ReplayWrites
<1>7. CASE Isolate(w)
  <2>1. PICK i : run' = [run EXCEPT ![w].plan[i] = Marked("failed")]
      BY <1>7 DEF Isolate
  <2>2. /\ run'[w].plan = [run[w].plan EXCEPT ![i] = Marked("failed")]
        /\ run'[w].spans = run[w].spans /\ run'[w].extractor = run[w].extractor
      BY <1>1, <2>1 DEF WellShaped, RunRecord
  <2>3. Marked("failed").kind = "failed"
      BY DEF Marked
  <2>4. QED
      BY <2>2, <2>3, CachedKept
<1>8. CASE Filtered(w) \/ Persisted(w) \/ BackfillFails(w) \/ Backfilled(w)
    BY <1>1, <1>3, <1>8
       DEF Filtered, Persisted, BackfillFails, Backfilled, WellShaped, RunRecord
<1>9. CASE BackfillLoad(w)
    BY <1>1, <1>3, <1>9 DEF BackfillLoad, WellShaped, RunRecord
<1>10. CASE \E answered : BackfillWrite(w, answered)
    BY <1>1, <1>3, <1>10 DEF BackfillWrite, WellShaped, RunRecord
<1>11. CASE Report(w) \/ Crash(w)
    BY <1>1, <1>2, <1>11 DEF Report, Crash
<1>12. QED
    BY <1>4, <1>5, <1>6, <1>7, <1>8, <1>9, <1>10, <1>11 DEF WorkerStep

\* Writes under reuse: an inferred span is the first of its hash, a replayed one
\* has the claims of all the others.
LEMMA WriteUnderReuse ==
    ASSUME Inv, PassagesApart, ExtractOnce, NEW w \in Worker, CachedOf(w),
           NEW i, NEW s, NEW e, Writes(w, i, s, e),
           \/ run[w].plan[i].kind = "infer"
           \/ run[w].plan[i].kind = "replay" /\ ClaimsOf(e) = DOMAIN run[w].plan[i].cached.claims
    PROVE  ExtractOnce' /\ CachedOf(w)'
<1>1. /\ i \in DOMAIN run[w].plan /\ e.hash = _pipeline_hash(s, run[w].extractor)
      /\ s = run[w].spans[i] /\ run'[w].plan = [run[w].plan EXCEPT ![i] = Marked("done")]
      /\ run'[w].spans = run[w].spans /\ run'[w].extractor = run[w].extractor
    BY DEF Writes
<1>2. \A k \in WithHash(e.hash) : ClaimsOf(log[k]) = ClaimsOf(e)
    BY <1>1 DEF CachedOf
<1>3. ExtractOnce'
    BY <1>2, WriteExtractsOnce
<1>4. \A j \in DOMAIN run[w].plan : \A h :
          j # i /\ h = _pipeline_hash(run[w].spans[j], run[w].extractor) =>
              WithHash(h)' = WithHash(h) /\ \A k \in WithHash(h) : log'[k] = log[k]
    BY WriteIsElsewhere
<1>5. Marked("done").kind = "done"
    BY DEF Marked
<1>6. CachedOf(w)'
    BY <1>1, <1>4, <1>5, CachedKept
<1>7. QED
    BY <1>3, <1>6

LEMMA WorkerReuses ==
    ASSUME Inv, PassagesApart, deployed.reuse_extractions, ~deployed.cascade_reextract, StandingInv,
           ExtractOnce, \A k \in DOMAIN log : log[k].props \subseteq Live,
           \A u \in Worker : CachedOf(u), [Next]_vars, NEW w \in Worker, WorkerStep(w)
    PROVE  /\ ExtractOnce' /\ \A u \in Worker : CachedOf(u)'
           /\ \A k \in DOMAIN log' : log'[k].props \subseteq Live'
<1> DEFINE Goal == /\ ExtractOnce' /\ \A u \in Worker : CachedOf(u)'
                   /\ \A k \in DOMAIN log' : log'[k].props \subseteq Live'
<1>1. Live \subseteq Live'
    BY NothingPurged DEF StandingInv
<1>2. \A u \in Worker : u # w => run'[u] = run[u]
    BY RunsTypedNext DEF Inv
<1>3. ASSUME LogKept, \A k \in DOMAIN log' \ DOMAIN log : log'[k].props \subseteq Live'
      PROVE  \A k \in DOMAIN log' : log'[k].props \subseteq Live'
    BY <1>1, <1>3 DEF LogKept
<1>4. ASSUME NEW i, NEW s, NEW e, Writes(w, i, s, e),
             \/ run[w].plan[i].kind = "infer"
             \/ run[w].plan[i].kind = "replay" /\ ClaimsOf(e) = DOMAIN run[w].plan[i].cached.claims
      PROVE  Goal
  <2>1. ExtractOnce' /\ CachedOf(w)'
      BY <1>4, WriteUnderReuse
  <2>2. ASSUME NEW u \in Worker, u # w PROVE CachedOf(u)'
    <3>1. \A j \in DOMAIN run[u].plan : \A h : h = _pipeline_hash(run[u].spans[j], run[u].extractor) =>
              WithHash(h)' = WithHash(h) /\ \A k \in WithHash(h) : log'[k] = log[k]
        BY <1>4, <2>2, WriteIsElsewhere
    <3>2. QED
        BY <1>2, <2>2, <3>1, CachedKept
  <2>3. LogKept /\ \A k \in DOMAIN log' \ DOMAIN log : log'[k].props \subseteq Live'
      BY <1>4 DEF Writes, On
  <2>4. QED
      BY <1>3, <2>1, <2>2, <2>3
<1>5. ASSUME LogKept, \A k \in DOMAIN log' \ DOMAIN log :
                          log'[k].actor = "verifier" /\ log'[k].props \subseteq Live',
             \A i, s, e : ~Writes(w, i, s, e)
      PROVE  Goal
  <2>1. /\ ExtractOnce'
        /\ \A h : WithHash(h)' = WithHash(h) /\ \A k \in WithHash(h) : log'[k] = log[k]
      BY <1>5, NothingExtracted
  <2>2. CachedOf(w)'
      BY <1>5, <2>1, QuietKeepsCached
  <2>3. ASSUME NEW u \in Worker, u # w PROVE CachedOf(u)'
      BY <1>2, <2>1, <2>3, CachedKept
  <2>4. QED
      BY <1>3, <1>5, <2>1, <2>2, <2>3
<1>6. ASSUME NEW claims, NEW answered, Persist(w, claims, answered) PROVE Goal
    BY <1>4, <1>6, PersistWrites
<1>7. CASE Replay(w)
  <2>1. PICK i, s, e, cached :
               /\ Writes(w, i, s, e) /\ run[w].plan[i].kind = "replay"
               /\ cached = run[w].plan[i].cached
               /\ e.props = Minted(s, DOMAIN cached.claims)
      BY <1>7, ReplayWrites
  <2>2. ClaimsOf(e) = DOMAIN run[w].plan[i].cached.claims
      BY <2>1, MintedClaims DEF ClaimsOf
  <2>3. QED
      BY <1>4, <2>1, <2>2
<1>8. run[w].pc # "persist" => \A i, s, e : ~Writes(w, i, s, e)
    BY DEF Writes
<1>9. ASSUME NEW answered, BackfillWrite(w, answered) PROVE Goal
  <2>1. PICK s, v, ok : Backfills(w, s, v, ok)
      BY <1>9, BackfillWrites
  <2>2. \A i, t, e : ~Writes(w, i, t, e)
      BY <1>8, <1>9 DEF BackfillWrite
  <2>3. LogKept /\ \A k \in DOMAIN log' \ DOMAIN log :
                       log'[k].actor = "verifier" /\ log'[k].props \subseteq Live'
      BY <2>1 DEF Backfills, On
  <2>4. QED
      BY <1>5, <2>2, <2>3
<1>10. ASSUME UNCHANGED <<faith, log>> PROVE Goal
  <2>1. LogKept /\ DOMAIN log' = DOMAIN log
      BY <1>10 DEF LogKept, Inv, StoreInv, LogInv, IsLog
  <2>2. \A i, s, e : ~Writes(w, i, s, e)
      BY <2>1 DEF Writes, Entered
  <2>3. QED
      BY <1>5, <2>1, <2>2
<1>11. QED
    BY <1>6, <1>7, <1>9, <1>10
       DEF WorkerStep, Start, Filter, Filtered, Isolate, Persisted, BackfillLoad, BackfillFails,
           Backfilled, Report, Crash

LEMMA ReuseNext ==
    ASSUME \A q \in Deployment : q.reuse_extractions => ~q.cascade_reextract,
           Inv, PassagesApart, StandingInv, ExtractOnceWithReuse, CachedInv, [Next]_vars
    PROVE  ExtractOnceWithReuse' /\ CachedInv'
<1>1. deployed' = deployed /\ deployed \in Deployment
    BY DEF Next, vars, Inv, RunsTyped
<1> SUFFICES ASSUME deployed.reuse_extractions
             PROVE  /\ ExtractOnce' /\ \A u \in Worker : CachedOf(u)'
                    /\ \A k \in DOMAIN log' : log'[k].props \subseteq Live'
    BY <1>1 DEF ExtractOnceWithReuse, CachedInv
<1>2. /\ ~deployed.cascade_reextract /\ ExtractOnce /\ \A u \in Worker : CachedOf(u)
      /\ \A k \in DOMAIN log : log[k].props \subseteq Live
    BY <1>1 DEF ExtractOnceWithReuse, CachedInv
<1>3. ASSUME NEW w \in Worker, WorkerStep(w)
      PROVE  /\ ExtractOnce' /\ \A u \in Worker : CachedOf(u)'
             /\ \A k \in DOMAIN log' : log'[k].props \subseteq Live'
    BY <1>2, <1>3, WorkerReuses
<1>4. CASE UNCHANGED <<faith, log, run>>
    BY <1>2, <1>4 DEF ExtractOnce, CachedOf, ClaimsOf, WithHash, _pipeline_hash, Live
<1>5. QED
    BY <1>3, <1>4 DEF Next, vars, ExtractStart, ExtractPersist

\* With reuse and no cascade, as long as no passage is at work twice, all
\* extractions under one content hash have the same claims: the first one's.
THEOREM ExtractionsAgree ==
    ASSUME \A q \in Deployment : q.reuse_extractions => ~q.cascade_reextract
    PROVE  Spec /\ []PassagesApart => []ExtractOnceWithReuse
<1>1. Inv /\ PassagesApart /\ [Next]_vars => Inv'
    BY InvNext, PassagesKeepSpansApart
<1>2. Inv => RunsTyped
    BY DEF Inv
<1>3. Init => StandingInv
    BY StandingInit
<1>4. RunsTyped /\ StandingInv /\ [Next]_vars => StandingInv'
    BY StandingNext
<1>5. Init => ExtractOnceWithReuse /\ CachedInv
    BY DEF Init, ExtractOnceWithReuse, ExtractOnce, CachedInv, CachedOf, NoRun
<1>6. /\ Inv /\ PassagesApart /\ StandingInv /\ ExtractOnceWithReuse /\ CachedInv /\ [Next]_vars
      => ExtractOnceWithReuse' /\ CachedInv'
    BY ReuseNext
<1>7. QED
    BY InvInit, <1>1, <1>2, <1>3, <1>4, <1>5, <1>6, PTL DEF Spec

-----------------------------------------------------------------------------
(* The consolidation of samples.                                            *)

\* Candidates, as the samples give them.
Likenesses(C) ==
    /\ \A c \in C : Alike(c, c)
    /\ \A c, d \in C : Similarity(c.vector, d.vector) \in Int /\ (Alike(c, d) <=> Alike(d, c))
Placed(C) == \A c, d \in C : /\ c.sample \in Nat /\ c.position \in Nat
                             /\ c.sample = d.sample /\ c.position = d.position => c = d
Candidates(C) == IsFiniteSet(C) /\ Placed(C) /\ Likenesses(C)

\* Before is a strict total order of them, and First is its least.
Ordered(C) ==
    /\ \A c \in C : ~Before(c, c)
    /\ \A c, d \in C : c = d \/ Before(c, d) \/ Before(d, c)
    /\ \A c, d, e \in C : Before(c, d) /\ Before(d, e) => Before(c, e)

LEMMA PlacedAreOrdered == ASSUME NEW C, Placed(C) PROVE Ordered(C)
<1> USE DEF Placed, Before
<1>1. \A c \in C : ~Before(c, c)
    OBVIOUS
<1>2. \A c, d \in C : c = d \/ Before(c, d) \/ Before(d, c)
    OBVIOUS
<1>3. \A c, d, e \in C : Before(c, d) /\ Before(d, e) => Before(c, e)
    OBVIOUS
<1>4. QED
    BY <1>1, <1>2, <1>3 DEF Ordered

LEMMA PartsOfCandidates ==
    ASSUME NEW C, Candidates(C), NEW S \in SUBSET C
    PROVE  Candidates(S) /\ Ordered(S)
<1>1. IsFiniteSet(S)
    BY FS_Subset DEF Candidates
<1>2. Placed(S) /\ Likenesses(S)
    BY DEF Candidates, Placed, Likenesses
<1>3. QED
    BY <1>1, <1>2, PlacedAreOrdered DEF Candidates

IsFirst(m, S) == m \in S /\ \A d \in S \ {m} : Before(m, d)
IsLast(m, S) == m \in S /\ \A d \in S \ {m} : Before(d, m)

LEMMA EndsExist ==
    ASSUME NEW C, Candidates(C), C # {}
    PROVE  (\E m : IsFirst(m, C)) /\ \E m : IsLast(m, C)
<1> DEFINE holds == {s \in SUBSET C : s # {} => (\E m : IsFirst(m, s)) /\ \E m : IsLast(m, s)}
<1>1. {} \in holds
    OBVIOUS
<1>2. ASSUME NEW s \in SUBSET C, s # {}, \A x \in s : s \ {x} \in holds PROVE s \in holds
  <2>1. PICK x \in s : TRUE
      BY <1>2
  <2>2. CASE s \ {x} = {}
    <3>1. IsFirst(x, s) /\ IsLast(x, s)
        BY <2>1, <2>2 DEF IsFirst, IsLast
    <3>2. QED
        BY <3>1
  <2>3. CASE s \ {x} # {}
    <3>1. PICK m, n : IsFirst(m, s \ {x}) /\ IsLast(n, s \ {x})
        BY <1>2, <2>1, <2>3
    <3>2. Ordered(s)
        BY PartsOfCandidates
    <3>3. IsFirst(m, s) \/ IsFirst(x, s)
        BY <2>1, <3>1, <3>2 DEF IsFirst, Ordered
    <3>4. IsLast(n, s) \/ IsLast(x, s)
        BY <2>1, <3>1, <3>2 DEF IsLast, Ordered
    <3>5. QED
        BY <3>3, <3>4
  <2>4. QED
      BY <2>2, <2>3
<1>3. SUBSET C \subseteq holds
  <2> HIDE DEF holds
  <2>0. IsFiniteSet(C)
      BY DEF Candidates
  <2>1. QED
      BY <1>1, <1>2, <2>0, SubsetsByOne
<1>4. C \in holds
    BY <1>3
<1>5. QED
    BY <1>4

LEMMA FirstIsFirst ==
    ASSUME NEW C, Candidates(C), NEW S \in SUBSET C, S # {}
    PROVE  IsFirst(First(S), S) /\ \A m : IsFirst(m, S) => First(S) = m
<1>1. Candidates(S) /\ Ordered(S)
    BY PartsOfCandidates
<1>2. \E m \in S : \A d \in S \ {m} : Before(m, d)
    BY <1>1, EndsExist DEF IsFirst
<1>3. IsFirst(First(S), S)
    BY <1>2 DEF First, IsFirst
<1>4. ASSUME NEW m, IsFirst(m, S) PROVE First(S) = m
    BY <1>1, <1>3, <1>4 DEF IsFirst, Ordered
<1>5. QED
    BY <1>3, <1>4

-----------------------------------------------------------------------------
(* The clusters.                                                            *)

Openers(f, S, c) == {d \in S : Before(d, c) /\ f[d] = d /\ Alike(c, d)}
Opened(f, S, c) == IF Openers(f, S, c) = {} THEN c ELSE First(Openers(f, S, c))
Opens(f, S) == f = [c \in S |-> Opened(f, S, c)]
Clusters(f, S) == {{c \in S : f[c] = o} : o \in {f[c] : c \in S}}

\* Every candidate has an opener: the last one's is found when the others have theirs.
LEMMA OpenersExist ==
    ASSUME NEW C, Candidates(C)
    PROVE  \E f : Opens(f, C)
<1> DEFINE holds == {s \in SUBSET C : \E f : Opens(f, s)}
<1>1. {} \in holds
  <2>1. Opens([c \in {} |-> c], {})
      BY DEF Opens
  <2>2. {} \in SUBSET C
      OBVIOUS
  <2>3. QED
      BY <2>1, <2>2
<1>2. ASSUME NEW s \in SUBSET C, s # {}, \A x \in s : s \ {x} \in holds PROVE s \in holds
  <2>1. Candidates(s) /\ Ordered(s)
      BY PartsOfCandidates
  <2>2. PICK x : IsLast(x, s)
      BY <1>2, <2>1, EndsExist
  <2>3. x \in s /\ \A c \in s : ~Before(x, c)
      BY <2>1, <2>2 DEF IsLast, Ordered
  <2>4. PICK f : Opens(f, s \ {x})
      BY <1>2, <2>3
  <2> DEFINE g == [c \in s |-> IF c = x THEN Opened(f, s \ {x}, x) ELSE f[c]]
  <2>5. ASSUME NEW c \in s PROVE Openers(g, s, c) = Openers(f, s \ {x}, c)
    <3>1. \A d \in s : Before(d, c) => d # x
        BY <2>3
    <3>2. QED
        BY <3>1 DEF Openers
  <2>6. ASSUME NEW c \in s PROVE g[c] = Opened(g, s, c)
    <3>1. Opened(g, s, c) = Opened(f, s \ {x}, c)
        BY <2>5 DEF Opened
    <3>2. c # x => f[c] = Opened(f, s \ {x}, c)
        BY <2>4 DEF Opens
    <3>3. QED
        BY <3>1, <3>2
  <2>7. g = [c \in s |-> Opened(g, s, c)]
    <3>1. g = [c \in s |-> g[c]]
        OBVIOUS
    <3> HIDE DEF g
    <3>2. QED
        BY <2>6, <3>1
  <2> HIDE DEF g
  <2>8. Opens(g, s)
      BY <2>7 DEF Opens
  <2>9. QED
      BY <2>8
<1>3. SUBSET C \subseteq holds
  <2> HIDE DEF holds
  <2>0. IsFiniteSet(C)
      BY DEF Candidates
  <2>1. QED
      BY <1>1, <1>2, <2>0, SubsetsByOne
<1>4. C \in holds
    BY <1>3
<1>5. QED
    BY <1>4

\* What a candidate's opener is.
OpenersAre(f, C) ==
    \A c \in C : /\ f[c] \in C /\ f[f[c]] = f[c] /\ Alike(c, f[c])
                 /\ f[c] = c \/ Before(f[c], c)
LEMMA OpenersOpen ==
    ASSUME NEW C, Candidates(C), NEW f, Opens(f, C)
    PROVE  OpenersAre(f, C)
<1>1. SUFFICES ASSUME NEW c \in C
               PROVE  /\ f[c] \in C /\ f[f[c]] = f[c] /\ Alike(c, f[c])
                      /\ f[c] = c \/ Before(f[c], c)
    BY DEF OpenersAre
<1>2. f[c] = Opened(f, C, c)
    BY DEF Opens
<1>3. CASE Openers(f, C, c) = {}
  <2>1. f[c] = c
      BY <1>2, <1>3 DEF Opened
  <2>2. Alike(c, c)
      BY DEF Candidates, Likenesses
  <2>3. QED
      BY <2>1, <2>2
<1>4. CASE Openers(f, C, c) # {}
  <2>1. Openers(f, C, c) \in SUBSET C
      BY DEF Openers
  <2>2. f[c] \in Openers(f, C, c)
    <3>1. IsFirst(First(Openers(f, C, c)), Openers(f, C, c))
        BY <1>4, <2>1, FirstIsFirst
    <3>2. QED
        BY <1>2, <1>4, <3>1 DEF Opened, IsFirst
  <2>3. QED
      BY <2>2 DEF Openers
<1>5. QED
    BY <1>3, <1>4

\* When claims do not blur, alike candidates have the same opener.
LEMMA AlikeAreTogether ==
    ASSUME NEW C, Candidates(C), NEW f, Opens(f, C), Distinct(C),
           NEW c \in C, NEW d \in C, Alike(c, d)
    PROVE  f[c] = f[d]
<1>1. OpenersAre(f, C) /\ Ordered(C)
    BY OpenersOpen, PlacedAreOrdered DEF Candidates
<1>2. /\ f[c] \in C /\ f[d] \in C
      /\ Alike(c, f[c]) /\ Alike(d, f[d]) /\ f[f[c]] = f[c] /\ f[f[d]] = f[d]
    BY <1>1 DEF OpenersAre
<1>3. Alike(f[c], f[d]) /\ Alike(f[d], f[c])
  <2>1. Alike(f[c], c) /\ Alike(d, c)
      BY <1>2 DEF Candidates, Likenesses
  <2>2. Alike(f[c], d)
      BY <1>2, <2>1 DEF Distinct
  <2>3. Alike(f[c], f[d])
      BY <1>2, <2>2 DEF Distinct
  <2>4. QED
      BY <1>2, <2>3 DEF Candidates, Likenesses
<1>4. ASSUME NEW o \in C, NEW q \in C, f[o] = o, f[q] = q, Alike(q, o) PROVE ~Before(o, q)
  <2>1. SUFFICES ASSUME Before(o, q) PROVE FALSE
      OBVIOUS
  <2>2. o \in Openers(f, C, q)
      BY <1>4, <2>1 DEF Openers
  <2>3. q \in Openers(f, C, q)
    <3>1. Openers(f, C, q) \in SUBSET C
        BY DEF Openers
    <3>2. IsFirst(First(Openers(f, C, q)), Openers(f, C, q))
        BY <2>2, <3>1, FirstIsFirst
    <3>3. q = First(Openers(f, C, q))
        BY <1>4, <2>2 DEF Opens, Opened
    <3>4. QED
        BY <3>2, <3>3 DEF IsFirst
  <2>4. Before(q, q)
      BY <2>3 DEF Openers
  <2>5. QED
      BY <1>1, <2>4 DEF Ordered
<1>5. QED
    BY <1>1, <1>2, <1>3, <1>4 DEF Ordered

\* What a clustering of candidates is: it leaves none out and has none twice,
\* each is like the first of its cluster, and if claims do not blur then alike
\* candidates are in one cluster.
Parts(P, C) ==
    /\ UNION P = C /\ {} \notin P
    /\ \A p, q \in P : \A c \in p : c \in q => p = q
Clustered(P, C) ==
    /\ \A p \in P : \A c \in p : Alike(c, First(p))
    /\ Distinct(C) => \A p \in P : \A c \in p : \A d \in C : Kind(c) = Kind(d) /\ Alike(c, d) => d \in p

LEMMA ClusterParts ==
    ASSUME NEW C, Candidates(C)
    PROVE  Parts(cluster_candidates(C), C) /\ Clustered(cluster_candidates(C), C)
<1> DEFINE opens(f) == f = [c \in C |->
                 LET open == {d \in C : Before(d, c) /\ f[d] = d /\ Alike(c, d)}
                 IN  IF open = {} THEN c ELSE First(open)]
           chosen == CHOOSE f : opens(f)
<1>1. PICK g : Opens(g, C)
    BY OpenersExist
<1>2. opens(g)
    BY <1>1 DEF Opens, Opened, Openers
<1>3. opens(chosen)
    BY <1>2
<1>4. cluster_candidates(C) = Clusters(chosen, C)
    BY DEF cluster_candidates, Clusters
<1>5. Opens(chosen, C)
    BY <1>3 DEF Opens, Opened, Openers
<1> HIDE DEF chosen, opens
<1>6. PICK f : Opens(f, C) /\ cluster_candidates(C) = Clusters(f, C)
    BY <1>4, <1>5
<1>7. OpenersAre(f, C) /\ Ordered(C)
    BY <1>6, OpenersOpen, PlacedAreOrdered DEF Candidates
<1> DEFINE P == Clusters(f, C)
<1>8. ASSUME NEW p \in P
      PROVE  \E o \in C : p = {c \in C : f[c] = o} /\ f[o] = o
  <2>1. PICK c \in C : p = {d \in C : f[d] = f[c]}
      BY DEF Clusters
  <2>2. f[c] \in C /\ f[f[c]] = f[c]
      BY <1>7 DEF OpenersAre
  <2>3. QED
      BY <2>1, <2>2
<1>9. ASSUME NEW c \in C PROVE {d \in C : f[d] = f[c]} \in P
    BY DEF Clusters
<1> HIDE DEF P
<1>10. Parts(P, C)
  <2>1. UNION P = C
    <3>1. UNION P \subseteq C
        BY <1>8
    <3>2. C \subseteq UNION P
        BY <1>9
    <3>3. QED
        BY <3>1, <3>2
  <2>2. {} \notin P
    <3>1. \A p \in P : p # {}
        BY <1>8
    <3>2. QED
        BY <3>1
  <2>3. ASSUME NEW p \in P, NEW q \in P, NEW c \in p, c \in q PROVE p = q
    <3>1. PICK o \in C : p = {d \in C : f[d] = o}
        BY <1>8
    <3>2. PICK u \in C : q = {d \in C : f[d] = u}
        BY <1>8
    <3>3. o = u
        BY <2>3, <3>1, <3>2
    <3>4. QED
        BY <3>1, <3>2, <3>3
  <2>4. QED
      BY <2>1, <2>2, <2>3 DEF Parts
<1>11. ASSUME NEW p \in P, NEW c \in p PROVE Alike(c, First(p))
  <2>1. PICK o \in C : p = {d \in C : f[d] = o} /\ f[o] = o
      BY <1>8
  <2>2. IsFirst(o, p)
    <3>1. \A d \in p \ {o} : Before(o, d)
        BY <1>7, <2>1 DEF OpenersAre
    <3>2. QED
        BY <2>1, <3>1 DEF IsFirst
  <2>3. First(p) = o
    <3>1. p \in SUBSET C /\ p # {}
        BY <2>1
    <3>2. QED
        BY <2>2, <3>1, FirstIsFirst
  <2>4. QED
      BY <1>7, <2>1, <2>3 DEF OpenersAre
<1>12. ASSUME Distinct(C), NEW p \in P, NEW c \in p, NEW d \in C, Alike(c, d) PROVE d \in p
  <2>1. PICK o \in C : p = {e \in C : f[e] = o}
      BY <1>8
  <2>2. f[c] = f[d]
    <3>1. c \in C
        BY <2>1
    <3>2. QED
        BY <1>6, <1>12, <3>1, AlikeAreTogether
  <2>3. QED
      BY <2>1, <2>2
<1>13. Clustered(P, C)
    BY <1>11, <1>12 DEF Clustered
<1>14. QED
    BY <1>6, <1>10, <1>13 DEF P

OfOneKind(p) == \A c, d \in p : Kind(c) = Kind(d)
LEMMA PartitionedParts ==
    ASSUME NEW C, Candidates(C), NEW P, P = cluster_candidates_partitioned(C)
    PROVE  Parts(P, C) /\ Clustered(P, C) /\ \A p \in P : OfOneKind(p)
<1> DEFINE part(k) == cluster_candidates(Of(k, C))
<1>1. P = UNION {part(k) : k \in {Kind(c) : c \in C}}
    BY DEF cluster_candidates_partitioned
<1>2. ASSUME NEW k
      PROVE  /\ Of(k, C) \in SUBSET C /\ Candidates(Of(k, C))
             /\ Parts(part(k), Of(k, C)) /\ Clustered(part(k), Of(k, C))
  <2>1. Of(k, C) \in SUBSET C
      BY DEF Of
  <2>2. Candidates(Of(k, C))
      BY <2>1, PartsOfCandidates
  <2>3. QED
      BY <2>1, <2>2, ClusterParts
<1> HIDE DEF part
<1>3. ASSUME NEW p \in P
      PROVE  \E c \in C : p \in part(Kind(c)) /\ \A d \in p : d \in C /\ Kind(d) = Kind(c)
  <2>1. PICK c \in C : p \in part(Kind(c))
      BY <1>1
  <2>2. p \subseteq Of(Kind(c), C)
      BY <1>2, <2>1 DEF Parts
  <2>3. QED
      BY <2>1, <2>2 DEF Of
<1>4. ASSUME NEW c \in C PROVE part(Kind(c)) \subseteq P /\ \E p \in part(Kind(c)) : c \in p
  <2>1. part(Kind(c)) \subseteq P
      BY <1>1
  <2>2. c \in Of(Kind(c), C)
      BY DEF Of
  <2>3. c \in UNION part(Kind(c))
      BY <1>2, <2>2 DEF Parts
  <2>4. QED
      BY <2>1, <2>3
<1>5. Parts(P, C)
  <2>1. UNION P = C
    <3>1. UNION P \subseteq C
        BY <1>3
    <3>2. C \subseteq UNION P
        BY <1>4
    <3>3. QED
        BY <3>1, <3>2
  <2>2. {} \notin P
    <3>1. ASSUME NEW p \in P PROVE p # {}
      <4>1. PICK c \in C : p \in part(Kind(c))
          BY <1>3
      <4>2. {} \notin part(Kind(c))
          BY <1>2 DEF Parts
      <4>3. QED
          BY <4>1, <4>2
    <3>2. QED
        BY <3>1
  <2>3. ASSUME NEW p \in P, NEW q \in P, NEW c \in p, c \in q PROVE p = q
    <3>1. p \in part(Kind(c)) /\ q \in part(Kind(c))
        BY <1>3, <2>3
    <3>2. QED
        BY <1>2, <2>3, <3>1 DEF Parts
  <2>4. QED
      BY <2>1, <2>2, <2>3 DEF Parts
<1>6. Clustered(P, C)
  <2>1. ASSUME NEW p \in P, NEW c \in p PROVE Alike(c, First(p))
      BY <1>2, <1>3 DEF Clustered
  <2>2. ASSUME Distinct(C), NEW p \in P, NEW c \in p, NEW d \in C, Kind(c) = Kind(d), Alike(c, d)
        PROVE  d \in p
    <3>1. p \in part(Kind(c)) /\ c \in C
        BY <1>3
    <3>2. d \in Of(Kind(c), C)
        BY <2>2 DEF Of
    <3>3. Distinct(Of(Kind(c), C))
        BY <2>2 DEF Distinct, Of
    <3>4. QED
        BY <1>2, <2>2, <3>1, <3>2, <3>3 DEF Clustered
  <2>3. QED
      BY <2>1, <2>2 DEF Clustered
<1>7. \A p \in P : OfOneKind(p)
  <2>1. ASSUME NEW p \in P, NEW c \in p, NEW d \in p PROVE Kind(c) = Kind(d)
      BY <1>3
  <2>2. QED
      BY <2>1 DEF OfOneKind
<1>8. QED
    BY <1>5, <1>6, <1>7

\* The medoid is a member.
LEMMA CanonicalIsMember ==
    ASSUME NEW C, Candidates(C), NEW p \in SUBSET C, p # {}
    PROVE  canonical_of(p) \in p
<1> DEFINE centrality == [c \in p |-> Centrality(c, p)]
<1>1. Candidates(p)
    BY PartsOfCandidates
<1>2. ASSUME NEW c \in p PROVE Centrality(c, p) \in Int
  <2> DEFINE likeness == [d \in p \ {c} |-> Similarity(c.vector, d.vector)]
  <2>1. Centrality(c, p) = SumFunctionOnSet(likeness, p \ {c})
      BY DEF Centrality, SumFunction
  <2>2. \A d \in p \ {c} : likeness[d] \in Int
      BY <1>1 DEF Candidates, Likenesses
  <2>3. IsFiniteSet(p \ {c})
      BY <1>1, FS_RemoveElement DEF Candidates
  <2> HIDE DEF likeness
  <2>4. QED
      BY <2>1, <2>2, <2>3, SumIsANumber
<1>3. \A c \in p : centrality[c] \in Int /\ centrality[c] = Centrality(c, p)
    BY <1>2
<1> HIDE DEF centrality
<1>4. PICK m \in p : \A c \in p : centrality[c] <= centrality[m]
  <2>1. IsFiniteSet(p)
      BY <1>1 DEF Candidates
  <2>2. QED
      BY <1>3, <2>1, SomeIsGreatest
<1> DEFINE best == {c \in p : \A d \in p : Centrality(d, p) <= Centrality(c, p)}
<1>5. best \in SUBSET p /\ best # {}
    BY <1>3, <1>4
<1>6. canonical_of(p) = First(best)
    BY DEF canonical_of
<1> HIDE DEF best
<1>7. First(best) \in best
    BY <1>1, <1>5, FirstIsFirst DEF IsFirst
<1>8. QED
    BY <1>5, <1>6, <1>7

-----------------------------------------------------------------------------
(* What is consolidated.                                                    *)

Answered(answers) == DOMAIN answers \subseteq Asked /\ \A s \in DOMAIN answers : answers[s] \in Answer
Said(answers, s, i) ==
    [sample |-> s, position |-> i, vector |-> answers[s][i].vector,
     polarity |-> answers[s][i].polarity, class |-> answers[s][i].class]

\* What the samples said is a finite set of candidates.
LEMMA FlatIsCandidates ==
    ASSUME NEW answers, Answered(answers)
    PROVE  Candidates(Flat(answers)) /\ \A c \in Flat(answers) : c.sample \in Asked
<1> DEFINE C == Flat(answers)
           of(s) == {Said(answers, s, i) : i \in DOMAIN answers[s]}
           each == {of(s) : s \in DOMAIN answers}
<1>1. C = UNION each
    BY DEF Flat, Said
<1>2. ASSUME NEW s \in DOMAIN answers
      PROVE  /\ s \in Asked /\ s \in Nat
             /\ \E n \in Nat : DOMAIN answers[s] = 1 .. n
             /\ \A i \in DOMAIN answers[s] : i \in Nat /\ answers[s][i].vector \in Vectors
  <2>1. s \in Asked /\ answers[s] \in Answer
      BY DEF Answered
  <2>2. answers[s] \in Seq({answers[s][i] : i \in DOMAIN answers[s]})
      BY <2>1, SamplesAreLists
  <2>3. Len(answers[s]) \in Nat /\ DOMAIN answers[s] = 1 .. Len(answers[s])
      BY <2>2
  <2>4. \A i \in DOMAIN answers[s] : answers[s][i].vector \in Vectors
      BY <2>1 DEF Vectors
  <2>5. s \in Nat
      BY <2>1, SamplesAreLists DEF Asked
  <2>6. \E n \in Nat : DOMAIN answers[s] = 1 .. n
      BY <2>3
  <2>7. \A i \in DOMAIN answers[s] : i \in Nat
      BY <2>3
  <2>8. QED
      BY <2>1, <2>4, <2>5, <2>6, <2>7
<1>3. ASSUME NEW c \in C
      PROVE  \E s \in DOMAIN answers : \E i \in DOMAIN answers[s] : c = Said(answers, s, i)
    BY <1>1
<1>4. IsFiniteSet(C)
  <2>1. ASSUME NEW s \in DOMAIN answers PROVE IsFiniteSet(of(s))
    <3> DEFINE g == [i \in DOMAIN answers[s] |-> Said(answers, s, i)]
    <3>1. g \in Surjection(DOMAIN answers[s], of(s))
        BY DEF Surjection
    <3>2. PICK n \in Nat : DOMAIN answers[s] = 1 .. n
        BY <1>2
    <3>3. IsFiniteSet(DOMAIN answers[s])
        BY <3>2, FS_Interval
    <3> HIDE DEF g
    <3>4. QED
        BY <3>1, <3>3, FS_Surjection
  <2>2. IsFiniteSet(each)
    <3> DEFINE h == [s \in DOMAIN answers |-> of(s)]
    <3>1. h \in Surjection(DOMAIN answers, each)
        BY DEF Surjection
    <3>2. IsFiniteSet(DOMAIN answers)
      <4>1. IsFiniteSet(Asked)
          BY SamplesAreLists, FS_Interval DEF Asked
      <4>2. DOMAIN answers \in SUBSET Asked
          BY DEF Answered
      <4>3. QED
          BY <4>1, <4>2, FS_Subset
    <3> HIDE DEF h
    <3>3. QED
        BY <3>1, <3>2, FS_Surjection
  <2>3. \A T \in each : IsFiniteSet(T)
      BY <2>1
  <2> HIDE DEF each
  <2>4. QED
      BY <1>1, <2>2, <2>3, FS_UNION
<1> HIDE DEF C
<1>5. ASSUME NEW c \in C
      PROVE  /\ c.sample \in Asked /\ c.sample \in Nat /\ c.position \in Nat
             /\ c.vector \in Vectors /\ c = Said(answers, c.sample, c.position)
    BY <1>2, <1>3 DEF Said
<1>6. Placed(C)
    BY <1>5 DEF Placed
<1>7. Likenesses(C)
    BY <1>5, SimilarityIsCosine DEF Likenesses, Alike
<1>8. QED
    BY <1>4, <1>5, <1>6, <1>7 DEF Candidates, C

\* What the samples answered, and what was made of it.
SamplingInv ==
    /\ Answered(samples)
    /\ results # {} => DOMAIN samples = Asked /\ results = Consolidated(Flat(samples))

LEMMA SamplingKept == SamplingInv /\ [SamplingNext]_samplingVars => SamplingInv'
<1>1. SUFFICES ASSUME SamplingInv, [SamplingNext]_samplingVars PROVE SamplingInv'
    OBVIOUS
<1>2. CASE UNCHANGED samplingVars
    BY <1>1, <1>2 DEF SamplingInv, samplingVars
<1>3. CASE _infer_span
    BY <1>1, <1>3 DEF SamplingInv, _infer_span
<1>4. ASSUME NEW s \in Asked, NEW answer \in Answer, sample_once(s, answer) PROVE SamplingInv'
  <2>1. Answered(samples')
      BY <1>1, <1>4 DEF SamplingInv, Answered, sample_once
  <2>2. results' = {}
      BY <1>1, <1>4 DEF SamplingInv, sample_once
  <2>3. QED
      BY <2>1, <2>2 DEF SamplingInv
<1>5. QED
    BY <1>1, <1>2, <1>3, <1>4 DEF SamplingNext

\* A proposition of several samples is a cluster, by its medoid.
Twin(p, q) ==
    /\ canonical_of(p).polarity # canonical_of(q).polarity
    /\ Alike(canonical_of(p), canonical_of(q))
Proposition(P, p) ==
    [canonical |-> canonical_of(p), agreement |-> agreement_of(p), members |-> p,
     polarity_unstable |-> \E q \in P : Twin(p, q)]

LEMMA ConsolidatedParts ==
    ASSUME NEW C, NSamples > 1
    PROVE  Consolidated(C) =
             {Proposition(cluster_candidates_partitioned(C), p) : p \in cluster_candidates_partitioned(C)}
<1>1. NSamples # 1
    BY SamplesAreLists
<1>2. QED
    BY <1>1 DEF Consolidated, consolidate_samples, Proposition, Twin

\* What the parts of a partition and their medoids are to the candidates.
LEMMA MedoidParts ==
    ASSUME NEW C, Candidates(C), NEW P, P = cluster_candidates_partitioned(C), NEW p \in P
    PROVE  /\ p \in SUBSET C /\ canonical_of(p) \in p
           /\ \A c \in p : Kind(c) = Kind(canonical_of(p)) /\ Alike(c, First(p))
<1>1. Parts(P, C) /\ Clustered(P, C) /\ OfOneKind(p)
    BY PartitionedParts
<1>2. p \in SUBSET C /\ p # {}
    BY <1>1 DEF Parts
<1>3. canonical_of(p) \in p
    BY <1>2, CanonicalIsMember
<1>4. QED
    BY <1>1, <1>2, <1>3 DEF OfOneKind, Clustered

EachOnce(C, R) ==
    \A c \in C :
        /\ Cardinality({r \in R : c \in r.members}) = 1
        /\ \A r \in R : c \in r.members =>
             Kind(c) = <<r.canonical.polarity, r.canonical.class>> /\ Alike(c, First(r.members))

LEMMA SingleOnce ==
    ASSUME NEW C, Candidates(C), NSamples = 1
    PROVE  EachOnce(C, Consolidated(C))
<1> DEFINE alone(c) == [canonical |-> c, agreement |-> 1, members |-> {c}, polarity_unstable |-> FALSE]
           R == Consolidated(C)
<1>1. R = {alone(c) : c \in C}
    BY DEF Consolidated
<1>2. ASSUME NEW c \in C
      PROVE  /\ Cardinality({r \in R : c \in r.members}) = 1
             /\ \A r \in R : c \in r.members =>
                  Kind(c) = <<r.canonical.polarity, r.canonical.class>> /\ Alike(c, First(r.members))
  <2>1. \A r \in R : c \in r.members => r = alone(c)
      BY <1>1
  <2>2. {r \in R : c \in r.members} = {alone(c)}
      BY <1>1, <2>1
  <2>3. Cardinality({alone(c)}) = 1
      BY FS_Singleton
  <2>4. Kind(c) = <<alone(c).canonical.polarity, alone(c).canonical.class>> /\ alone(c).members = {c}
      BY DEF Kind
  <2>5. Alike(c, First({c}))
    <3>1. {c} \in SUBSET C /\ {c} # {}
        OBVIOUS
    <3>2. First({c}) \in {c}
        BY <3>1, FirstIsFirst DEF IsFirst
    <3>3. Alike(c, c)
        BY DEF Candidates, Likenesses
    <3>4. QED
        BY <3>2, <3>3
  <2> HIDE DEF alone, R
  <2>6. QED
      BY <2>1, <2>2, <2>3, <2>4, <2>5
<1>3. QED
    BY <1>2 DEF EachOnce

LEMMA SeveralOnce ==
    ASSUME NEW C, Candidates(C), NSamples > 1
    PROVE  EachOnce(C, Consolidated(C))
<1> DEFINE P == cluster_candidates_partitioned(C)
           R == Consolidated(C)
           prop(p) == Proposition(P, p)
<1>1. R = {prop(p) : p \in P}
    BY ConsolidatedParts
<1>2. \A p : prop(p).members = p /\ prop(p).canonical = canonical_of(p)
    BY DEF Proposition
<1>3. Parts(P, C)
    BY PartitionedParts
<1>4. \A p \in P : /\ canonical_of(p) \in p
                   /\ \A c \in p : Kind(c) = Kind(canonical_of(p)) /\ Alike(c, First(p))
    BY MedoidParts
<1> HIDE DEF R, P, prop
<1>5. ASSUME NEW c \in C
      PROVE  /\ Cardinality({r \in R : c \in r.members}) = 1
             /\ \A r \in R : c \in r.members =>
                  Kind(c) = <<r.canonical.polarity, r.canonical.class>> /\ Alike(c, First(r.members))
  <2>1. PICK p \in P : c \in p
      BY <1>3 DEF Parts
  <2>2. \A r \in R : c \in r.members => r = prop(p)
    <3>1. ASSUME NEW q \in P, c \in q PROVE q = p
        BY <1>3, <2>1, <3>1 DEF Parts
    <3>2. QED
        BY <1>1, <1>2, <3>1
  <2>3. prop(p) \in R /\ prop(p).members = p /\ prop(p).canonical = canonical_of(p)
      BY <1>1, <1>2, <2>1
  <2>4. {r \in R : c \in r.members} = {prop(p)}
      BY <2>1, <2>2, <2>3
  <2>5. Cardinality({prop(p)}) = 1
      BY FS_Singleton
  <2>6. Kind(c) = <<prop(p).canonical.polarity, prop(p).canonical.class>> /\ Alike(c, First(prop(p).members))
      BY <1>4, <2>1, <2>3 DEF Kind
  <2>7. QED
      BY <2>2, <2>4, <2>5, <2>6
<1>6. QED
    BY <1>5 DEF EachOnce, R

\* Two candidates of one cluster are alike when claims do not blur.
LEMMA MembersAreAlike ==
    ASSUME NEW C, Candidates(C), Distinct(C), NEW P, P = cluster_candidates_partitioned(C), NEW p \in P
    PROVE  /\ \A c, d \in p : Alike(c, d)
           /\ \A c \in p : \A d \in C : Kind(c) = Kind(d) /\ Alike(c, d) => d \in p
<1>1. p \in SUBSET C /\ canonical_of(p) \in p /\ \A c \in p : Alike(c, First(p))
    BY MedoidParts
<1>2. First(p) \in p
  <2>1. p # {}
      BY <1>1
  <2>2. QED
      BY <1>1, <2>1, FirstIsFirst DEF IsFirst
<1>3. ASSUME NEW c \in p, NEW d \in p PROVE Alike(c, d)
  <2>1. c \in C /\ d \in C /\ First(p) \in C
      BY <1>1, <1>2
  <2>2. Alike(c, First(p)) /\ Alike(First(p), d)
      BY <1>1, <2>1 DEF Candidates, Likenesses
  <2>3. QED
      BY <2>1, <2>2 DEF Distinct
<1>4. Clustered(P, C)
    BY PartitionedParts
<1>5. QED
    BY <1>3, <1>4 DEF Clustered

IsTheClaim(C, r) ==
    LET claim == {c \in C : Alike(c, r.canonical)}
        same == {c \in claim : c.polarity = r.canonical.polarity /\ c.class = r.canonical.class}
    IN  /\ r.members = same
        /\ r.agreement = Cardinality({s \in Asked : \E c \in same : c.sample = s})
        /\ r.polarity_unstable <=> (\E c \in claim : c.polarity # r.canonical.polarity)
PerClaim(C, R) == \A r \in R : IsTheClaim(C, r)

LEMMA SeveralPerClaim ==
    ASSUME NEW C, Candidates(C), Distinct(C), \A c \in C : c.sample \in Asked, NSamples > 1
    PROVE  PerClaim(C, Consolidated(C))
<1> DEFINE P == cluster_candidates_partitioned(C)
<1>1. SUFFICES ASSUME NEW p \in P, NEW r, r = Proposition(P, p) PROVE IsTheClaim(C, r)
  <2>1. Consolidated(C) = {Proposition(P, p) : p \in P}
      BY ConsolidatedParts
  <2> HIDE DEF P
  <2>2. QED
      BY <2>1 DEF PerClaim
<1> DEFINE k == canonical_of(p)
           claim == {c \in C : Alike(c, k)}
           same == {c \in claim : c.polarity = k.polarity /\ c.class = k.class}
<1>2. /\ r.canonical = k /\ r.members = p /\ r.agreement = agreement_of(p)
      /\ r.polarity_unstable <=> \E q \in P : Twin(p, q)
    BY <1>1 DEF Proposition
<1>3. \A q \in P : /\ q \in SUBSET C /\ canonical_of(q) \in q
                   /\ \A c \in q : Kind(c) = Kind(canonical_of(q))
                   /\ \A c, d \in q : Alike(c, d)
                   /\ \A c \in q : \A d \in C : Kind(c) = Kind(d) /\ Alike(c, d) => d \in q
    BY MedoidParts, MembersAreAlike
<1>4. \A c, d \in C : Alike(c, d) <=> Alike(d, c)
    BY DEF Candidates, Likenesses
<1>5. Parts(P, C)
    BY PartitionedParts
<1>6. p \in P
    BY <1>1
<1> HIDE DEF P, k
<1>7. k \in p /\ k \in C
    BY <1>3, <1>6 DEF k
<1>8. p = same
  <2>1. ASSUME NEW c \in p PROVE c \in same
    <3>1. c \in C /\ Alike(c, k) /\ Kind(c) = Kind(k)
        BY <1>3, <1>6, <1>7 DEF k
    <3>2. QED
        BY <3>1 DEF Kind
  <2>2. ASSUME NEW c \in same PROVE c \in p
    <3>1. c \in C /\ Alike(k, c) /\ Kind(k) = Kind(c)
        BY <1>4, <1>7 DEF Kind
    <3>2. QED
        BY <1>3, <1>6, <1>7, <3>1
  <2>3. QED
      BY <2>1, <2>2
<1>9. agreement_of(p) = Cardinality({s \in Asked : \E c \in p : c.sample = s})
  <2>1. {c.sample : c \in p} = {s \in Asked : \E c \in p : c.sample = s}
      BY <1>3, <1>6
  <2>2. QED
      BY <2>1 DEF agreement_of
<1>10. (\E q \in P : Twin(p, q)) <=> (\E c \in claim : c.polarity # k.polarity)
  <2>1. ASSUME NEW q \in P, Twin(p, q) PROVE \E c \in claim : c.polarity # k.polarity
    <3>1. canonical_of(q) \in C
        BY <1>3
    <3>2. canonical_of(q).polarity # k.polarity /\ Alike(k, canonical_of(q))
        BY <2>1 DEF Twin, k
    <3>3. canonical_of(q) \in claim
        BY <1>4, <1>7, <3>1, <3>2
    <3>4. QED
        BY <3>2, <3>3
  <2>2. ASSUME NEW c \in claim, c.polarity # k.polarity PROVE \E q \in P : Twin(p, q)
    <3>1. PICK q \in P : c \in q
        BY <1>5 DEF Parts
    <3> DEFINE m == canonical_of(q)
    <3>2. m \in C /\ Kind(c) = Kind(m) /\ Alike(m, c)
        BY <1>3, <3>1
    <3>3. c \in C /\ Alike(c, k)
        OBVIOUS
    <3> HIDE DEF m
    <3>4. Alike(m, k)
        BY <1>7, <3>2, <3>3 DEF Distinct
    <3>5. Alike(k, m) /\ k.polarity # m.polarity
        BY <1>4, <1>7, <2>2, <3>2, <3>4 DEF Kind
    <3>6. Twin(p, q)
        BY <3>5 DEF Twin, k, m
    <3>7. QED
        BY <3>1, <3>6
  <2>3. QED
      BY <2>1, <2>2
<1>11. {s \in Asked : \E c \in p : c.sample = s} = {s \in Asked : \E c \in same : c.sample = s}
    BY <1>8
<1> HIDE DEF claim, same
<1>12. /\ r.members = same
       /\ r.agreement = Cardinality({s \in Asked : \E c \in same : c.sample = s})
       /\ r.polarity_unstable <=> (\E c \in claim : c.polarity # k.polarity)
    BY <1>2, <1>8, <1>9, <1>10, <1>11
<1>13. QED
    BY <1>2, <1>12 DEF claim, same, IsTheClaim

\* However many samples are asked, whatever they answer and in whatever order,
\* consolidation loses no candidate and mixes no two claims, signs or classes
\* (_infer_span and consolidate_samples).
THEOREM SamplesAreConsolidated == SamplingSpec => []ConsolidatesClaims
<1>1. SamplingInit => SamplingInv
  <2>1. SUFFICES ASSUME SamplingInit PROVE SamplingInv
      OBVIOUS
  <2>2. DOMAIN samples = {} /\ results = {}
      BY <2>1 DEF SamplingInit
  <2>3. QED
      BY <2>2 DEF SamplingInv, Answered
<1>2. SamplingInv => ConsolidatesClaims
  <2>1. SUFFICES ASSUME SamplingInv, results # {}
                 PROVE  EachAccountedOnce /\ (NSamples > 1 => OnePropositionPerClaim)
      BY DEF ConsolidatesClaims
  <2> DEFINE C == Flat(samples)
  <2>2. results = Consolidated(C) /\ Candidates(C) /\ \A c \in C : c.sample \in Asked
      BY <2>1, FlatIsCandidates DEF SamplingInv
  <2>3. EachOnce(C, results)
    <3>1. NSamples = 1 \/ NSamples > 1
        BY SamplesAreLists
    <3> HIDE DEF C
    <3>2. QED
        BY <2>2, <3>1, SingleOnce, SeveralOnce
  <2>4. EachAccountedOnce
      BY <2>3 DEF EachOnce, EachAccountedOnce
  <2>5. ASSUME NSamples > 1, Distinct(C) PROVE PerClaim(C, results)
    <3> HIDE DEF C
    <3>1. QED
        BY <2>2, <2>5, SeveralPerClaim
  <2>6. NSamples > 1 => OnePropositionPerClaim
      BY <2>5 DEF PerClaim, IsTheClaim, OnePropositionPerClaim
  <2>7. QED
      BY <2>4, <2>6
<1>3. QED
    BY <1>1, <1>2, SamplingKept, PTL DEF SamplingSpec

=============================================================================
