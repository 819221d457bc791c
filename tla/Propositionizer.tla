-------------------------- MODULE Propositionizer --------------------------
(***************************************************************************)
(* The proposition layer (core/proposition.py, core/reuse.py) and the one  *)
(* operator downstream of it (core/extract.py) over their shared store:    *)
(* proposition vertices, the append-only Action log and the Facts.         *)
(*                                                                         *)
(* A run of propositionize_document is Start -> Filter* -> Persist* ->     *)
(* Replay* -> (BackfillLoad, BackfillWrite)* -> Report.  Each of these is  *)
(* at most one transaction; LLM calls lie between them, so other sessions  *)
(* commit between any two.  A faithfulness is abstracted to the verifier   *)
(* that gave it, a content hash to what it digests.                        *)
(***************************************************************************)
EXTENDS Naturals, Sequences, FiniteSetsExt

CONSTANTS
    Worker,      \* concurrent propositionize_document calls
    Document, Span,
    SpansOf,     \* the level-0 spans of each document, in document order
    Passage,     \* the text and context window each span is extracted from
    Extractor,   \* extractor pipelines a deployment is configured with
    Verifier,    \* verifier identities
    Claim,       \* the claims an extraction may find
    Deployment,  \* the constructor's flags, with the documents, verifiers and claims they meet
    MaxRuns,     \* bound: runs started
    Null

ASSUME DocumentsAreTyped ==
    /\ SpansOf \in [Document -> Seq(Span)]
    /\ \A d \in Document : IsInjective(SpansOf[d])
    /\ Span \subseteq DOMAIN Passage
    /\ Deployment \subseteq [reuse_extractions : BOOLEAN, cascade_reextract : BOOLEAN,
                            documents : SUBSET Document, verifiers : SUBSET Verifier,
                            claims : SUBSET Claim]
    /\ MaxRuns \in Nat

\* None is no identity and no content hash.
ASSUME NullIsNothing ==
    /\ Null \notin Verifier
    /\ \A s \in Span, x \in Extractor : <<Passage[s], x>> # Null

VARIABLES
    deployed,    \* the deployment of this behaviour; it never changes
    faith,       \* live propositions, each with the verifier behind its faithfulness
    log,         \* the Action log
    facts,       \* extracted propositions: is the Fact still EVIDENCED_BY it?
    extracting,  \* the proposition the extract operator is working on
    run,         \* each worker's call
    started

vars == <<deployed, faith, log, facts, extracting, run, started>>

Live == DOMAIN faith
On(s) == {p \in Live : p.span = s}

-----------------------------------------------------------------------------
(* The Action log: what is known about a span is what its newest Action says. *)

Entries(actor, s) == {i \in DOMAIN log : log[i].actor = actor /\ log[i].span = s}
Extractions(s) == Entries("propositionizer", s)
Verifications(s) == Entries("verifier", s)
WithHash(h) == {i \in DOMAIN log : log[i].actor = "propositionizer" /\ log[i].hash = h}
Newest(entries) == log[Max(entries)]
Extraction(s, h, ids, sig) == [actor |-> "propositionizer", span |-> s, hash |-> h, props |-> ids, sig |-> sig]
Verification(s, ids, sig)  == [actor |-> "verifier", span |-> s, hash |-> Null, props |-> ids, sig |-> sig]

_pipeline_hash(s, x) == <<Passage[s], x>>
_extracted_hash(s) == IF Extractions(s) = {} THEN Null ELSE Newest(Extractions(s)).hash

\* The identity the current propositions of s were verified under.
NewestVerification(s) == IF Verifications(s) = {} THEN Null ELSE Newest(Verifications(s)).sig
CoversAny(s) == Newest(Verifications(s)).props # {}
CoversCurrent(s) == Newest(Verifications(s)).props \cap On(s) # {}
_span_verify_identity(s) ==
    IF NewestVerification(s) # Null /\ CoversCurrent(s) THEN NewestVerification(s)
    ELSE IF Extractions(s) = {} THEN Null
    ELSE Newest(Extractions(s)).sig

\* core/reuse.py: the newest extraction with this hash can be read back unless
\* one of its propositions is gone.
HasPopulated(h) ==
    LET e == WithHash(h) IN e # {} /\ Newest(e).props # {} /\ Newest(e).props \subseteq Live
HasReusable(h) == LET e == WithHash(h) IN e # {} /\ Newest(e).props \subseteq Live
_source_verify_sig(s) == NewestVerification(s)
find_reusable_extraction(h) ==
    LET a == Newest(WithHash(h))
    IN  [claims |-> [c \in {p.claim : p \in a.props} |-> faith[CHOOSE p \in a.props : p.claim = c]],
         sig |-> _source_verify_sig(a.span)]

_has_proposition_dependents(s) == \E p \in On(s) \cap DOMAIN facts : facts[p]

-----------------------------------------------------------------------------
(* The store's writes. *)

\* A new generation of propositions for s, one per claim.
Minted(s, claims) ==
    {[span |-> s, gen |-> Cardinality(Extractions(s)), claim |-> c] : c \in claims}

\* Purge and write in one transaction; DETACH DELETE takes the Facts' edges along.
WriteBesideOld(purged, new) ==
    /\ faith' = [p \in Live \cup DOMAIN new |-> IF p \in DOMAIN new THEN new[p] ELSE faith[p]]
    /\ facts' = facts
PurgeAndWrite(purged, new) ==
    /\ faith' = [p \in (Live \ purged) \cup DOMAIN new |-> IF p \in DOMAIN new THEN new[p] ELSE faith[p]]
    /\ facts' = [p \in DOMAIN facts |-> facts[p] /\ p \notin purged]

\* The identity is stamped only if the verifier answered for every proposition.
StampAlways(ids, answered, v) == v
Stamp(ids, answered, v) == IF answered = ids THEN v ELSE Null
VerifyEntry(s, ids, answered, v) ==
    IF v = Null \/ ids = {} THEN <<>> ELSE <<Verification(s, ids, Stamp(ids, answered, v))>>

-----------------------------------------------------------------------------

Marked(kind) == [kind |-> kind]
NoRun == [pc |-> "idle", spans |-> <<>>, extractor |-> Null, verifier |-> Null, i |-> 1,
          plan |-> <<>>, loaded |-> {}, clean |-> TRUE]

Init ==
    /\ deployed \in Deployment
    /\ faith = [p \in {} |-> Null]
    /\ log = <<>>
    /\ facts = [p \in {} |-> TRUE]
    /\ extracting = Null
    /\ run = [w \in Worker |-> NoRun]
    /\ started = 0

Start(w, d, x, v) ==
    /\ run[w].pc = "idle" /\ started < MaxRuns
    /\ started' = started + 1
    /\ run' = [run EXCEPT ![w] =
          [NoRun EXCEPT !.pc = "filter", !.spans = SpansOf[d], !.extractor = x, !.verifier = v,
                        !.plan = [i \in DOMAIN SpansOf[d] |-> Marked("new")]]]
    /\ UNCHANGED <<faith, log, facts, extracting>>

\* Phase 1 for one span: skip it, refuse the document, replay it or infer it.
AlreadyPopulated(s, h) == _extracted_hash(s) = h /\ On(s) # {}
AlreadyExtracted(s, h) == _extracted_hash(s) = h
Stale(s) == _extracted_hash(s) # Null
RefusedIfBoth(s) == Stale(s) /\ ~deployed.cascade_reextract /\ _has_proposition_dependents(s)
Refused(s) == Stale(s) /\ (~deployed.cascade_reextract \/ _has_proposition_dependents(s))
Planned(s, h) ==
    IF deployed.reuse_extractions /\ HasReusable(h)
    THEN [kind |-> "replay", stale |-> Stale(s), cached |-> find_reusable_extraction(h)]
    ELSE [kind |-> "infer", stale |-> Stale(s), cached |-> Null]

Filter(w) ==
    LET r == run[w]
        s == r.spans[r.i]
        h == _pipeline_hash(s, r.extractor)
    IN  /\ r.pc = "filter" /\ r.i <= Len(r.spans)
        /\ run' = [run EXCEPT ![w] =
              IF AlreadyExtracted(s, h) THEN [r EXCEPT !.plan[r.i] = Marked("done"), !.i = @ + 1]
              ELSE IF Refused(s) THEN NoRun
              ELSE [r EXCEPT !.plan[r.i] = Planned(s, h), !.i = @ + 1]]
        /\ UNCHANGED <<faith, log, facts, extracting, started>>

Filtered(w) ==
    /\ run[w].pc = "filter" /\ run[w].i > Len(run[w].spans)
    /\ run' = [run EXCEPT ![w].pc = "persist"]
    /\ UNCHANGED <<faith, log, facts, extracting, started>>

\* The spans still to be written: the inferred ones in order, then the replayed ones.
Waiting(r, kind) == {i \in DOMAIN r.plan : r.plan[i].kind = kind}
IsNext(r, i, kind) ==
    /\ r.pc = "persist" /\ i \in Waiting(r, kind)
    /\ \A j \in Waiting(r, kind) : i <= j
    /\ kind = "replay" => Waiting(r, "infer") = {}

\* _verify_all: the propositions the verifier, if there is one, answered for.
\* A call that fails leaves its proposition unassessed and the others alone.
_verify_all(verifier, ids, answered) == {p \in ids : verifier # Null /\ p.claim \in answered}

\* Phases 2, 2b and 3 for one inferred span: the claims the extractor found and
\* those the verifier answered for, written with their Actions.
Persist(w, claims, answered) ==
    LET r == run[w] IN
    \E i \in DOMAIN r.plan :
        LET s   == r.spans[i]
            ids == Minted(s, claims)
            ok  == _verify_all(r.verifier, ids, answered)
        IN  /\ IsNext(r, i, "infer")
            /\ PurgeAndWrite(IF r.plan[i].stale THEN On(s) ELSE {},
                             [p \in ids |-> IF p \in ok THEN r.verifier ELSE Null])
            /\ log' = Append(log, Extraction(s, _pipeline_hash(s, r.extractor), ids, Null))
                        \o VerifyEntry(s, ids, ok, r.verifier)
            /\ run' = [run EXCEPT ![w].plan[i] = Marked("done"), ![w].clean = @ /\ ok = ids]
            /\ UNCHANGED <<extracting, started>>

\* A replayed span copies the source's faithfulness if the verifiers match.
CopiedFaith(cached, v, c) == IF cached.sig = v THEN cached.claims[c] ELSE Null
Replay(w) ==
    LET r == run[w] IN
    \E i \in DOMAIN r.plan :
        LET s      == r.spans[i]
            cached == r.plan[i].cached
            ids    == Minted(s, DOMAIN cached.claims)
        IN  /\ IsNext(r, i, "replay")
            /\ PurgeAndWrite(IF r.plan[i].stale THEN On(s) ELSE {},
                             [p \in ids |-> CopiedFaith(cached, r.verifier, p.claim)])
            /\ log' = Append(log, Extraction(s, _pipeline_hash(s, r.extractor), ids, cached.sig))
            /\ run' = [run EXCEPT ![w].plan[i] = Marked("done")]
            /\ UNCHANGED <<extracting, started>>

\* Inference, replay or the write of one span fails: its transaction is rolled
\* back, the span is reported and records no Action.
Isolate(w) ==
    \E i \in DOMAIN run[w].plan, kind \in {"infer", "replay"} :
        /\ IsNext(run[w], i, kind)
        /\ run' = [run EXCEPT ![w].plan[i] = Marked("failed")]
        /\ UNCHANGED <<faith, log, facts, extracting, started>>

Persisted(w) ==
    /\ run[w].pc = "persist" /\ Waiting(run[w], "infer") \cup Waiting(run[w], "replay") = {}
    /\ run' = [run EXCEPT ![w].pc = IF run[w].verifier = Null THEN "report" ELSE "backfill", ![w].i = 1]
    /\ UNCHANGED <<faith, log, facts, extracting, started>>

\* Phase 4 for one span: read its identity and its propositions ...
BackfillLoad(w) ==
    LET r == run[w]
        s == r.spans[r.i]
    IN  /\ r.pc = "backfill" /\ r.i <= Len(r.spans)
        /\ run' = [run EXCEPT ![w] =
              IF _span_verify_identity(s) = r.verifier \/ On(s) = {} THEN [r EXCEPT !.i = @ + 1]
              ELSE [r EXCEPT !.pc = "verify", !.loaded = On(s)]]
        /\ UNCHANGED <<faith, log, facts, extracting, started>>

\* ... ask the verifier, and rewrite what is still there.
BackfillWrite(w, answered) ==
    LET r  == run[w]
        ok == {p \in r.loaded : p.claim \in answered}
    IN  /\ r.pc = "verify"
        /\ faith' = [p \in Live |-> IF p \notin r.loaded THEN faith[p]
                                    ELSE IF p \in ok THEN r.verifier ELSE Null]
        /\ log' = log \o VerifyEntry(r.spans[r.i], r.loaded, ok, r.verifier)
        /\ run' = [run EXCEPT ![w] = [r EXCEPT !.pc = "backfill", !.i = @ + 1, !.loaded = {},
                                               !.clean = @ /\ ok = r.loaded]]
        /\ UNCHANGED <<facts, extracting, started>>

BackfillFails(w) ==
    /\ run[w].pc = "verify"
    /\ run' = [run EXCEPT ![w].pc = "backfill", ![w].i = @ + 1, ![w].loaded = {}, ![w].clean = FALSE]
    /\ UNCHANGED <<faith, log, facts, extracting, started>>

Backfilled(w) ==
    /\ run[w].pc = "backfill" /\ run[w].i > Len(run[w].spans)
    /\ run' = [run EXCEPT ![w].pc = "report"]
    /\ UNCHANGED <<faith, log, facts, extracting, started>>

Report(w) ==
    /\ run[w].pc = "report"
    /\ run' = [run EXCEPT ![w] = NoRun]
    /\ UNCHANGED <<faith, log, facts, extracting, started>>

\* The process dies between two transactions.
Crash(w) ==
    /\ run[w].pc \notin {"idle", "report"}
    /\ run' = [run EXCEPT ![w] = NoRun]
    /\ UNCHANGED <<faith, log, facts, extracting, started>>

-----------------------------------------------------------------------------
(* core/extract.py: a proposition becomes a Fact, after an LLM call.       *)

ExtractStart(p) ==
    /\ extracting = Null /\ p \in Live \ DOMAIN facts
    /\ extracting' = p
    /\ UNCHANGED <<faith, log, facts, run, started>>

\* merge_edge matches both ends: without the proposition it writes no edge.
ExtractPersist ==
    /\ extracting # Null
    /\ facts' = [p \in DOMAIN facts \cup {extracting} |-> IF p = extracting THEN p \in Live ELSE facts[p]]
    /\ extracting' = Null
    /\ UNCHANGED <<faith, log, run, started>>

\* One step of the calls of worker w.
WorkerStep(w) ==
    \/ \E d \in deployed.documents, x \in Extractor, v \in deployed.verifiers \cup {Null} :
          Start(w, d, x, v)
    \/ Filter(w) \/ Filtered(w)
    \/ \E claims, answered \in SUBSET deployed.claims :
          answered \subseteq claims /\ Persist(w, claims, answered)
    \/ Replay(w) \/ Isolate(w) \/ Persisted(w)
    \/ BackfillLoad(w) \/ BackfillFails(w) \/ Backfilled(w)
    \/ \E answered \in SUBSET deployed.claims : BackfillWrite(w, answered)
    \/ Report(w) \/ Crash(w)

Next ==
    /\ \/ \E w \in Worker : WorkerStep(w)
       \/ \E p \in Live : ExtractStart(p)
       \/ ExtractPersist
    /\ UNCHANGED deployed

Spec == Init /\ [][Next]_vars

-----------------------------------------------------------------------------
(* Properties *)

Sig == Verifier \cup {Null}
TypeOK ==
    /\ \A p \in Live : p.span \in Span /\ p.claim \in Claim /\ faith[p] \in Sig
    /\ \A i \in DOMAIN log : log[i].actor \in {"propositionizer", "verifier"} /\ log[i].sig \in Sig
    /\ \A p \in DOMAIN facts : facts[p] \in BOOLEAN
    /\ started \in 0..MaxRuns

\* The propositions of a span are exactly those its newest extract Action wrote:
\* no superseded generation survives, none is lost (the purge and the write are
\* one transaction, an isolated span writes nothing).
OneGeneration ==
    \A s \in Span :
        On(s) = IF Extractions(s) = {} THEN {} ELSE Newest(Extractions(s)).props

\* A re-fired run re-extracts only what is missing: a span is never extracted
\* twice in a row under one content hash.
NeverReextracted ==
    \A s \in Span : \A i, j \in Extractions(s) :
        i < j /\ (\A k \in Extractions(s) : k <= i \/ j <= k) => log[i].hash # log[j].hash

\* Extract once: under one content hash every extraction holds the same claims,
\* because all but the first are replays of it (an empty extraction included).
ExtractOnce ==
    \A i, j \in DOMAIN log :
        (log[i].actor = "propositionizer" /\ log[j].actor = "propositionizer" /\ log[i].hash = log[j].hash)
            => {p.claim : p \in log[i].props} = {p.claim : p \in log[j].props}

\* A span counts as verified under an identity only if every proposition it has
\* now carries that verifier's assessment (_span_verify_identity, what the
\* backfill takes as its reason to leave the span alone).
IdentityMeansAssessed ==
    \A s \in Span :
        LET v == _span_verify_identity(s)
        IN  v # Null => \A p \in On(s) : faith[p] = v

\* A run that reports a document has extracted each span it does not report as
\* failed under its own pipeline, and, if its verifier always answered, leaves no
\* proposition of the document unassessed by that verifier.
ReportIsTrue ==
    \A w \in Worker : run[w].pc = "report" =>
        LET r == run[w] IN
        \A i \in DOMAIN r.spans :
            /\ r.plan[i].kind = "done" => _extracted_hash(r.spans[i]) = _pipeline_hash(r.spans[i], r.extractor)
            /\ r.verifier # Null /\ r.clean => \A p \in On(r.spans[i]) : faith[p] = r.verifier

\* No Fact loses the proposition it was extracted from: the cascade refuses to
\* purge what feeds a downstream node, and a Fact is written with its edge.
FactsStayGrounded == \A p \in DOMAIN facts : facts[p]

\* What holds of one kind of deployment only.  Without reuse the verify identity
\* of a span never overstates (a replay copies an identity, not always the scores).
IdentityMeansAssessedWithoutReuse == ~deployed.reuse_extractions => IdentityMeansAssessed

\* Without reuse, what a run reports is what it did.
ReportIsTrueWithoutReuse == ~deployed.reuse_extractions => ReportIsTrue

\* With reuse, and no cascade to purge what would be reused, extract once.
ExtractOnceWithReuse == deployed.reuse_extractions => ExtractOnce

\* Facts stay grounded where a purge that would unground one is refused.
FactsStayGroundedWithoutCascade == ~deployed.cascade_reextract => FactsStayGrounded

=============================================================================
