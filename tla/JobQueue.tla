------------------------------ MODULE JobQueue ------------------------------
(***************************************************************************)
(* The background jobs (jobs/app.py) and what enqueues them (api/main.py): *)
(* an ingest job commits a document's spans and then chains the job that   *)
(* extracts its propositions.  The queue itself is procrastinate, known    *)
(* here by how the code uses it: a queueing_lock is unique among the jobs  *)
(* still todo, an execution lock among those doing, a retryable error      *)
(* sends a job back to todo and any other error fails it.                  *)
(***************************************************************************)
EXTENDS Naturals, Sequences

CONSTANTS
    Document,
    NoBox,        \* box = None
    BoxesOf,      \* the boxes each document is submitted under
    MAX_ATTEMPTS,
    MaxSubmitted, \* bound: jobs enqueued from outside (each ingest may chain one more)
    MaxCrashes    \* bound: workers that die

ASSUME BoundsAreNaturals == {MAX_ATTEMPTS, MaxSubmitted} \subseteq Nat \ {0} /\ MaxCrashes \in Nat

VARIABLES
    jobs,       \* every job ever deferred
    content,    \* documents whose ingest has committed
    extraction, \* how the extraction of a document's spans ended
    submitted, crashes

vars == <<jobs, content, extraction, submitted, crashes>>

Doing == {i \in DOMAIN jobs : jobs[i].status = "doing"}
Running(i, task, step) == i \in Doing /\ jobs[i].task = task /\ jobs[i].step = step

-----------------------------------------------------------------------------
(* The queue. *)

LockOfIngestOnly(j) == IF j.task = "ingest" THEN j.box ELSE NoBox
lock(j) == j.box
AlreadyEnqueued(task, d) ==
    \E i \in DOMAIN jobs : jobs[i].status = "todo" /\ jobs[i].task = task /\ jobs[i].doc = d
Deferred(task, d, b) ==
    Append(jobs, [task |-> task, doc |-> d, box |-> b, status |-> "todo", attempts |-> 0, step |-> "run"])

\* A todo job is fetched unless a running job holds its lock.
Fetch(i) ==
    /\ jobs[i].status = "todo"
    /\ lock(jobs[i]) = NoBox \/ \A k \in Doing : lock(jobs[k]) # lock(jobs[i])
    /\ jobs' = [jobs EXCEPT ![i].status = "doing", ![i].step = "run"]
    /\ UNCHANGED <<content, extraction, submitted, crashes>>

\* RetryStrategy: MAX_ATTEMPTS runs in total.
RetriedForever(j) == [j EXCEPT !.status = "todo"]
Retried(j) == [j EXCEPT !.attempts = @ + 1, !.status = IF j.attempts + 1 < MAX_ATTEMPTS THEN "todo" ELSE "failed"]
Ended(j, status) == [j EXCEPT !.attempts = @ + 1, !.status = status]

\* What a failed job leaves to say about its document's extraction.
GivesUp(before, after) ==
    extraction' = IF after.status = "failed" /\ before.task = "propositionize" /\ extraction[before.doc] = "none"
                  THEN [extraction EXCEPT ![before.doc] = "failed"] ELSE extraction

-----------------------------------------------------------------------------

Init ==
    /\ jobs = <<>>
    /\ content = {}
    /\ extraction = [d \in Document |-> "none"]
    /\ submitted = 0 /\ crashes = 0

\* POST /documents, which mints a fresh document, and the gate runner, which
\* always names a box; an operator may also queue an extraction.
Enqueue(task, d, b) ==
    /\ submitted < MaxSubmitted /\ ~AlreadyEnqueued(task, d)
    /\ task = "ingest" /\ b = NoBox => \A i \in DOMAIN jobs : jobs[i].doc # d
    /\ submitted' = submitted + 1
    /\ jobs' = Deferred(task, d, b)
    /\ UNCHANGED <<content, extraction, crashes>>

\* _ingest_one: one transaction.
IngestCommits(i) ==
    /\ Running(i, "ingest", "run")
    /\ content' = content \cup {jobs[i].doc}
    /\ jobs' = [jobs EXCEPT ![i].step = "chain"]
    /\ UNCHANGED <<extraction, submitted, crashes>>

\* The follow-on is deferred, unless one is still waiting to run.
SkipChain(d) == AlreadyEnqueued("propositionize", d)
Chain(i) ==
    /\ Running(i, "ingest", "chain")
    /\ LET j == jobs[i]
           next == IF SkipChain(j.doc) THEN jobs ELSE Deferred("propositionize", j.doc, j.box)
       IN  jobs' = [next EXCEPT ![i].step = "end"]
    /\ UNCHANGED <<content, extraction, submitted, crashes>>

\* The defer itself fails: not a retryable error.
ChainFailsQuietly(i) ==
    /\ Running(i, "ingest", "chain")
    /\ jobs' = [jobs EXCEPT ![i].step = "end"]
    /\ UNCHANGED <<content, extraction, submitted, crashes>>
ChainFails(i) ==
    /\ Running(i, "ingest", "chain")
    /\ jobs' = [jobs EXCEPT ![i] = Ended(@, "failed")]
    /\ UNCHANGED <<content, extraction, submitted, crashes>>

IngestEnds(i) ==
    /\ Running(i, "ingest", "end")
    /\ jobs' = [jobs EXCEPT ![i] = Ended(@, "succeeded")]
    /\ UNCHANGED <<content, extraction, submitted, crashes>>

\* _propositionize_one: without spans there is nothing to do.
LoadSpans(i) ==
    /\ Running(i, "propositionize", "run")
    /\ jobs' = [jobs EXCEPT ![i].step = IF jobs[i].doc \in content THEN "extract" ELSE "nothing"]
    /\ UNCHANGED <<content, extraction, submitted, crashes>>

PropositionizeEnds(i) ==
    /\ Running(i, "propositionize", "extract") \/ Running(i, "propositionize", "nothing")
    /\ extraction' = IF jobs[i].step = "extract" THEN [extraction EXCEPT ![jobs[i].doc] = "done"] ELSE extraction
    /\ jobs' = [jobs EXCEPT ![i] = Ended(@, "succeeded")]
    /\ UNCHANGED <<content, submitted, crashes>>

\* Before its last step a job may raise: a transport error or, for an
\* extraction, failed spans; or an error no retry can fix.
MayRaise(i) == Running(i, "ingest", "run") \/ Running(i, "propositionize", "run") \/ Running(i, "propositionize", "extract")

RaiseRetryable(i) ==
    /\ MayRaise(i)
    /\ jobs' = [jobs EXCEPT ![i] = Retried(@)]
    /\ GivesUp(jobs[i], Retried(jobs[i]))
    /\ UNCHANGED <<content, submitted, crashes>>

RaiseTerminal(i) ==
    /\ MayRaise(i)
    /\ jobs' = [jobs EXCEPT ![i] = Ended(@, "failed")]
    /\ GivesUp(jobs[i], Ended(jobs[i], "failed"))
    /\ UNCHANGED <<content, submitted, crashes>>

\* A worker dies: nothing takes its job out of doing, and its lock stays held.
Crash(i) ==
    /\ i \in Doing /\ jobs[i].step # "dead" /\ crashes < MaxCrashes
    /\ crashes' = crashes + 1
    /\ jobs' = [jobs EXCEPT ![i].step = "dead"]
    /\ UNCHANGED <<content, extraction, submitted>>

Work == \E i \in DOMAIN jobs :
            \/ Fetch(i) \/ IngestCommits(i) \/ Chain(i) \/ IngestEnds(i)
            \/ LoadSpans(i) \/ PropositionizeEnds(i)
            \/ ChainFails(i) \/ RaiseRetryable(i) \/ RaiseTerminal(i)

Next ==
    \/ \E task \in {"ingest", "propositionize"}, d \in Document : \E b \in BoxesOf[d] : Enqueue(task, d, b)
    \/ Work
    \/ \E i \in DOMAIN jobs : Crash(i)

\* Workers keep polling: as long as some job can move, one does.
Spec == Init /\ [][Next]_vars /\ WF_vars(Work)

-----------------------------------------------------------------------------
(* Properties *)

Boxes == UNION {BoxesOf[d] : d \in Document}
TypeOK ==
    /\ jobs \in Seq([task : {"ingest", "propositionize"}, doc : Document, box : Boxes,
                     status : {"todo", "doing", "succeeded", "failed"}, attempts : 0..MAX_ATTEMPTS,
                     step : {"run", "chain", "end", "extract", "nothing", "dead"}])
    /\ content \subseteq Document
    /\ extraction \in [Document -> {"none", "done", "failed"}]

\* No two jobs for one document run concurrently, whatever is enqueued, chained,
\* retried or left behind by a dead worker (the module's concurrency contract).
NoConcurrentJobs == \A i, k \in Doing : jobs[i].doc = jobs[k].doc => i = k

\* A document whose ingest job succeeded gets its spans extracted, or an
\* extraction job that says so fails: a chain dropped because a follow-on was
\* already waiting is not a lost extraction.  A dead worker may hold the lock.
IngestedIsExtracted ==
    \A d \in Document :
        (\E i \in DOMAIN jobs : jobs[i].doc = d /\ jobs[i].task = "ingest" /\ jobs[i].status = "succeeded")
            ~> (extraction[d] # "none" \/ crashes > 0)

\* Every job ends: retries run out, and unless a worker died no job waits for
\* a lock for ever.
EveryJobEnds ==
    \A n \in 1..2 * MaxSubmitted :
        (n \in DOMAIN jobs) ~> \/ n \in DOMAIN jobs /\ jobs[n].status \in {"succeeded", "failed"}
                              \/ crashes > 0
=============================================================================
