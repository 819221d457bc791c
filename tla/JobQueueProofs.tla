--------------------------- MODULE JobQueueProofs ---------------------------
(***************************************************************************)
(* The retry budget and the concurrency contract of the background jobs,   *)
(* and what their liveness rests on: no extraction is lost, some job can   *)
(* always move, and the moves run out.  For every number of documents,     *)
(* jobs and attempts.                                                      *)
(***************************************************************************)
EXTENDS JobQueue, FiniteSets, SequenceTheorems, FiniteSetTheorems, TLAPS

Job == [task : {"ingest", "propositionize"}, doc : Document, box : Boxes,
        status : {"todo", "doing", "succeeded", "failed"}, attempts : 0..MAX_ATTEMPTS,
        step : {"run", "chain", "end", "extract", "nothing", "dead"}]

\* A job that can still run has an attempt left, and was submitted under a
\* box of its document.
JobOK(j) ==
    /\ j \in Job
    /\ j.box \in BoxesOf[j.doc]
    /\ j.status \in {"todo", "doing"} => j.attempts < MAX_ATTEMPTS
JobsOK(js) == js \in Seq(Job) /\ \A i \in DOMAIN js : JobOK(js[i])

\* No lock is held twice.
Exclusive(js) ==
    \A i, k \in DOMAIN js :
        (js[i].status = "doing" /\ js[k].status = "doing"
           /\ js[i].box = js[k].box /\ js[i].box # NoBox) => i = k

RestOK == content \subseteq Document /\ extraction \in [Document -> {"none", "done", "failed"}]

Inv == JobsOK(jobs) /\ Exclusive(jobs) /\ RestOK

\* Each document belongs to one named box.
OneNamedBox == \A d \in Document : \E b : b # NoBox /\ BoxesOf[d] = {b}

-----------------------------------------------------------------------------

\* Changing one job keeps the queue in order, unless it starts it.
LEMMA UpdateJob ==
    ASSUME NEW js, JobsOK(js), Exclusive(js), NEW i \in DOMAIN js,
           NEW j, JobOK(j), j.box = js[i].box,
           j.status = "doing" => js[i].status = "doing"
    PROVE  JobsOK([js EXCEPT ![i] = j]) /\ Exclusive([js EXCEPT ![i] = j])
<1> DEFINE new == [js EXCEPT ![i] = j]
<1>1. js \in Seq(Job) /\ DOMAIN js = 1 .. Len(js) /\ j \in Job
    BY LenProperties DEF JobsOK, JobOK
<1>2. new \in Seq(Job)
    BY <1>1, ExceptSeq
<1>3. /\ DOMAIN new = DOMAIN js
      /\ \A k \in DOMAIN js : new[k] = IF k = i THEN j ELSE js[k]
    OBVIOUS
<1>4. JobsOK(new)
    BY <1>2, <1>3 DEF JobsOK
<1>5. Exclusive(new)
    BY <1>3 DEF Exclusive
<1>6. QED
    BY <1>4, <1>5

\* So does deferring a job.
LEMMA DeferJob ==
    ASSUME NEW task \in {"ingest", "propositionize"}, NEW d \in Document, NEW b \in BoxesOf[d],
           JobsOK(jobs), Exclusive(jobs)
    PROVE  /\ JobsOK(Deferred(task, d, b)) /\ Exclusive(Deferred(task, d, b))
           /\ \A k \in DOMAIN jobs : k \in DOMAIN Deferred(task, d, b) /\ Deferred(task, d, b)[k] = jobs[k]
<1> DEFINE j == [task |-> task, doc |-> d, box |-> b, status |-> "todo", attempts |-> 0, step |-> "run"]
           new == Append(jobs, j)
           n == Len(jobs)
<1>1. JobOK(j) /\ j \in Job
  <2>1. b \in Boxes
      BY DEF Boxes
  <2>2. 0 \in 0..MAX_ATTEMPTS /\ 0 < MAX_ATTEMPTS
      BY BoundsAreNaturals
  <2>3. QED
      BY <2>1, <2>2 DEF JobOK, Job
<1>2. jobs \in Seq(Job) /\ DOMAIN jobs = 1 .. n /\ n \in Nat
    BY LenProperties DEF JobsOK
<1>3. /\ new \in Seq(Job) /\ Len(new) = n + 1
      /\ \A k \in 1 .. n : new[k] = jobs[k]
      /\ new[n + 1] = j
    BY <1>1, <1>2, AppendProperties
<1>4. DOMAIN new = 1 .. n + 1
    BY <1>3, LenProperties
<1>5. \A k \in 1 .. n + 1 : k \in 1 .. n \/ k = n + 1
    BY <1>2
<1>6. JobsOK(new)
    BY <1>1, <1>2, <1>3, <1>4, <1>5 DEF JobsOK
<1>7. Exclusive(new)
  <2>1. j.status = "todo"
      OBVIOUS
  <2>2. QED
      BY <2>1, <1>2, <1>3, <1>4, <1>5 DEF Exclusive
<1>8. \A k \in DOMAIN jobs : k \in DOMAIN new /\ new[k] = jobs[k]
    BY <1>2, <1>3, <1>4
<1>9. QED
    BY <1>6, <1>7, <1>8 DEF Deferred

\* Ending a job, or sending it back for another attempt, uses up one attempt.
LEMMA EndJob ==
    ASSUME NEW j, JobOK(j), j.status = "doing"
    PROVE  /\ \A s \in {"succeeded", "failed"} : JobOK(Ended(j, s)) /\ Ended(j, s).box = j.box
                                                   /\ Ended(j, s).status = s
           /\ JobOK(Retried(j)) /\ Retried(j).box = j.box /\ Retried(j).status # "doing"
<1>1. /\ j \in Job /\ j.attempts \in 0..MAX_ATTEMPTS /\ j.attempts < MAX_ATTEMPTS
      /\ j.box \in BoxesOf[j.doc]
    BY DEF JobOK, Job
<1>2. j.attempts + 1 \in 0..MAX_ATTEMPTS /\ MAX_ATTEMPTS \in Nat
    BY <1>1, BoundsAreNaturals
<1>3. ASSUME NEW s \in {"succeeded", "failed"}
      PROVE  JobOK(Ended(j, s)) /\ Ended(j, s).box = j.box /\ Ended(j, s).status = s
    BY <1>1, <1>2 DEF JobOK, Job, Ended
<1>4. JobOK(Retried(j)) /\ Retried(j).box = j.box /\ Retried(j).status # "doing"
    BY <1>1, <1>2 DEF JobOK, Job, Retried
<1>5. QED
    BY <1>3, <1>4

\* A job that moves on to its next step stays the job it was.
LEMMA StepJob ==
    ASSUME NEW j, JobOK(j),
           NEW s \in {"run", "chain", "end", "extract", "nothing", "dead"}
    PROVE  /\ JobOK([j EXCEPT !.step = s])
           /\ [j EXCEPT !.step = s].box = j.box
           /\ [j EXCEPT !.step = s].status = j.status
BY DEF JobOK, Job

-----------------------------------------------------------------------------

\* The empty queue is in order.
LEMMA InitInv == Init => Inv
<1> SUFFICES ASSUME Init PROVE Inv
    OBVIOUS
<1>1. jobs \in Seq(Job) /\ DOMAIN jobs = {}
    BY EmptySeq DEF Init
<1>2. RestOK
    BY DEF Init, RestOK
<1>3. QED
    BY <1>1, <1>2 DEF Inv, JobsOK, Exclusive

\* A submission adds a job under a box of its document.
LEMMA EnqueueInv ==
    ASSUME Inv, NEW task \in {"ingest", "propositionize"}, NEW d \in Document, NEW b \in BoxesOf[d],
           Enqueue(task, d, b)
    PROVE  Inv'
<1>1. jobs' = Deferred(task, d, b) /\ UNCHANGED <<content, extraction>>
    BY DEF Enqueue
<1>2. JobsOK(jobs') /\ Exclusive(jobs')
    BY <1>1, DeferJob DEF Inv
<1>3. RestOK'
    BY <1>1 DEF Inv, RestOK
<1>4. QED
    BY <1>2, <1>3 DEF Inv

\* A fetched job takes a lock nobody holds.
LEMMA FetchInv ==
    ASSUME Inv, NEW i \in DOMAIN jobs, Fetch(i)
    PROVE  Inv'
<1> DEFINE j == [jobs[i] EXCEPT !.status = "doing", !.step = "run"]
<1>1. jobs[i].status = "todo" /\ JobOK(jobs[i])
    BY DEF Fetch, Inv, JobsOK
<1>2. j \in Job /\ JobOK(j) /\ j.box = jobs[i].box /\ j.doc = jobs[i].doc
    BY <1>1 DEF JobOK, Job
<1>3. jobs' = [jobs EXCEPT ![i] = j]
    BY DEF Fetch
<1>4. jobs \in Seq(Job) /\ DOMAIN jobs = 1 .. Len(jobs)
    BY LenProperties DEF Inv, JobsOK
<1>5. /\ jobs' \in Seq(Job) /\ DOMAIN jobs' = DOMAIN jobs
      /\ \A k \in DOMAIN jobs : jobs'[k] = IF k = i THEN j ELSE jobs[k]
    BY <1>2, <1>3, <1>4, ExceptSeq
<1>6. JobsOK(jobs')
    BY <1>2, <1>5 DEF Inv, JobsOK
<1>7. jobs[i].box = NoBox \/ \A k \in DOMAIN jobs : jobs[k].status = "doing" => jobs[k].box # jobs[i].box
    BY DEF Fetch, lock, Doing
<1>8. Exclusive(jobs')
  <2> HIDE DEF j
  <2>1. SUFFICES ASSUME NEW m \in DOMAIN jobs, NEW k \in DOMAIN jobs,
                        jobs'[m].status = "doing", jobs'[k].status = "doing",
                        jobs'[m].box = jobs'[k].box, jobs'[m].box # NoBox
                 PROVE  m = k
      BY <1>5 DEF Exclusive
  <2>2. CASE m # i /\ k # i
      BY <2>1, <2>2, <1>5 DEF Inv, Exclusive
  <2>3. CASE m = i /\ k # i
      BY <2>1, <2>3, <1>2, <1>5, <1>7
  <2>4. CASE m # i /\ k = i
      BY <2>1, <2>4, <1>2, <1>5, <1>7
  <2>5. QED
      BY <2>2, <2>3, <2>4
<1>9. RestOK'
    BY DEF Inv, RestOK, Fetch
<1>10. QED
    BY <1>6, <1>8, <1>9 DEF Inv

\* The steps of a running ingest job.
LEMMA IngestInv ==
    ASSUME Inv, NEW i \in DOMAIN jobs,
           IngestCommits(i) \/ Chain(i) \/ ChainFails(i) \/ IngestEnds(i)
    PROVE  Inv'
<1>1. JobOK(jobs[i]) /\ jobs[i].doc \in Document /\ jobs[i].box \in BoxesOf[jobs[i].doc]
    BY DEF Inv, JobsOK, JobOK, Job
<1>2. CASE IngestCommits(i)
  <2>1. jobs' = [jobs EXCEPT ![i] = [jobs[i] EXCEPT !.step = "chain"]]
      BY <1>2 DEF IngestCommits
  <2>2. JobsOK(jobs') /\ Exclusive(jobs')
      BY <2>1, <1>1, StepJob, UpdateJob DEF Inv
  <2>3. RestOK'
      BY <1>1, <1>2 DEF IngestCommits, Inv, RestOK
  <2>4. QED
      BY <2>2, <2>3 DEF Inv
<1>3. CASE Chain(i)
  <2> DEFINE next == IF SkipChain(jobs[i].doc) THEN jobs
                     ELSE Deferred("propositionize", jobs[i].doc, jobs[i].box)
  <2>1. JobsOK(next) /\ Exclusive(next) /\ i \in DOMAIN next /\ next[i] = jobs[i]
      BY <1>1, DeferJob DEF Inv
  <2>2. jobs' = [next EXCEPT ![i] = [next[i] EXCEPT !.step = "end"]]
      BY <1>3 DEF Chain
  <2> HIDE DEF next
  <2>3. JobsOK(jobs') /\ Exclusive(jobs')
      BY <2>1, <2>2, <1>1, StepJob, UpdateJob
  <2>4. RestOK'
      BY <1>3 DEF Chain, Inv, RestOK
  <2>5. QED
      BY <2>3, <2>4 DEF Inv
<1>4. CASE ChainFails(i)
  <2>1. jobs' = [jobs EXCEPT ![i] = Ended(jobs[i], "failed")] /\ jobs[i].status = "doing"
      BY <1>4 DEF ChainFails, Running, Doing
  <2>2. JobsOK(jobs') /\ Exclusive(jobs')
      BY <2>1, <1>1, EndJob, UpdateJob DEF Inv
  <2>3. RestOK'
      BY <1>4 DEF ChainFails, Inv, RestOK
  <2>4. QED
      BY <2>2, <2>3 DEF Inv
<1>5. CASE IngestEnds(i)
  <2>1. jobs' = [jobs EXCEPT ![i] = Ended(jobs[i], "succeeded")] /\ jobs[i].status = "doing"
      BY <1>5 DEF IngestEnds, Running, Doing
  <2>2. JobsOK(jobs') /\ Exclusive(jobs')
      BY <2>1, <1>1, EndJob, UpdateJob DEF Inv
  <2>3. RestOK'
      BY <1>5 DEF IngestEnds, Inv, RestOK
  <2>4. QED
      BY <2>2, <2>3 DEF Inv
<1>6. QED
    BY <1>2, <1>3, <1>4, <1>5

\* The steps of a running extraction job.
LEMMA PropositionizeInv ==
    ASSUME Inv, NEW i \in DOMAIN jobs, LoadSpans(i) \/ PropositionizeEnds(i)
    PROVE  Inv'
<1>1. JobOK(jobs[i]) /\ jobs[i].doc \in Document
    BY DEF Inv, JobsOK, JobOK, Job
<1>2. CASE LoadSpans(i)
  <2> DEFINE s == IF jobs[i].doc \in content THEN "extract" ELSE "nothing"
  <2>1. jobs' = [jobs EXCEPT ![i] = [jobs[i] EXCEPT !.step = s]]
      BY <1>2 DEF LoadSpans
  <2>2. s \in {"run", "chain", "end", "extract", "nothing", "dead"}
      OBVIOUS
  <2> HIDE DEF s
  <2>3. JobsOK(jobs') /\ Exclusive(jobs')
      BY <2>1, <2>2, <1>1, StepJob, UpdateJob DEF Inv
  <2>4. RestOK'
      BY <1>2 DEF LoadSpans, Inv, RestOK
  <2>5. QED
      BY <2>3, <2>4 DEF Inv
<1>3. CASE PropositionizeEnds(i)
  <2>1. jobs' = [jobs EXCEPT ![i] = Ended(jobs[i], "succeeded")] /\ jobs[i].status = "doing"
      BY <1>3 DEF PropositionizeEnds, Running, Doing
  <2>2. JobsOK(jobs') /\ Exclusive(jobs')
      BY <2>1, <1>1, EndJob, UpdateJob DEF Inv
  <2>3. RestOK'
      BY <1>1, <1>3 DEF PropositionizeEnds, Inv, RestOK
  <2>4. QED
      BY <2>2, <2>3 DEF Inv
<1>4. QED
    BY <1>2, <1>3

\* A job that raises is retried or fails; a dead worker changes no status.
LEMMA RaiseInv ==
    ASSUME Inv, NEW i \in DOMAIN jobs, RaiseRetryable(i) \/ RaiseTerminal(i) \/ Crash(i)
    PROVE  Inv'
<1>1. JobOK(jobs[i]) /\ jobs[i].doc \in Document
    BY DEF Inv, JobsOK, JobOK, Job
<1>2. ASSUME NEW after, GivesUp(jobs[i], after), UNCHANGED content
      PROVE  RestOK'
    BY <1>1, <1>2 DEF GivesUp, Inv, RestOK
<1>3. CASE RaiseRetryable(i)
  <2>1. jobs' = [jobs EXCEPT ![i] = Retried(jobs[i])] /\ jobs[i].status = "doing"
      BY <1>3 DEF RaiseRetryable, MayRaise, Running, Doing
  <2>2. JobsOK(jobs') /\ Exclusive(jobs')
      BY <2>1, <1>1, EndJob, UpdateJob DEF Inv
  <2>3. QED
      BY <2>2, <1>2, <1>3 DEF RaiseRetryable, Inv
<1>4. CASE RaiseTerminal(i)
  <2>1. jobs' = [jobs EXCEPT ![i] = Ended(jobs[i], "failed")] /\ jobs[i].status = "doing"
      BY <1>4 DEF RaiseTerminal, MayRaise, Running, Doing
  <2>2. JobsOK(jobs') /\ Exclusive(jobs')
      BY <2>1, <1>1, EndJob, UpdateJob DEF Inv
  <2>3. QED
      BY <2>2, <1>2, <1>4 DEF RaiseTerminal, Inv
<1>5. CASE Crash(i)
  <2>1. jobs' = [jobs EXCEPT ![i] = [jobs[i] EXCEPT !.step = "dead"]]
      BY <1>5 DEF Crash
  <2>2. JobsOK(jobs') /\ Exclusive(jobs')
      BY <2>1, <1>1, StepJob, UpdateJob DEF Inv
  <2>3. RestOK'
      BY <1>5 DEF Crash, Inv, RestOK
  <2>4. QED
      BY <2>2, <2>3 DEF Inv
<1>6. QED
    BY <1>3, <1>4, <1>5

\* Every step of the system preserves the invariant.
LEMMA NextInv == Inv /\ [Next]_vars => Inv'
<1> SUFFICES ASSUME Inv, [Next]_vars PROVE Inv'
    OBVIOUS
<1>1. ASSUME NEW task \in {"ingest", "propositionize"}, NEW d \in Document,
             NEW b \in BoxesOf[d], Enqueue(task, d, b)
      PROVE  Inv'
    BY <1>1, EnqueueInv
<1>2. ASSUME Work PROVE Inv'
    BY <1>2, FetchInv, IngestInv, PropositionizeInv, RaiseInv DEF Work
<1>3. ASSUME NEW i \in DOMAIN jobs, Crash(i) PROVE Inv'
    BY <1>3, RaiseInv
<1>4. CASE UNCHANGED vars
    BY <1>4 DEF vars, Inv, RestOK
<1>5. QED
    BY <1>1, <1>2, <1>3, <1>4 DEF Next

\* The queue is in order throughout.
LEMMA Invariance == Spec => []Inv
<1>1. QED
    BY InitInv, NextInv, PTL DEF Spec

\* No job ever runs more often than MAX_ATTEMPTS, whatever is submitted,
\* chained, retried or left behind by a dead worker.
THEOREM TypeCorrect == Spec => []TypeOK
<1>1. Inv => TypeOK
    BY DEF Inv, JobsOK, RestOK, TypeOK, Job
<1>2. QED
    BY <1>1, Invariance, PTL

\* The concurrency contract of jobs/app.py holds as long as each document is
\* only ever submitted under one named box: no two of its jobs run at once.
THEOREM ConcurrencyContract ==
    ASSUME OneNamedBox
    PROVE  Spec => []NoConcurrentJobs
<1>1. ASSUME Inv PROVE NoConcurrentJobs
  <2>1. SUFFICES ASSUME NEW i \in Doing, NEW k \in Doing, jobs[i].doc = jobs[k].doc
                 PROVE  i = k
      BY DEF NoConcurrentJobs
  <2>2. /\ i \in DOMAIN jobs /\ jobs[i].status = "doing" /\ JobOK(jobs[i])
        /\ k \in DOMAIN jobs /\ jobs[k].status = "doing" /\ JobOK(jobs[k])
      BY <1>1 DEF Doing, Inv, JobsOK
  <2>3. jobs[i].doc \in Document
      BY <2>2 DEF JobOK, Job
  <2>4. PICK b : b # NoBox /\ BoxesOf[jobs[i].doc] = {b}
      BY <2>3 DEF OneNamedBox
  <2>5. jobs[i].box = b /\ jobs[k].box = b
      BY <2>1, <2>2, <2>4 DEF JobOK
  <2>6. QED
      BY <1>1, <2>2, <2>4, <2>5 DEF Inv, Exclusive
<1>2. QED
    BY <1>1, Invariance, PTL

-----------------------------------------------------------------------------
(* What liveness rests on: no extraction is lost, somebody can always move, *)
(* and the moves run out.                                                   *)

\* The job is still going to extract d, if d has spans.
Pursues(j, d) ==
    /\ j.task = "propositionize" /\ j.doc = d
    /\ j.status = "todo" \/ (j.status = "doing" /\ j.step \in {"run", "extract"})
Pursued(d) ==
    extraction[d] # "none" \/ crashes > 0 \/ \E k \in DOMAIN jobs : Pursues(jobs[k], d)

\* A document whose ingest succeeded has been extracted, has an extraction
\* that failed for good, or has a job that is still going to extract it.
IngestedIsPursued ==
    \A i \in DOMAIN jobs :
        jobs[i].task = "ingest" /\ jobs[i].status = "succeeded" => Pursued(jobs[i].doc)

Chained(j) == j.status = "succeeded" \/ (j.status = "doing" /\ j.step = "end")
Committed(j) == Chained(j) \/ (j.status = "doing" /\ j.step = "chain")

PursuitInv ==
    \A i \in DOMAIN jobs :
        jobs[i].task = "ingest" =>
            /\ Committed(jobs[i]) => jobs[i].doc \in content
            /\ Chained(jobs[i]) => Pursued(jobs[i].doc)

\* The steps of each task; only a crash leaves a job dead.
StepsOf(task) ==
    IF task = "ingest" THEN {"run", "chain", "end", "dead"} ELSE {"run", "extract", "nothing", "dead"}
StepsInv ==
    /\ {crashes, submitted} \subseteq Nat
    /\ \A i \in Doing : /\ jobs[i].step \in StepsOf(jobs[i].task)
                        /\ jobs[i].step = "dead" => crashes > 0

\* The guards of the steps of Work.
Movable(i) ==
    \/ jobs[i].status = "todo" /\ (lock(jobs[i]) = NoBox \/ \A k \in Doing : lock(jobs[k]) # lock(jobs[i]))
    \/ MayRaise(i)
    \/ Running(i, "ingest", "chain") \/ Running(i, "ingest", "end") \/ Running(i, "propositionize", "nothing")
Finished(j) == j.status \in {"succeeded", "failed"}

\* Unless a worker died, some job can move as long as one has not ended: the
\* locks never leave every job waiting for another.
NothingStalls ==
    crashes = 0 => (\A i \in DOMAIN jobs : Finished(jobs[i])) \/ \E i \in DOMAIN jobs : Movable(i)

\* How far a job is from its end: four steps of each attempt left to it.
Position(j) ==
    CASE j.status = "todo" -> 0
      [] j.status = "doing" /\ j.step = "run" -> 1
      [] j.status = "doing" /\ j.step = "end" -> 3
      [] OTHER -> 2
Distance(j) == IF Finished(j) THEN 0 ELSE 4 * (MAX_ATTEMPTS - j.attempts) - Position(j)

\* A step of the workers brings one job nearer to its end and changes no other.
BringsOneNearer ==
    \E i \in DOMAIN jobs :
        /\ i \in DOMAIN jobs' /\ Distance(jobs'[i]) < Distance(jobs[i]) /\ Distance(jobs'[i]) \in Nat
        /\ \A k \in DOMAIN jobs \ {i} : k \in DOMAIN jobs' /\ jobs'[k] = jobs[k]
WorkAdvances == [][Work => BringsOneNearer]_vars

\* The ingest jobs that may yet chain another.
WillChain == {i \in DOMAIN jobs : /\ jobs[i].task = "ingest"
                                  /\ jobs[i].status = "todo" \/ (jobs[i].status = "doing" /\ jobs[i].step \in {"run", "chain"})}

\* At most one job is chained for each job submitted, however often it is
\* retried.
ChainsOnce == Len(jobs) + Cardinality(WillChain) <= 2 * submitted

-----------------------------------------------------------------------------

\* Rewriting one job changes no other.
LEMMA Rewritten ==
    ASSUME JobsOK(jobs), NEW i \in DOMAIN jobs, NEW j, jobs' = [jobs EXCEPT ![i] = j]
    PROVE  /\ DOMAIN jobs' = DOMAIN jobs /\ jobs'[i] = j /\ Len(jobs') = Len(jobs)
           /\ \A k \in DOMAIN jobs \ {i} : jobs'[k] = jobs[k]
<1>1. jobs \in Seq(Job)
    BY DEF JobsOK
<1>2. DOMAIN jobs = 1 .. Len(jobs) /\ Len(jobs) \in Nat
    BY <1>1, LenProperties
<1>3. QED
    BY <1>2

\* What one step of Work does to the job that takes it, and to the rest.
Same(j, old) == j.task = old.task /\ j.doc = old.doc /\ j.box = old.box
OneMoves(i) ==
    /\ i \in DOMAIN jobs /\ i \in DOMAIN jobs'
    /\ JobOK(jobs[i]) /\ JobOK(jobs'[i]) /\ Same(jobs'[i], jobs[i])
    /\ \A k \in DOMAIN jobs \ {i} : k \in DOMAIN jobs' /\ jobs'[k] = jobs[k]
    /\ content \subseteq content'
    /\ \A d \in Document : extraction[d] # "none" => extraction'[d] # "none"
    /\ UNCHANGED <<submitted, crashes>>

Starts(old, j) == old.status = "todo" /\ j.status = "doing" /\ j.step = "run" /\ j.attempts = old.attempts
Commits(old, j) ==
    /\ old.status = "doing" /\ old.task = "ingest" /\ old.step = "run"
    /\ j.status = "doing" /\ j.step = "chain" /\ j.attempts = old.attempts
    /\ j.doc \in content'
Chains(old, j) ==
    /\ old.status = "doing" /\ old.task = "ingest" /\ old.step = "chain"
    /\ j.status = "doing" /\ j.step = "end" /\ j.attempts = old.attempts
    /\ \E k \in DOMAIN jobs' : Pursues(jobs'[k], j.doc)
Loads(old, j) ==
    /\ old.status = "doing" /\ old.task = "propositionize" /\ old.step = "run"
    /\ j.status = "doing" /\ j.attempts = old.attempts
    /\ j.step = IF j.doc \in content THEN "extract" ELSE "nothing"
Ends(old, j) ==
    /\ old.status = "doing" /\ old.step # "dead"
    /\ j.status # "doing" /\ j.attempts = old.attempts + 1
    /\ j.task = "ingest" /\ j.status = "succeeded" => old.step = "end"
    /\ j.status = "todo" => old.step \in {"run", "extract"}
    /\ Pursues(old, old.doc) => Pursues(j, old.doc) \/ extraction'[old.doc] # "none"

\* A deferred job waits at the end of the queue.
Appends(after, task, d) ==
    /\ DOMAIN after = DOMAIN jobs \cup {Len(jobs) + 1} /\ Len(jobs) + 1 \notin DOMAIN jobs
    /\ Len(after) = Len(jobs) + 1
    /\ \A k \in DOMAIN jobs : after[k] = jobs[k]
    /\ after[Len(jobs) + 1].status = "todo"
    /\ after[Len(jobs) + 1].task = task /\ after[Len(jobs) + 1].doc = d
LEMMA DeferredJob ==
    ASSUME Inv, NEW task \in {"ingest", "propositionize"}, NEW d \in Document, NEW b \in BoxesOf[d]
    PROVE  Appends(Deferred(task, d, b), task, d)
<1> DEFINE j == [task |-> task, doc |-> d, box |-> b, status |-> "todo", attempts |-> 0, step |-> "run"]
           n == Len(jobs) + 1
           after == Append(jobs, j)
<1>1. jobs \in Seq(Job) /\ DOMAIN jobs = 1 .. Len(jobs) /\ Len(jobs) \in Nat
    BY LenProperties DEF Inv, JobsOK
<1>2. Deferred(task, d, b) = after
    BY DEF Deferred
<1>3. j.status = "todo" /\ j.task = task /\ j.doc = d
    OBVIOUS
<1>4. after = [k \in 1 .. n |-> IF k = n THEN j ELSE jobs[k]]
    BY <1>1 DEF Append
<1> HIDE DEF j, after
<1>5. Len(after) = n
  <2>1. after \in Seq(Job)
      BY <1>2, DeferJob DEF Inv, JobsOK
  <2>2. QED
      BY <1>1, <1>4, <2>1, LenProperties
<1>6. Appends(after, task, d)
    BY <1>1, <1>3, <1>4, <1>5 DEF Appends
<1>7. QED
    BY <1>2, <1>6

\* Only chaining makes a job, a waiting extraction.
Grows(old, j) ==
    \/ Len(jobs') = Len(jobs) /\ DOMAIN jobs' = DOMAIN jobs
    \/ /\ Chains(old, j)
       /\ Len(jobs') = Len(jobs) + 1 /\ DOMAIN jobs' = DOMAIN jobs \cup {Len(jobs) + 1}
       /\ jobs'[Len(jobs) + 1].status = "todo" /\ jobs'[Len(jobs) + 1].task = "propositionize"

Effect(i) ==
    /\ OneMoves(i) /\ Grows(jobs[i], jobs'[i])
    /\ \/ Starts(jobs[i], jobs'[i]) \/ Commits(jobs[i], jobs'[i]) \/ Chains(jobs[i], jobs'[i])
       \/ Loads(jobs[i], jobs'[i]) \/ Ends(jobs[i], jobs'[i])

\* What is rewritten in place moves one job.
LEMMA InPlace ==
    ASSUME Inv, NEW i \in DOMAIN jobs, NEW j, JobOK(j), Same(j, jobs[i]), jobs' = [jobs EXCEPT ![i] = j],
           content \subseteq content', UNCHANGED <<submitted, crashes>>,
           \A d \in Document : extraction[d] # "none" => extraction'[d] # "none"
    PROVE  OneMoves(i) /\ Grows(jobs[i], jobs'[i]) /\ jobs'[i] = j
<1>1. JobsOK(jobs) /\ JobOK(jobs[i])
    BY DEF Inv, JobsOK
<1>2. QED
    BY <1>1, Rewritten DEF OneMoves, Grows

\* Fetching a job starts an attempt.
LEMMA FetchEffect ==
    ASSUME Inv, NEW i \in DOMAIN jobs, Fetch(i)
    PROVE  Effect(i)
<1> DEFINE j == [jobs[i] EXCEPT !.status = "doing", !.step = "run"]
<1>1. jobs[i].status = "todo" /\ JobOK(jobs[i])
    BY DEF Fetch, Inv, JobsOK
<1>2. /\ JobOK(j) /\ Same(j, jobs[i]) /\ jobs' = [jobs EXCEPT ![i] = j]
      /\ j.status = "doing" /\ j.step = "run" /\ j.attempts = jobs[i].attempts
    BY <1>1 DEF JobOK, Job, Same, Fetch
<1> HIDE DEF j
<1>3. OneMoves(i) /\ Grows(jobs[i], jobs'[i]) /\ jobs'[i] = j
    BY <1>2, InPlace DEF Fetch
<1>4. QED
    BY <1>1, <1>2, <1>3 DEF Effect, Starts

\* A job that takes its next step keeps its attempts.
LEMMA SteppedJob ==
    ASSUME NEW j, JobOK(j), NEW s \in {"run", "chain", "end", "extract", "nothing", "dead"}
    PROVE  LET next == [j EXCEPT !.step = s]
           IN  /\ JobOK(next) /\ Same(next, j) /\ next.status = j.status
               /\ next.step = s /\ next.attempts = j.attempts
BY DEF JobOK, Job, Same

\* Committing the spans.
LEMMA CommitEffect ==
    ASSUME Inv, NEW i \in DOMAIN jobs, IngestCommits(i)
    PROVE  Effect(i)
<1> DEFINE j == [jobs[i] EXCEPT !.step = "chain"]
<1>1. /\ JobOK(jobs[i]) /\ jobs[i].status = "doing" /\ jobs[i].task = "ingest" /\ jobs[i].step = "run"
      /\ content' = content \cup {jobs[i].doc} /\ jobs' = [jobs EXCEPT ![i] = j]
    BY DEF IngestCommits, Running, Doing, Inv, JobsOK
<1>2. JobOK(j) /\ Same(j, jobs[i]) /\ j.status = "doing" /\ j.step = "chain" /\ j.attempts = jobs[i].attempts
    BY <1>1, SteppedJob
<1> HIDE DEF j
<1>3. OneMoves(i) /\ Grows(jobs[i], jobs'[i]) /\ jobs'[i] = j
    BY <1>1, <1>2, InPlace DEF IngestCommits
<1>4. QED
    BY <1>1, <1>2, <1>3 DEF Effect, Commits, Same

\* Finding the spans of a document, or none.
LEMMA LoadEffect ==
    ASSUME Inv, NEW i \in DOMAIN jobs, LoadSpans(i)
    PROVE  Effect(i)
<1> DEFINE s == IF jobs[i].doc \in content THEN "extract" ELSE "nothing"
           j == [jobs[i] EXCEPT !.step = s]
<1>1. /\ JobOK(jobs[i]) /\ jobs[i].status = "doing" /\ jobs[i].task = "propositionize" /\ jobs[i].step = "run"
      /\ jobs' = [jobs EXCEPT ![i] = j]
    BY DEF LoadSpans, Running, Doing, Inv, JobsOK
<1>2. JobOK(j) /\ Same(j, jobs[i]) /\ j.status = "doing" /\ j.step = s /\ j.attempts = jobs[i].attempts
  <2>1. s \in {"run", "chain", "end", "extract", "nothing", "dead"}
      OBVIOUS
  <2> HIDE DEF s
  <2>2. QED
      BY <1>1, <2>1, SteppedJob
<1> HIDE DEF j
<1>3. OneMoves(i) /\ Grows(jobs[i], jobs'[i]) /\ jobs'[i] = j
    BY <1>1, <1>2, InPlace DEF LoadSpans
<1>4. QED
    BY <1>1, <1>2, <1>3 DEF Effect, Loads, Same

\* Ending an attempt: the job is retried, fails or succeeds.
LEMMA EndedJob ==
    ASSUME NEW j, JobOK(j), j.status = "doing"
    PROVE  /\ \A s \in {"succeeded", "failed"} :
                 JobOK(Ended(j, s)) /\ Same(Ended(j, s), j) /\ Ended(j, s).status = s
                   /\ Ended(j, s).attempts = j.attempts + 1
           /\ JobOK(Retried(j)) /\ Same(Retried(j), j) /\ Retried(j).status \in {"todo", "failed"}
           /\ Retried(j).attempts = j.attempts + 1
<1>1. j \in Job
    BY DEF JobOK
<1>2. ASSUME NEW s \in {"succeeded", "failed"}
      PROVE  Same(Ended(j, s), j) /\ Ended(j, s).status = s /\ Ended(j, s).attempts = j.attempts + 1
    BY <1>1 DEF Job, Ended, Same
<1>3. Same(Retried(j), j) /\ Retried(j).status \in {"todo", "failed"} /\ Retried(j).attempts = j.attempts + 1
    BY <1>1 DEF Job, Retried, Same
<1>4. QED
    BY <1>2, <1>3, EndJob

\* What a failed extraction leaves.
LEMMA GivenUp ==
    ASSUME Inv, NEW before, NEW after, before.doc \in Document, GivesUp(before, after)
    PROVE  /\ \A d \in Document : extraction[d] # "none" => extraction'[d] # "none"
           /\ after.status = "failed" /\ before.task = "propositionize" => extraction'[before.doc] # "none"
BY DEF GivesUp, Inv, RestOK

\* An attempt that ends.
LEMMA EndEffect ==
    ASSUME Inv, NEW i \in DOMAIN jobs,
           ChainFails(i) \/ IngestEnds(i) \/ PropositionizeEnds(i) \/ RaiseRetryable(i) \/ RaiseTerminal(i)
    PROVE  Effect(i)
<1>1. /\ JobOK(jobs[i]) /\ jobs[i].doc \in Document
      /\ jobs[i].status = "doing" /\ jobs[i].step # "dead"
    BY DEF ChainFails, IngestEnds, PropositionizeEnds, RaiseRetryable, RaiseTerminal, MayRaise, Running, Doing,
           Inv, JobsOK, JobOK, Job
<1>2. ASSUME NEW j, JobOK(j), Same(j, jobs[i]), jobs' = [jobs EXCEPT ![i] = j],
             content' = content, UNCHANGED <<submitted, crashes>>,
             j.status # "doing", j.attempts = jobs[i].attempts + 1,
             \A d \in Document : extraction[d] # "none" => extraction'[d] # "none",
             j.task = "ingest" /\ j.status = "succeeded" => jobs[i].step = "end",
             j.status = "todo" => jobs[i].step \in {"run", "extract"},
             jobs[i].task = "propositionize" /\ jobs[i].step \in {"run", "extract"}
               => j.status = "todo" \/ extraction'[jobs[i].doc] # "none"
      PROVE  Effect(i)
  <2>1. OneMoves(i) /\ Grows(jobs[i], jobs'[i]) /\ jobs'[i] = j
      BY <1>2, InPlace
  <2>2. Pursues(jobs[i], jobs[i].doc) => Pursues(j, jobs[i].doc) \/ extraction'[jobs[i].doc] # "none"
      BY <1>1, <1>2 DEF Pursues, Same
  <2>3. Ends(jobs[i], jobs'[i])
      BY <1>1, <1>2, <2>1, <2>2 DEF Ends
  <2>4. QED
      BY <2>1, <2>3 DEF Effect
<1>3. CASE ChainFails(i)
  <2>1. /\ jobs' = [jobs EXCEPT ![i] = Ended(jobs[i], "failed")] /\ jobs[i].task = "ingest"
        /\ UNCHANGED <<content, extraction, submitted, crashes>>
      BY <1>3 DEF ChainFails, Running
  <2>2. QED
      BY <1>1, <1>2, <2>1, EndedJob
<1>4. CASE IngestEnds(i)
  <2>1. /\ jobs' = [jobs EXCEPT ![i] = Ended(jobs[i], "succeeded")]
        /\ jobs[i].task = "ingest" /\ jobs[i].step = "end"
        /\ UNCHANGED <<content, extraction, submitted, crashes>>
      BY <1>4 DEF IngestEnds, Running
  <2>2. QED
      BY <1>1, <1>2, <2>1, EndedJob
<1>5. CASE PropositionizeEnds(i)
  <2>1. /\ jobs' = [jobs EXCEPT ![i] = Ended(jobs[i], "succeeded")]
        /\ jobs[i].task = "propositionize" /\ jobs[i].step \in {"extract", "nothing"}
        /\ UNCHANGED <<content, submitted, crashes>>
        /\ extraction' = IF jobs[i].step = "extract" THEN [extraction EXCEPT ![jobs[i].doc] = "done"]
                         ELSE extraction
      BY <1>5 DEF PropositionizeEnds, Running
  <2>2. extraction \in [Document -> {"none", "done", "failed"}]
      BY DEF Inv, RestOK
  <2>3. /\ \A d \in Document : extraction[d] # "none" => extraction'[d] # "none"
        /\ jobs[i].step = "extract" => extraction'[jobs[i].doc] # "none"
      BY <1>1, <2>1, <2>2
  <2>4. Ended(jobs[i], "succeeded").task = "propositionize"
      BY <1>1, <2>1, EndedJob DEF Same
  <2>5. QED
      BY <1>1, <1>2, <2>1, <2>3, <2>4, EndedJob
<1>6. CASE RaiseRetryable(i)
  <2>1. /\ jobs' = [jobs EXCEPT ![i] = Retried(jobs[i])] /\ GivesUp(jobs[i], Retried(jobs[i]))
        /\ UNCHANGED <<content, submitted, crashes>>
        /\ jobs[i].step \in {"run", "extract"}
      BY <1>6 DEF RaiseRetryable, MayRaise, Running
  <2>2. QED
      BY <1>1, <1>2, <2>1, EndedJob, GivenUp
<1>7. CASE RaiseTerminal(i)
  <2>1. /\ jobs' = [jobs EXCEPT ![i] = Ended(jobs[i], "failed")] /\ GivesUp(jobs[i], Ended(jobs[i], "failed"))
        /\ UNCHANGED <<content, submitted, crashes>>
      BY <1>7 DEF RaiseTerminal
  <2>2. QED
      BY <1>1, <1>2, <2>1, EndedJob, GivenUp
<1>8. QED
    BY <1>3, <1>4, <1>5, <1>6, <1>7

\* Chaining leaves an extraction of the document waiting.
LEMMA ChainEffect ==
    ASSUME Inv, NEW i \in DOMAIN jobs, Chain(i)
    PROVE  Effect(i)
<1> DEFINE d == jobs[i].doc
           next == IF SkipChain(d) THEN jobs ELSE Deferred("propositionize", d, jobs[i].box)
           j == [jobs[i] EXCEPT !.step = "end"]
<1>1. /\ JobOK(jobs[i]) /\ jobs[i].status = "doing" /\ jobs[i].task = "ingest" /\ jobs[i].step = "chain"
      /\ jobs' = [next EXCEPT ![i] = [next[i] EXCEPT !.step = "end"]]
      /\ UNCHANGED <<content, extraction, submitted, crashes>>
    BY DEF Chain, Running, Doing, Inv, JobsOK
<1>2. JobOK(j) /\ Same(j, jobs[i]) /\ j.status = "doing" /\ j.step = "end" /\ j.attempts = jobs[i].attempts
    BY <1>1, SteppedJob
<1>3. jobs \in Seq(Job) /\ DOMAIN jobs = 1 .. Len(jobs) /\ Len(jobs) \in Nat
    BY LenProperties DEF Inv, JobsOK
<1>4. CASE SkipChain(d)
  <2>1. jobs' = [jobs EXCEPT ![i] = j]
      BY <1>1, <1>4
  <2>2. PICK k \in DOMAIN jobs : jobs[k].status = "todo" /\ jobs[k].task = "propositionize" /\ jobs[k].doc = d
      BY <1>4 DEF SkipChain, AlreadyEnqueued
  <2> HIDE DEF j, d
  <2>3. OneMoves(i) /\ Grows(jobs[i], jobs'[i]) /\ jobs'[i] = j
      BY <1>1, <1>2, <2>1, InPlace
  <2>4. k \in DOMAIN jobs' /\ Pursues(jobs'[k], d)
      BY <1>1, <2>1, <2>2, <2>3 DEF Pursues, OneMoves
  <2>5. QED
      BY <1>1, <1>2, <2>3, <2>4 DEF Effect, Chains, Same, d
<1>5. CASE ~SkipChain(d)
  <2> DEFINE after == Deferred("propositionize", d, jobs[i].box)
             n == Len(jobs) + 1
  <2>1. d \in Document /\ jobs[i].box \in BoxesOf[d]
      BY <1>1 DEF JobOK, Job
  <2>2. /\ DOMAIN after = DOMAIN jobs \cup {n} /\ n \notin DOMAIN jobs /\ Len(after) = n
        /\ \A k \in DOMAIN jobs : after[k] = jobs[k]
        /\ after[n].status = "todo" /\ after[n].task = "propositionize" /\ after[n].doc = d
        /\ after \in Seq(Job)
    <3>1. JobsOK(after)
        BY <2>1, DeferJob DEF Inv
    <3>2. after \in Seq(Job)
        BY <3>1 DEF JobsOK
    <3>3. Appends(after, "propositionize", d)
        BY <2>1, DeferredJob
    <3> HIDE DEF after, d
    <3>4. QED
        BY <3>2, <3>3 DEF Appends
  <2>3. next = after
      BY <1>5
  <2> HIDE DEF j, next, after
  <2>4. next[i] = jobs[i]
      BY <2>2, <2>3
  <2>5. jobs' = [after EXCEPT ![i] = j] /\ i # n
      BY <1>1, <2>2, <2>3, <2>4 DEF j
  <2>6. /\ DOMAIN jobs' = DOMAIN jobs \cup {n} /\ jobs'[i] = j /\ jobs'[n] = after[n]
        /\ \A k \in DOMAIN jobs \ {i} : jobs'[k] = jobs[k]
      BY <2>2, <2>5
  <2>7. Len(jobs') = n
    <3>1. jobs' \in Seq(Job)
        BY <1>2, <2>2, <2>5, ExceptSeq DEF JobOK
    <3>2. QED
        BY <1>3, <2>6, <3>1, LenProperties
  <2>8. Pursues(jobs'[n], d)
      BY <2>2, <2>6 DEF Pursues
  <2> HIDE DEF d
  <2>9. Chains(jobs[i], jobs'[i])
      BY <1>1, <1>2, <2>6, <2>8 DEF Chains, Same, d
  <2>10. OneMoves(i)
      BY <1>1, <1>2, <2>6 DEF OneMoves
  <2>11. QED
      BY <2>2, <2>6, <2>7, <2>9, <2>10 DEF Effect, Grows
<1>6. QED
    BY <1>4, <1>5

\* Every step of the workers is one of these.
LEMMA WorkEffect ==
    ASSUME Inv, Work
    PROVE  \E i \in DOMAIN jobs : Effect(i)
BY FetchEffect, CommitEffect, LoadEffect, EndEffect, ChainEffect DEF Work

-----------------------------------------------------------------------------

\* A step of the workers brings the job that takes it nearer to its end.
LEMMA EffectAdvances ==
    ASSUME NEW i, Effect(i)
    PROVE  BringsOneNearer
<1> DEFINE old == jobs[i]
           j == jobs'[i]
<1>1. /\ old.attempts \in 0..MAX_ATTEMPTS /\ j.attempts \in 0..MAX_ATTEMPTS /\ MAX_ATTEMPTS \in Nat
      /\ old.status \in {"todo", "doing", "succeeded", "failed"}
      /\ j.status \in {"todo", "doing", "succeeded", "failed"}
      /\ old.status \in {"todo", "doing"} => old.attempts < MAX_ATTEMPTS
      /\ j.status \in {"todo", "doing"} => j.attempts < MAX_ATTEMPTS
    BY BoundsAreNaturals DEF Effect, OneMoves, JobOK, Job
<1>2. /\ i \in DOMAIN jobs /\ i \in DOMAIN jobs'
      /\ \A k \in DOMAIN jobs \ {i} : k \in DOMAIN jobs' /\ jobs'[k] = jobs[k]
      /\ Starts(old, j) \/ Commits(old, j) \/ Chains(old, j) \/ Loads(old, j) \/ Ends(old, j)
    BY DEF Effect, OneMoves
<1> HIDE DEF old, j
<1>3. Distance(j) \in Nat /\ Distance(j) < Distance(old)
  <2>1. CASE Starts(old, j)
      BY <1>1, <2>1 DEF Starts, Distance, Position, Finished
  <2>2. CASE Commits(old, j)
      BY <1>1, <2>2 DEF Commits, Distance, Position, Finished
  <2>3. CASE Chains(old, j)
      BY <1>1, <2>3 DEF Chains, Distance, Position, Finished
  <2>4. CASE Loads(old, j)
      BY <1>1, <2>4 DEF Loads, Distance, Position, Finished
  <2>5. CASE Ends(old, j)
    <3>1. Position(old) \in 0 .. 3 /\ Position(j) \in 0 .. 3
        BY DEF Position
    <3>2. old.status = "doing" /\ j.status # "doing" /\ j.attempts = old.attempts + 1
        BY <2>5 DEF Ends
    <3>3. Distance(old) = 4 * (MAX_ATTEMPTS - old.attempts) - Position(old)
        BY <3>2 DEF Distance, Finished
    <3>4. CASE Finished(j)
        BY <1>1, <3>1, <3>2, <3>3, <3>4 DEF Distance
    <3>5. CASE ~Finished(j)
      <4>1. j.status = "todo" /\ Position(j) = 0
          BY <1>1, <3>2, <3>5 DEF Finished, Position
      <4>2. Distance(j) = 4 * (MAX_ATTEMPTS - j.attempts)
          BY <1>1, <3>5, <4>1 DEF Distance
      <4>3. QED
          BY <1>1, <3>1, <3>2, <3>3, <4>1, <4>2
    <3>6. QED
        BY <3>4, <3>5
  <2>6. QED
      BY <1>2, <2>1, <2>2, <2>3, <2>4, <2>5
<1>4. QED
    BY <1>2, <1>3 DEF BringsOneNearer, old, j

\* Retries run out: every step of the workers uses up one of the finitely
\* many steps its job has left, and takes none back from another job.
THEOREM RetriesRunOut == Spec => WorkAdvances
<1>1. Inv /\ [Next]_vars => [Work => BringsOneNearer]_vars
    BY WorkEffect, EffectAdvances
<1>2. QED
    BY <1>1, Invariance, PTL DEF Spec, WorkAdvances

-----------------------------------------------------------------------------

\* The steps of a task are its own.
LEMMA StepsInvariant == Inv /\ StepsInv /\ [Next]_vars => StepsInv'
<1> SUFFICES ASSUME Inv, StepsInv, [Next]_vars PROVE StepsInv'
    OBVIOUS
<1>1. \A i \in DOMAIN jobs : jobs[i].task \in {"ingest", "propositionize"}
    BY DEF Inv, JobsOK, JobOK, Job
<1>2. CASE Work
  <2>1. PICK i \in DOMAIN jobs : Effect(i)
      BY <1>2, WorkEffect
  <2>2. /\ \A k \in DOMAIN jobs' : k # i /\ jobs'[k].status = "doing" => k \in DOMAIN jobs /\ jobs'[k] = jobs[k]
        /\ UNCHANGED <<submitted, crashes>>
      BY <2>1 DEF Effect, OneMoves, Grows
  <2>3. jobs'[i].status = "doing" => jobs'[i].step \in StepsOf(jobs'[i].task) /\ jobs'[i].step # "dead"
      BY <1>1, <2>1 DEF Effect, OneMoves, Same, StepsOf, Starts, Commits, Chains, Loads, Ends
  <2>4. QED
      BY <2>2, <2>3 DEF StepsInv, Doing
<1>3. ASSUME NEW task \in {"ingest", "propositionize"}, NEW d \in Document, NEW b \in BoxesOf[d],
             Enqueue(task, d, b)
      PROVE  StepsInv'
  <2>1. jobs' = Deferred(task, d, b) /\ submitted' = submitted + 1 /\ crashes' = crashes
      BY <1>3 DEF Enqueue
  <2>2. /\ \A k \in DOMAIN jobs : jobs'[k] = jobs[k]
        /\ \A k \in DOMAIN jobs' : k \in DOMAIN jobs \/ jobs'[k].status = "todo"
    <3>1. Appends(jobs', task, d)
        BY <2>1, DeferredJob
    <3>2. QED
        BY <3>1 DEF Appends
  <2>3. QED
      BY <2>1, <2>2 DEF StepsInv, Doing
<1>4. ASSUME NEW i \in DOMAIN jobs, Crash(i) PROVE StepsInv'
  <2> DEFINE j == [jobs[i] EXCEPT !.step = "dead"]
  <2>1. /\ jobs' = [jobs EXCEPT ![i] = j] /\ j.step = "dead" /\ j.task = jobs[i].task
        /\ crashes' = crashes + 1 /\ submitted' = submitted
    <3>1. jobs[i] \in Job
        BY DEF Inv, JobsOK, JobOK
    <3>2. QED
        BY <1>4, <3>1 DEF Crash, Job
  <2> HIDE DEF j
  <2>2. /\ DOMAIN jobs' = DOMAIN jobs /\ jobs'[i] = j
        /\ \A k \in DOMAIN jobs \ {i} : jobs'[k] = jobs[k]
      BY <2>1, Rewritten DEF Inv
  <2>3. j.step \in StepsOf(j.task) /\ crashes' > 0 /\ crashes' \in Nat
      BY <1>1, <2>1 DEF StepsOf, StepsInv
  <2>4. QED
      BY <2>1, <2>2, <2>3 DEF StepsInv, Doing
<1>5. CASE UNCHANGED vars
    BY <1>5 DEF vars, StepsInv, Doing
<1>6. QED
    BY <1>2, <1>3, <1>4, <1>5 DEF Next

\* Nobody stops pursuing a document whose spans are in, but by extracting it
\* or by failing for good.
LEMMA StaysPursued ==
    ASSUME NEW i, Effect(i), NEW d \in content, d \in Document, Pursued(d)
    PROVE  Pursued(d)'
<1>1. CASE extraction[d] # "none" \/ crashes > 0
    BY <1>1 DEF Effect, OneMoves, Pursued
<1>2. ASSUME NEW k \in DOMAIN jobs, Pursues(jobs[k], d) PROVE Pursued(d)'
  <2>1. CASE k # i
    <3>1. k \in DOMAIN jobs' /\ jobs'[k] = jobs[k]
        BY <2>1 DEF Effect, OneMoves
    <3>2. QED
        BY <1>2, <3>1 DEF Pursued
  <2>2. CASE k = i
    <3>1. /\ jobs[i].task = "propositionize" /\ jobs[i].doc = d /\ i \in DOMAIN jobs'
          /\ jobs'[i].task = "propositionize" /\ jobs'[i].doc = d
        BY <1>2, <2>2 DEF Effect, OneMoves, Same, Pursues
    <3>2. Pursues(jobs'[i], d) \/ extraction'[d] # "none"
        BY <1>2, <2>2, <3>1 DEF Effect, Starts, Commits, Chains, Loads, Ends, Pursues
    <3>3. QED
        BY <3>1, <3>2 DEF Pursued
  <2>3. QED
      BY <2>1, <2>2
<1>3. QED
    BY <1>1, <1>2 DEF Pursued

\* The pursuit is kept up, by whatever the workers and the submitters do.
LEMMA PursuitInvariant == Inv /\ StepsInv /\ PursuitInv /\ [Next]_vars => PursuitInv'
<1> SUFFICES ASSUME Inv, StepsInv, PursuitInv, [Next]_vars PROVE PursuitInv'
    OBVIOUS
<1>1. \A i \in DOMAIN jobs : jobs[i].doc \in Document
    BY DEF Inv, JobsOK, JobOK, Job
<1>2. CASE Work
  <2>1. PICK i \in DOMAIN jobs : Effect(i)
      BY <1>2, WorkEffect
  <2>2. OneMoves(i) /\ Grows(jobs[i], jobs'[i])
      BY <2>1 DEF Effect
  <2>3. \A d \in content : d \in Document /\ Pursued(d) => d \in content' /\ Pursued(d)'
      BY <2>1, <2>2, StaysPursued DEF OneMoves
  <2>4. ASSUME NEW k \in DOMAIN jobs', jobs'[k].task = "ingest"
        PROVE  /\ Committed(jobs'[k]) => jobs'[k].doc \in content'
               /\ Chained(jobs'[k]) => Pursued(jobs[k].doc)'
    <3>1. CASE k # i
      <4>1. k \in DOMAIN jobs /\ jobs'[k] = jobs[k]
          BY <2>2, <2>4, <3>1 DEF OneMoves, Grows
      <4>2. QED
          BY <1>1, <2>3, <2>4, <4>1, <2>2 DEF PursuitInv, Committed, Chained, OneMoves, Pursued
    <3>2. CASE k = i
      <4>1. jobs[i].task = "ingest" /\ jobs'[i].doc = jobs[i].doc /\ content \subseteq content'
          BY <2>2, <2>4, <3>2 DEF OneMoves, Same
      <4>2. CASE Starts(jobs[i], jobs'[i])
          BY <3>2, <4>2 DEF Starts, Committed, Chained
      <4>3. CASE Commits(jobs[i], jobs'[i])
          BY <3>2, <4>3 DEF Commits, Committed, Chained
      <4>4. CASE Chains(jobs[i], jobs'[i])
        <5>1. jobs[i].doc \in content
            BY <4>1, <4>4 DEF Chains, PursuitInv, Committed
        <5>2. Pursued(jobs[i].doc)'
            BY <4>4 DEF Chains, Pursued
        <5>3. QED
            BY <3>2, <4>1, <5>1, <5>2
      <4>5. CASE Loads(jobs[i], jobs'[i])
          BY <4>1, <4>5 DEF Loads
      <4>6. CASE Ends(jobs[i], jobs'[i])
        <5>1. Committed(jobs'[i]) => jobs'[i].status = "succeeded"
            BY <4>6 DEF Ends, Committed, Chained
        <5>2. jobs'[i].status = "succeeded" => Chained(jobs[i]) /\ Committed(jobs[i])
            BY <2>4, <3>2, <4>6 DEF Ends, Committed, Chained
        <5>3. jobs'[i].status = "succeeded" => jobs[i].doc \in content /\ Pursued(jobs[i].doc)
            BY <4>1, <5>2 DEF PursuitInv
        <5>4. QED
            BY <1>1, <2>3, <3>2, <4>1, <5>1, <5>3 DEF Committed
      <4>7. QED
          BY <2>1, <4>2, <4>3, <4>4, <4>5, <4>6 DEF Effect
    <3>3. QED
        BY <3>1, <3>2
  <2>5. QED
      BY <2>4 DEF PursuitInv
<1>3. ASSUME NEW task \in {"ingest", "propositionize"}, NEW d \in Document, NEW b \in BoxesOf[d],
             Enqueue(task, d, b)
      PROVE  PursuitInv'
  <2>1. jobs' = Deferred(task, d, b) /\ UNCHANGED <<content, extraction, crashes>>
      BY <1>3 DEF Enqueue
  <2>2. /\ \A k \in DOMAIN jobs : k \in DOMAIN jobs' /\ jobs'[k] = jobs[k]
        /\ \A k \in DOMAIN jobs' : k \in DOMAIN jobs \/ jobs'[k].status = "todo"
    <3>1. Appends(jobs', task, d)
        BY <2>1, DeferredJob
    <3>2. QED
        BY <3>1 DEF Appends
  <2>3. \A e : Pursued(e) => Pursued(e)'
      BY <2>1, <2>2 DEF Pursued
  <2>4. QED
      BY <2>1, <2>2, <2>3 DEF PursuitInv, Committed, Chained
<1>4. ASSUME NEW i \in DOMAIN jobs, Crash(i) PROVE PursuitInv'
  <2> DEFINE j == [jobs[i] EXCEPT !.step = "dead"]
  <2>1. /\ jobs' = [jobs EXCEPT ![i] = j] /\ j.step = "dead" /\ j.status = "doing"
        /\ crashes' = crashes + 1 /\ content' = content
    <3>1. jobs[i] \in Job
        BY DEF Inv, JobsOK, JobOK
    <3>2. QED
        BY <1>4, <3>1 DEF Crash, Job, Doing
  <2> HIDE DEF j
  <2>2. /\ DOMAIN jobs' = DOMAIN jobs /\ jobs'[i] = j
        /\ \A k \in DOMAIN jobs \ {i} : jobs'[k] = jobs[k]
      BY <2>1, Rewritten DEF Inv
  <2>3. \A e : Pursued(e)'
    <3>1. crashes' > 0
        BY <2>1 DEF StepsInv
    <3>2. QED
        BY <3>1 DEF Pursued
  <2>4. ~Committed(j)
      BY <2>1 DEF Committed, Chained
  <2>5. \A k \in DOMAIN jobs : Committed(jobs'[k]) => jobs'[k] = jobs[k]
      BY <2>2, <2>4
  <2>6. QED
      BY <2>1, <2>2, <2>3, <2>5 DEF PursuitInv
<1>5. CASE UNCHANGED vars
  <2>1. \A e : Pursued(e) => Pursued(e)'
      BY <1>5 DEF vars, Pursued
  <2>2. jobs' = jobs /\ content' = content
      BY <1>5 DEF vars
  <2>3. QED
      BY <2>1, <2>2 DEF PursuitInv
<1>6. QED
    BY <1>2, <1>3, <1>4, <1>5 DEF Next

\* The two hold from the start.
LEMMA LiveInvariance == Spec => [](StepsInv /\ PursuitInv)
<1>1. Init => StepsInv /\ PursuitInv
  <2>1. Init => DOMAIN jobs = {}
      BY EmptySeq DEF Init
  <2>2. QED
      BY <2>1 DEF Init, StepsInv, PursuitInv, Doing
<1>2. QED
    BY <1>1, InitInv, NextInv, StepsInvariant, PursuitInvariant, PTL DEF Spec

\* No extraction is lost: once its ingest succeeded a document has been
\* extracted, has an extraction that failed for good, or has a job that is
\* still going to extract it, unless a worker died.
THEOREM NoExtractionIsLost == Spec => []IngestedIsPursued
<1>1. PursuitInv => IngestedIsPursued
    BY DEF PursuitInv, IngestedIsPursued, Chained
<1>2. QED
    BY <1>1, LiveInvariance, PTL

\* The jobs never wait for each other: as long as one has not ended and no
\* worker died, the guard of some step of the workers holds.
THEOREM WorkersNeverStall == Spec => []NothingStalls
<1>1. Inv /\ StepsInv => NothingStalls
  <2> SUFFICES ASSUME Inv, StepsInv, crashes = 0, NEW i \in DOMAIN jobs, ~Finished(jobs[i])
               PROVE  \E k \in DOMAIN jobs : Movable(k)
      BY DEF NothingStalls
  <2>1. ASSUME NEW k \in Doing PROVE Movable(k)
    <3>1. jobs[k].task \in {"ingest", "propositionize"} /\ k \in DOMAIN jobs
        BY DEF Doing, Inv, JobsOK, JobOK, Job
    <3>2. jobs[k].step \in StepsOf(jobs[k].task) /\ jobs[k].step # "dead"
        BY DEF StepsInv
    <3>3. QED
        BY <2>1, <3>1, <3>2 DEF StepsOf, Movable, MayRaise, Running
  <2>2. jobs[i].status \in {"todo", "doing"}
      BY DEF Finished, Inv, JobsOK, JobOK, Job
  <2>3. CASE Doing = {}
    <3>1. jobs[i].status = "todo"
        BY <2>2, <2>3 DEF Doing
    <3>2. QED
        BY <2>3, <3>1 DEF Movable
  <2>4. CASE Doing # {}
      BY <2>1, <2>4 DEF Doing
  <2>5. QED
      BY <2>3, <2>4
<1>2. QED
    BY <1>1, Invariance, LiveInvariance, PTL

-----------------------------------------------------------------------------

\* The jobs that may yet chain are finitely many.
LEMMA WillChainIsFinite == Inv => IsFiniteSet(WillChain) /\ Cardinality(WillChain) \in Nat
<1> SUFFICES ASSUME Inv PROVE IsFiniteSet(WillChain) /\ Cardinality(WillChain) \in Nat
    OBVIOUS
<1>1. DOMAIN jobs = 1 .. Len(jobs) /\ Len(jobs) \in Nat
    BY LenProperties DEF Inv, JobsOK
<1>2. IsFiniteSet(DOMAIN jobs)
    BY <1>1, FS_Interval
<1>3. QED
    BY <1>2, FS_Subset, FS_CardinalityType DEF WillChain

\* No step lets a job chain that could not, but for a fresh one.
LEMMA ChainsOnceInvariant == Inv /\ StepsInv /\ ChainsOnce /\ [Next]_vars => ChainsOnce'
<1> SUFFICES ASSUME Inv, StepsInv, ChainsOnce, [Next]_vars PROVE ChainsOnce'
    OBVIOUS
<1>1. /\ Len(jobs) \in Nat /\ submitted \in Nat
      /\ IsFiniteSet(WillChain) /\ Cardinality(WillChain) \in Nat
    BY WillChainIsFinite, LenProperties DEF Inv, JobsOK, StepsInv
<1>2. ASSUME WillChain' \subseteq WillChain, Len(jobs') = Len(jobs), submitted' = submitted
      PROVE  ChainsOnce'
  <2>1. Cardinality(WillChain') <= Cardinality(WillChain) /\ Cardinality(WillChain') \in Nat
      BY <1>1, <1>2, FS_Subset, FS_CardinalityType
  <2>2. QED
      BY <1>1, <1>2, <2>1 DEF ChainsOnce
<1>3. CASE Work
  <2>1. PICK i \in DOMAIN jobs : Effect(i)
      BY <1>3, WorkEffect
  <2>2. /\ OneMoves(i) /\ Grows(jobs[i], jobs'[i]) /\ submitted' = submitted
        /\ jobs'[i].task = jobs[i].task
      BY <2>1 DEF Effect, OneMoves, Same
  <2>3. i \in WillChain' => i \in WillChain
    <3>1. ASSUME jobs'[i].task = "ingest",
                 jobs'[i].status = "todo" \/ (jobs'[i].status = "doing" /\ jobs'[i].step \in {"run", "chain"})
          PROVE  jobs[i].status = "todo" \/ (jobs[i].status = "doing" /\ jobs[i].step \in {"run", "chain"})
      <4>1. jobs[i].status = "doing" => jobs[i].step \in {"run", "chain", "end", "dead"}
          BY <2>2, <3>1 DEF StepsInv, Doing, StepsOf
      <4>2. QED
          BY <2>1, <2>2, <3>1, <4>1 DEF Effect, Starts, Commits, Chains, Loads, Ends
    <3>2. QED
        BY <2>2, <3>1 DEF WillChain
  <2>4. \A k \in DOMAIN jobs \ {i} : k \in WillChain' => k \in WillChain
      BY <2>2 DEF WillChain, OneMoves
  <2>5. CASE DOMAIN jobs' = DOMAIN jobs /\ Len(jobs') = Len(jobs)
    <3>1. WillChain' \subseteq WillChain
        BY <2>3, <2>4, <2>5 DEF WillChain
    <3>2. QED
        BY <1>2, <2>2, <2>5, <3>1
  <2>6. CASE ~(DOMAIN jobs' = DOMAIN jobs /\ Len(jobs') = Len(jobs))
    <3>1. /\ Chains(jobs[i], jobs'[i])
          /\ Len(jobs') = Len(jobs) + 1 /\ DOMAIN jobs' = DOMAIN jobs \cup {Len(jobs) + 1}
          /\ jobs'[Len(jobs) + 1].task = "propositionize"
        BY <2>2, <2>6 DEF Grows
    <3>2. i \in WillChain /\ i \notin WillChain'
        BY <3>1 DEF Chains, WillChain
    <3>3. Len(jobs) + 1 \notin WillChain'
        BY <3>1 DEF WillChain
    <3>4. WillChain' \subseteq WillChain \ {i}
        BY <2>4, <3>1, <3>2, <3>3 DEF WillChain
    <3>5. Cardinality(WillChain \ {i}) = Cardinality(WillChain) - 1 /\ IsFiniteSet(WillChain \ {i})
        BY <1>1, <3>2, FS_RemoveElement
    <3>6. Cardinality(WillChain') <= Cardinality(WillChain) - 1 /\ Cardinality(WillChain') \in Nat
        BY <3>4, <3>5, FS_Subset, FS_CardinalityType
    <3>7. QED
        BY <1>1, <2>2, <3>1, <3>6 DEF ChainsOnce
  <2>7. QED
      BY <2>5, <2>6
<1>4. ASSUME NEW task \in {"ingest", "propositionize"}, NEW d \in Document, NEW b \in BoxesOf[d],
             Enqueue(task, d, b)
      PROVE  ChainsOnce'
  <2> DEFINE n == Len(jobs) + 1
  <2>1. jobs' = Deferred(task, d, b) /\ submitted' = submitted + 1
      BY <1>4 DEF Enqueue
  <2>2. /\ DOMAIN jobs' = DOMAIN jobs \cup {n} /\ Len(jobs') = n
        /\ \A k \in DOMAIN jobs : jobs'[k] = jobs[k]
    <3>1. Appends(jobs', task, d)
        BY <2>1, DeferredJob
    <3>2. QED
        BY <3>1 DEF Appends
  <2>3. WillChain' \subseteq WillChain \cup {n}
      BY <2>2 DEF WillChain
  <2>4. IsFiniteSet(WillChain \cup {n}) /\ Cardinality(WillChain \cup {n}) <= Cardinality(WillChain) + 1
    <3>1. Cardinality(WillChain \cup {n}) = IF n \in WillChain THEN Cardinality(WillChain)
                                             ELSE Cardinality(WillChain) + 1
        BY <1>1, FS_AddElement
    <3>2. QED
        BY <1>1, <3>1, FS_AddElement
  <2>5. Cardinality(WillChain') <= Cardinality(WillChain) + 1 /\ Cardinality(WillChain') \in Nat
    <3>1. Cardinality(WillChain \cup {n}) \in Nat
        BY <2>4, FS_CardinalityType
    <3>2. Cardinality(WillChain') <= Cardinality(WillChain \cup {n}) /\ Cardinality(WillChain') \in Nat
        BY <2>3, <2>4, FS_Subset, FS_CardinalityType
    <3>3. QED
        BY <1>1, <2>4, <3>1, <3>2
  <2>6. QED
      BY <1>1, <2>1, <2>2, <2>5 DEF ChainsOnce
<1>5. ASSUME NEW i \in DOMAIN jobs, Crash(i) PROVE ChainsOnce'
  <2> DEFINE j == [jobs[i] EXCEPT !.step = "dead"]
  <2>1. jobs' = [jobs EXCEPT ![i] = j] /\ j.step = "dead" /\ j.status = "doing" /\ submitted' = submitted
    <3>1. jobs[i] \in Job
        BY DEF Inv, JobsOK, JobOK
    <3>2. QED
        BY <1>5, <3>1 DEF Crash, Job, Doing
  <2> HIDE DEF j
  <2>2. /\ DOMAIN jobs' = DOMAIN jobs /\ jobs'[i] = j /\ Len(jobs') = Len(jobs)
        /\ \A k \in DOMAIN jobs \ {i} : jobs'[k] = jobs[k]
      BY <2>1, Rewritten DEF Inv
  <2>3. WillChain' \subseteq WillChain
      BY <2>1, <2>2 DEF WillChain
  <2>4. QED
      BY <1>2, <2>1, <2>2, <2>3
<1>6. CASE UNCHANGED vars
  <2>1. WillChain' = WillChain /\ jobs' = jobs /\ submitted' = submitted
      BY <1>6 DEF vars, WillChain
  <2>2. QED
      BY <1>2, <2>1
<1>7. QED
    BY <1>3, <1>4, <1>5, <1>6 DEF Next

\* However often it is retried, an ingest job chains at most one extraction:
\* there are never more than two jobs for each one submitted, so the steps
\* that are left to run out are finitely many.
THEOREM IngestChainsOnce == Spec => []ChainsOnce
<1>1. Init => ChainsOnce
  <2> SUFFICES ASSUME Init PROVE ChainsOnce
      OBVIOUS
  <2>1. Len(jobs) = 0 /\ DOMAIN jobs = {} /\ submitted = 0
      BY EmptySeq DEF Init
  <2>2. WillChain = {}
      BY <2>1 DEF WillChain
  <2>3. QED
      BY <2>1, <2>2, FS_EmptySet DEF ChainsOnce
<1>2. QED
    BY <1>1, ChainsOnceInvariant, Invariance, LiveInvariance, PTL DEF Spec

=============================================================================
