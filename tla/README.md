# Iknos: TLA+ models and proofs

Iknos turns documents into a graph of propositions, facts and hypotheses and
keeps the beliefs in that graph consistent while evidence is added, withdrawn
and contradicted. This directory models the parts of it whose correctness is a
matter of order, failure and repetition: the truth-maintenance engines, the
confidence and adjudication loops above them, the belief-revision loop over the
store with the operators that feed it (edge producer, find-contradiction,
derive), the operators that decide who is who in a case box and what is part of
what, document ingest and the migration of its vectors, the propositionizer and
the background jobs.

Module paths below are relative to `src/src/iknos/` of the repository.
`PROJECT.json` lists the components, the runs, the source lines behind every
definition, the hazards and the theorems.

## 1. The system

### Inventory

| Component | State | Operations | What makes it correct |
|---|---|---|---|
| Truth maintenance, Layer A (`core/truth_maintenance.py`) | incremental oracle: base facts, derivations, unmet counters, support counts, supported set | `apply` = diff, `_delete` (over-delete, rederive), `_insert`, `_cascade`; from-scratch `well_founded_support` | every answer is the least set closed under the derivations, whatever the series of snapshots; cycles do not support themselves |
| Confidence, Layer B (`core/confidence.py`) | the iterate of one call | `valuate` under the Gödel or the Viterbi semiring | least fixpoint over exactly what Layer A certifies, within its iteration bound |
| Composed loop (`core/composed_loop.py`) | trajectory, seen keys, counter | `stabilize` | converged / oscillating / diverged is what happened; it ends |
| QBAF (`core/qbaf.py`, `core/qbaf_adapter.py`) | acceptabilities | `solve`, `classify_state`, `assemble_baf`, `persist_verdicts` | exact on acyclic frameworks, unsettled regions surfaced, evidence pushes its own way |
| Ensemble gate (`core/ensemble_gate.py`) | none | `authorise` | no refutation acts without every required channel, any dissent vetoes |
| Derivation adapter, revision loop (`core/derivation_adapter.py`, `core/revision_loop.py`) | node rows (`valid_to`, confidence, state, hold), edges, boxes; one plan per run | load, retract → A → B → QBAF, commit | only genuine fixpoints are committed, nothing flips unauthorised, the store equals what a fresh load would compute |
| Propositionizer, reuse, extract (`core/proposition.py`, `core/reuse.py`, `core/extract.py`) | propositions, append-only Action log, Facts, runs in progress | filter, infer, verify, persist, replay, backfill; Fact extraction | one generation of propositions per span, nothing extracted twice, a verify identity never overstates, Facts keep their source |
| Jobs and API (`jobs/app.py`, `api/main.py`) | the queue, committed documents | enqueue, ingest, chain, propositionize, retry | one job per document at a time, bounded retries, every ingested document is extracted or visibly failed |
| Ingest, re-embedding, seal (`core/ingest.py`, `core/reembed.py`, `core/reference_corpus.py`) | text, parse and segment Actions, the vector of each span and proposition with its model, seals | parse → segment → embed → persist, migrate, seal | spans match the stored text, a segmented document never changes, a seal implies its spans, a migration reports no false convergence |
| Edges (`core/candidates.py`, `core/edge_judge.py`, `core/edge_producer.py`, `core/quarantine.py`) | evidential edges, provisional reasons; per session the pairs, reasons and judgments it holds | `produce`, `corroborate`: candidates → node read → reason read → panel → quarantine → commit | high stakes never rest on evidence that was provisional throughout the run |
| Contradiction (`core/find_contradiction.py`, `core/symbolic_gate.py`) | the gate's report, the loaded graph, pending refutations | corroborate → symbolic channel → authorise → revise → envelope | a flip needs a vetted panel of this run; the symbolic channel blames only a clash the refuters bring |
| Derive (`core/derive.py`) | derived groups, valued drafts | load and value, then write | the stored confidence is what a fresh load gives |
| Entities (`core/resolve.py`, `core/component_aggregate.py`, `core/anchor.py`) | SAME_AS and ANCHORS_TO edges, what a pass has loaded | resolve, merge, split, aggregate, anchor | merging pools each Fact once, splitting undoes it, one representative per entity, no confirmation by name alone |
| Part and whole (`core/partwhole.py`) | directPartOf, partOf, induce Actions | induce, rebuild the closure, read a level | the roll-up is a DAG, parts read deeper than wholes |
| References (`core/reference.py`) | REFERS_TO edges, provisional reasons | bind, beside the verify-backfill | an open reference stays flagged |
| Boxes, domain packs (`boxes/`, `domain/`) | boxes, loaded packs | create, deprecate, load | deprecation removes exactly the box's nodes from reasoning; a loaded pack is acyclic |
| Segmentation (`core/segmentation.py`) | none | similarities → smoothing → valleys → `segment_dp` per level | a best tiling in segments that fit |
| Self-consistency (`core/consistency.py`, `_infer_span`) | the samples that have answered | sample, cluster within sign and class, medoid, agreement, polarity twins | one proposition per claim, sign and class, however the samples are ordered |

Parsing, embeddings, the LLM and verifier clients, the graph
access layer, the node and edge types, provenance reports, baselines, trials,
scripts and migrations complete the list; `PROJECT.json` says for each what is
seen of it and why the rest is left out.

### How the parts interact

An HTTP request enqueues an ingest job; the job commits the spans and chains
the extraction job. The propositionizer writes propositions and Actions in one
transaction per span, with LLM calls between the transactions. `extract` turns
propositions into Facts. Edge production adds SUPPORTS / REFUTES edges between
Facts and hypotheses, the derive operator adds DERIVED_FROM groups; the
resolver, a reviewer, the linker, the inducer and the binder write identity,
taxonomy, part-whole and reference edges over the same Facts. find-contradiction
runs the producer, the gate and the revision loop in a row, each with its own
transaction. The revision loop loads the active subgraph once, runs Layer A, Layer B, the QBAF
and the gate in memory under `stabilize`, and commits in a single transaction.
All of these share the store; only the job queue's box lock serialises any of
them.

### What is hard

* long series of insertions and deletions over cyclic derivations (counters);
* iteration bounds at the exact step they are used up;
* state read before an LLM call and relied upon after it (dependents check,
  idempotency filter, plan of a revision run);
* partial failure inside a document, and a crash between two spans;
* repeated runs under a changed pipeline, verifier, policy or gate report;
* operators whose load and write are separate transactions, beside one another
  (resolve and split, two inducers, binder and verifier, derive and revise);
* edges that are only ever added over a relation that changes;
* retries, chained jobs and dead workers on one queue;
* rival ingests of one document, and a migration that embeds for minutes
  between its read and its write.

`PROJECT.json` lists each of these at the line where it bites.

## 2. Modules and code

| Module | Models | Notes |
|---|---|---|
| `WellFounded` | `Derivation`, `DerivationGraph`, meaning of "supported" | least closed set, declaratively |
| `SupportOracle` | the `SupportOracle` protocol | abstract specification: each call answers with the least closed set |
| `IncrementalOracle` | `IncrementalOracle` | one action per stack pop (`OverDelete`), queue pop (`Cascade`) and phase (`Apply`, `Rederive`, `Insert`, `Return`) |
| `RecomputeOracle` | `well_founded_support` | one action per work-list delivery |
| `OracleProofs` | | proofs about the four modules above and `Stabilize` |
| `Valuation` | semirings and equations of `valuate` | used by `Confidence` and `RevisionLoop` |
| `Confidence` | the loop of `valuate` | one action per Jacobi round |
| `Stabilize` | `stabilize` | the step function is a variable chosen in `StabilizeInit`; proved about in `OracleProofs` |
| `Qbaf` | `qbaf.py` | pure operators on scaled integers; proved about in `RevisionLoopProofs` |
| `Adjudication` | `QbafAdapter.evaluate` over changing evidence | every change is followed by a full solve; proved about in `RevisionLoopProofs` |
| `EnsembleGate` | `authorise` with `DEFAULT_GATE` | |
| `RevisionLoop`, `RevisionLoopProofs` | derivation adapter, QBAF adapter, revision loop, `deprecate_box`, `derive` | composes `Valuation`, `Qbaf`, `EnsembleGate` and an instance of `Stabilize`; a draft is a derive call between its valuation and its write; the proofs cover `valuate` and the adjudication too |
| `Candidates` | `candidates.py` | pure: structural pairs, nearest neighbours in memory and pushed down, the funnel |
| `EdgeJudge` | the tally of `edge_judge.py`, the read-off of `subjective_logic.py` | pure |
| `EdgeProducer` | `edge_producer.py`, `quarantine.py` | one action per read, one for judge-plan-commit, since its writes are one transaction |
| `SymbolicGate` | `symbolic_gate.py` and the claim keys of `find_contradiction.py` | pure |
| `FindContradiction`, `FindContradictionProofs` | `FindContradiction.run` | extends `EdgeProducer` by the gate, the load and the revision |
| `PartOrder` | closures of `partwhole.py` and `pack.py` | pure |
| `Referents` | the lexical cascades of `reference.py` and `anchor.py` | pure, scores in twelfths of a percent |
| `Resolution` | blocking, scoring and components of `resolve.py` | pure |
| `CaseStore` | Facts with their entities, retraction, packs | what the operators of a case box share |
| `Identity` | `resolve_box`, `merge`, `split`, `aggregate`, `anchor_box` | a pass is a load and a later write |
| `PartWhole` | `induce_box` | one action per read and per transaction |
| `ReferenceBinding` | `bind_box` beside `_verify_backfill_span` | one transaction per proposition |
| `CaseBox`, `CaseBoxProofs` | `Identity`, `PartWhole` and `ReferenceBinding` over `CaseStore` | `crew` says which operators work in a behaviour |
| `Propositionizer`, `PropositionizerProofs` | `propositionize_document`, reuse, `Extractor` | one action per transaction |
| `Ingest`, `IngestProofs` | `ingest.py`, `reembed.py`, the seal of `reference_corpus.py`, the vectors of `proposition.py` | one action per transaction of a migration; an ingest reads the guards at `Upsert` and writes at `Commit` |
| `JobQueue`, `JobQueueProofs` | jobs, API enqueue | procrastinate is external, modelled from its use |
| `Segmentation` | `segmentation.py` | one action, the call; the program's own recursion as functions; proved about in `IngestProofs` |
| `Consistency` | `consistency.py` and the sampling of `_infer_span` | one action per answer, one for the consolidation; proved about in `PropositionizerProofs` |
| `Counting` | | lemmas on numbers, iterations, folds and sums, and finite sets that several proof modules use |
| `MC*` | instances for TLC; `MCKernels` has five kernels, `Stabilize`, `Confidence`, `Adjudication`, `Segmentation` and `Consistency`, of which a behaviour runs one | |

Operators named like `AffectedThroughout` or `FromNext` that stand directly
before the definition they vary are deliberate mistakes. Each property of a
passing run is shown to fail when one of them takes the place of the definition
after it; nothing else uses them.

### Abstractions

* Confidences and strengths are levels of a finite scale. Gödel (min / max) is
  closed on any finite chain, so nothing is lost there. Viterbi levels are
  powers of two, and the scale is deep enough that no product of the instance
  truncates. DF-QuAD products round down to a unit, as floating point rounds to
  its own, so the order of the contributions matters: they are joined in the
  order of `edge_key`, an id being a number (`Id`) in the order of its text. The
  convergence tolerance is below a unit.
* A deque or a stack is a set popped in any order: the code's order is one of
  those.
* A faithfulness score is the identity of the verifier that gave it, a content
  hash is what it digests, a proposition is its span, generation and claim.
* An LLM or verifier call is a choice of its answer, or an isolated failure.
* In `Ingest` a text is a name, the segmenter a function `Cut` from texts to
  ranges per level, an embedding pass the model and the text it was made from.
  Sessions read committed data; the upsert of `document_content` blocks a rival
  of the same document until the transaction ends. `Abort` is a death or an
  exception anywhere inside it.
* A label is the set of its tokens; ids are numbers in the order of their text,
  so "the first" is a minimum and a later mention may bring a smaller id. The
  mentions, relations and claims a detector or extractor finds are chosen from
  the sets an instance gives.
* Embeddings are points with a similarity that an instance defines; an edge's
  strength is the projected opinion of its tally, in tenths.
* In `Segmentation` a vector has one dimension, -1 or 1 and 0 without a token,
  so cosines and norms are exact; scores are in fiftieths, of which the default
  weights are multiples. Floating-point ties between tilings are out of sight.
* The history variables (`vetted`, `last`, `raced`, `retyped`, `closed`,
  `synced`, the `fresh` of a draft) guard nothing.
* In `FindContradiction` the hypotheses do not bear on one another, so the
  default policy is at its fixpoint after one retraction; the loop itself is
  `RevisionLoop`'s subject.
* In `RevisionLoop` Layer A is the contract that both oracles are proved to
  implement, and Layer B is the fixpoint that `Confidence` shows `valuate`
  returns.

## 3. Runs

| Run | Question | Instance |
|---|---|---|
| `incremental` | Does Counting with Delete/Rederive answer every series of snapshots with the least fixpoint, with exact counts, and return? | 3 nodes, 4 rules: a cycle through a conjunctive body, an alternative ground, an axiom. All 128 graphs, every pair of them as retained and requested snapshot |
| `kernels` | Are the outcomes of `stabilize` told apart, also at the bound, and does it end? Does the Layer B ascent return the least fixpoint within its bound, under both semirings? Is the sweep exact on acyclic frameworks and honest on cyclic ones? Does evidence push its own way, added or taken away? Does the segmenter find a best tiling? Is each claim consolidated once, with the agreement its samples gave it? | every function on five states from every state, a key that merges two of them, bound 3; the rules of `incremental` with all graphs and three levels of evidence and strength on a scale of six; 3 arguments, 5 edges, each as support and attack, all frameworks, base scores 0, 1/2, 1; all texts of 0, 1, 3, 6 and 7 sentences with and without a dense one, two policies of two levels; 3 samples of up to two of 5 statements |
| `revision` | Does the loop commit only authorised fixpoints that a fresh load reproduces? Does a retraction withdraw, in the commit that makes it, what rests on the retracted node? | 2 facts, a conclusion on both, one still to be derived, 2 hypotheses, evidential cycle, 2 boxes, eight callers: the default policy with six gate reports, a reviving one, and one that retracts supporting facts, so that a fact falls, with it the conclusion on both facts and what was derived from that |
| `contradiction` | Does what is written with high stakes, and what retracts a hypothesis, rest on evidence vetted in that run? Is the symbolic channel's clash attributable? | 3 pieces of evidence with 4 claims, 1 hypothesis, a find-contradiction and a producer session, both nearest-neighbour paths, 2 runs, 1 change of another session |
| `case_box` | Do identity, part-whole and reference operators keep their promises beside extraction, retraction, packs and each other? | 3 statements with 6 entities, ids out of order, a missing type, a cyclic and a retyped relation, 4 packs (two contents under one version, one cyclic); crews resolver and reviewer, reviewer and linker, inducer, binder |
| `propositions` | Does a document stay coherent through changing pipelines and verifiers, failures and crashes? Is a shared passage extracted once, and do Facts keep their source without cascade? | two deployments: one cascades (1 span, 2 verifiers, 2 claims), one reuses (3 spans in 2 documents, 2 of them one passage); 2 pipelines, 3 runs |
| `jobs` | One job per document at a time; does every job end; is every ingested document extracted? | 3 documents in 2 boxes, 2 submissions (4 jobs with the chained ones), 3 attempts, one dead worker |
| `ingest` | Do text, spans, Actions, seals and vectors stay consistent through rival ingests, re-renders, deaths and a migration? | 2 workers, 2 documents, 2 inputs, an exact and an OCR parser (3 texts), 2 levels, 2 models, 1 reference box, 3 ingests or extractions, 2 migrations, 2 propositions |
| `revision_retract_fact` | finding 1 | as `revision`, a policy that retracts supporting facts |
| `proposition_unassessed` | finding 2 | two documents with one passage, one verifier that is off in one run |
| `proposition_orphan` | finding 3 | cascade on, a Fact extracted during a run |
| `split_separates` | finding 4 | as `case_box` |

**Bounds.** The oracles keep no state but the retained snapshot, so every pair
of snapshots covers every step of a longer series; the proofs remove the bound
on nodes and rules. `stabilize` with bound 3 visits at most four keys, and the
instance has four, so convergence, oscillation of every period, and divergence
all occur on and before the last iteration. `MaxSweeps = 3` in the adjudication
of `kernels` is just enough for an acyclic framework of three arguments, so the
last permitted sweep matters, and cyclic frameworks use it up. Six sentences
are the least with a valley, and levels of two or three sentences force cuts
before, between and after it. Three samples are the least in which a claim can
have one, some or all of them; two statements let one repeat or contradict
itself, and the chain of three vectors has a middle that is like both ends.
Three propositionizer runs are the least in which a span is extracted,
re-extracted and then looked at again. Two external submissions are the least
in which a job meets a rival for its document, its lock or its place in the
queue. In `contradiction`, the panel is unanimous either way or split
with a refuting majority; a tie and an irrelevant plurality are in `EdgeJudge`
and in the theorems, which hold for any set of tallies, but not in the instance.
Two runs are a rival pair or a run and its repetition after a crash, and one change between two reads is the least that
makes a read stale. In `case_box`, `MaxPasses = 2` lets a pass load before and
write after a review, or a second pass follow it; `MaxRevisions = 2` is a merge
and its split; two inductions overlap, or one dies and the other starts again,
and likewise the bindings; one verification suffices to race a binding.
Operators that share no state (say resolver and inducer) are in different
crews, which loses no interleaving that matters. In `ingest`, three runs are a
rival pair and an ingest or extraction after it; two migrations are one that
dies and one that resumes, or one there and one back; one range has no token
under the second model, and one text has no coarse level.

**Deadlock** is checked where the system never stops (`incremental`,
`revision`). The others describe calls that return or a bounded number of runs,
passes or jobs.

**Symmetry** is used only for invariants and action properties: pipelines,
verifiers and claims of the propositionizer, workers and documents of ingest
are interchangeable.

**Fairness.** `apply`, `well_founded_support`, `valuate` and `stabilize` are
synchronous loops: once called they run on, so their steps are weakly fair;
nobody is obliged to call them. `StabilizeTerminates` and `ApplyReturns` use
nothing else. For the jobs, `WF(Work)` says that workers keep
polling: while some job can move, one does. A dead worker keeps its job and its
lock (the code configures no recovery of stalled jobs), so the liveness
properties of `jobs` are claimed only while no worker has died.

## 4. Proofs

All theorems are for every value of the constants that meets the assumptions
named in the modules; a run whose instance violated one would not start. Each
invariant that needs strengthening is broken into named parts, and every proof
that a step preserves it has one case per action.

**`OracleProofs`.** First the lemmas about the least closed set: the
well-founded support is closed, least and monotone. The only assumption is that
nodes and rules are finite sets and rules are derivations over the nodes.

Of the incremental engine: `TypeCorrect`, `AnswersCorrect`, `CountsCorrect`,
`CountersCorrect`, `ImplementsSupportOracle`. None of the properties is
inductive alone. The invariant adds, per phase of `apply`: which graph the
registered facts and derivations stand for (`PhaseInv`); that what a delivered
body grounds is supported (`CompleteInv`); that outside the over-deletion
nothing is supported beyond the least fixpoint, while during it everything kept
is founded once the suspects (the stack and the torn-down nodes) are taken for
granted, and no supported conclusion of a rule that uses a torn-down node
escapes suspicion (`SoundInv`); and that counts are exact except for the
suspects (`CountInv`). Soundness after a deletion is the heart of it: the
survivors of the over-deletion do not use a torn-down node, so they are closed
under derivability without it, and a cycle that lost its last outside ground is
torn down as a whole. `Settled` states (empty work list) then have a closed and
sound supported set, hence the least one.

`CallsRunOut` is the safety half of `ApplyReturns`: each step of a call finishes
a phase, tears down a node that was not torn down (`StackIsFresh`), or delivers
one, which costs more than the nodes it newly supports bring, so a cycle cannot
keep a call going.

Of the from-scratch evaluation, through an instance `Full` with variables of
its own: `RecomputeTypeCorrect`, `EvaluationSound`, `RecomputeImplements`, from
"a rule's counter is what of its body has not been delivered" and "marked nodes
are supported". Together: the two oracles are interchangeable behind the
protocol. TLC has no run of its own for `RecomputeOracle`.

Of `stabilize`, for every set of states, step function, key and bound of at
least 1: `StabilizeTypeCorrect`, `OutcomeCorrect`. The strengthening says that
while the loop runs the trajectory is one longer than the counter, the bound is
not used up and no cycle is recorded. A recorded cycle is then a suffix of an
orbit with distinct keys, of length at least two because the new key differs
from the last.

**`RevisionLoopProofs`** has four parts.

*valuate*, as `Confidence` runs it: `ValuateTypeCorrect`,
`ValuateIsLeastFixpoint`, `LayersAgree`, for both semirings, every graph and
any evidence that is levels (`EvidenceIsLevels`). The lemmas go bottom up: what
the fold over a body is worth, that a contribution grows with its premises,
that a round is monotone, and that the pointwise least of all closed
assignments is closed and hence a fixpoint (`LeastExists`, `LeastIsFixed`). The
bound of the loop needs a counting argument (`Ascent`): an iterate never passes
the least solution, and every round settles at least one more node. Were a
round to settle none, lowering the best of the open nodes by one level would
leave the assignment closed, for what could hold such a node up is settled
already. So the bound `len(nodes) + 2` is never used up. `LayersAgree` is
Goedel's alone: a body is worth its weakest member (`GodelBodyIsWeakest`),
which is why the cut at a level commutes with the fixpoint. The same lemmas say
that the recursive `valuate` that the revision loop calls is this least
solution (`ValuateIsLeast`).

*The adjudication*: `SolveIsExactOrSaysSo`, `StrengthsStayInRange`, for every
finite framework, any scale and any bound of at least one sweep, from
`FrameworksAreWeighted` (edges are between the arguments, weights and scores in
[0, 1], ids are numbers and name one argument). The lowest of `k` layers stands from the start, and a sweep that finds
the layers below settled settles the next, since an argument looks only at its
sources (`LayersSettle`); the `k`-th sweep sees that nothing moves. An acyclic
framework has one fixpoint (`OneStands`), which is therefore where a sweep that
stops earlier has stopped too, and what the recursive `StructuralStrength` is.
For the range: a rounded product is at most either factor and no more than a
unit below what both lack, so a noisy-or stays within [0, 1].

`EvidencePushes`: unless the evidence is cyclic, a support never lowers the
argument it bears on, an attack never raises it, a higher score never lowers
it, and taking one away does the opposite, however many sweeps are run. A join
with a larger aggregate is no smaller after rounding either (`JoinedGrows`).
So inserting one edge anywhere into the order lets the aggregate grow
(`AggregateGrowsByOne`): up to that edge the two folds agree, the edge adds to
the one, and every later join keeps the difference or loses it to rounding, but
never turns it round. With two orders to choose from this would be false, which
is why the order of `edge_key` is in the model. The verdict grows with the
score and the support and falls with the attack (`CombinedGrows`); and what the
edge's target is not a source of, which in an acyclic framework includes its
own sources, has the same strength in either framework after every sweep
(`SweepsAgreeBelow`).

*The revision loop.* Here `valuate` and `solve` stay uninterpreted: the results
rest on the loop, the gate, the policies and the commit, and hold whatever is
computed. `LoopInv` says that a running loop stands at the last state it
recorded, that a run which retracts anything has an authorising report, and that
a converged run stands at a fixpoint of the whole step.
* `RefutationIsAuthorised`: no hypothesis becomes refuted or leaves the store
  unless every required channel agreed and none dissented.
* `CommitsAreFixpoints`: what a run writes comes from a state the step
  reproduces.
* `DefaultConverges`: the default policy converges if the iteration bound
  exceeds the number of hypotheses. `GrowthInv`: every iteration has added a
  hypothesis, so none can repeat a state. The hypothesis is needed; section 6
  says what the code does about it.

*What a run leaves in the store.* `StoreAgreesWithLoad`: as long as only the
loop and derivations drafted on the current store touch it after the load, the
stored confidences and verdicts are those that an independent load computes,
held refutations being flagged. The property itself leaves out the loads that
lost an antecedent (finding 1). The theorem's hypotheses: `PremisesStand` (premises exist
from the start and are no hypotheses, so a conclusion drawn in the same
behaviour is not yet a premise of another one), no policy that retracts
supporters, and `FreshConclusions`, since `derive` mints a random id
for its conclusion (`core/derive.py:296`). This part does rest on Layer B and on
the adjudication:
* Two graphs that agree on a part which takes no premise from outside value that
  part alike (`SharedLayerB`), also if the evidence of a fact is replaced by
  what Layer B made of it, as the write-back does. It needs only that `valuate`
  is the least solution: the one graph's, cut to the part, bounds the other's.
* Two frameworks with the same edges, the second with further arguments that no
  edge touches, have the same verdicts (`SameVerdicts`): sweep by sweep, one
  agrees with the other on the common arguments, whether `solve` settles or not.
* So neither the nodes a run retracted, which are hypotheses and no premises, nor
  the conclusions written while it ran, on which nothing rests yet, change what
  the rest is worth (`RunValues`, `CommitValues`, `CommitVerdicts`), and a draft
  that is still fresh holds what its conclusion is worth once it is written
  (`DraftValueInv`, `WriteValues`). `SyncInv` carries this through the steps:
  during a run the plan is what was loaded, but for those conclusions. That the
  state of the run is a fixpoint is not needed: any state whose verdicts and
  retractions are committed together leaves such a store.

*What a retraction withdraws.* `WhatIsRetractedGroundsNothing`: what a run
writes back with any confidence is supported without the nodes it retracted and
without every derivation that concludes or rests on one of them, for every graph
and every policy, also one that retracts facts. `ValuedInv` types what a run or
a derive call has loaded, where a group may have been read with a shrunk body;
what Layer A does not certify is then worth nothing (`LoadsAreValued`). The
point is `CertifiedStands`: bodies stay verbatim in memory, so what Layer A
certifies without the retracted nodes needs no derivation that touches one. The
theorem speaks of the bodies a run has loaded; of the bodies as they were
written the same is false from the next load on, which is finding 1.

**`PropositionizerProofs`.** Four of the seven theorems have the hypothesis
`[]RunsApart`, runs at work at one time share no span. That is what the box
lock of the job queue gives (`ConcurrencyContract` below); without it two runs
extract one span twice (section 6).
* `GenerationsDoNotMix`, `ExtractionIsNotRepeated`: the propositions of a span
  are of one generation, and no pipeline extracts a span again that its newest
  extraction covers. The invariant relates memory to the store: a run that is
  to write a span knows whether there is something to purge, and the newest
  extraction is of another pipeline (`PendingOf`); what is done is of its own
  (`DoneOf`); a waiting backfill holds the span's live propositions
  (`LoadedOf`). The newest Action exists because the log is finite.
* `IdentityDoesNotOverstate`, `ReportsTellWhatWasDone`: without reuse, a verify
  identity means that verifier assessed every live proposition, and a run that
  reports itself clean has its verifier behind all of them. An extraction is unsigned, and
  no earlier verification covers a later generation because generations are
  numbered by the span's extractions (`ScoreInv`). With reuse, finding 2 is the
  counterexample.
* `FactsKeepTheirProposition`, for any overlap of runs: where stale spans are
  refused nothing is ever purged (`StandingInv`). With cascade, finding 3 is
  the counterexample.
* `ExtractionsAgree`: with reuse, all extractions of one passage by one
  pipeline have the same claims. It needs the stronger `[]PassagesApart`, as
  two spans with one passage, both waiting for inference, are both inferred
  (section 6), and a deployment that does not cascade. What waits for the
  extractor is extracted nowhere, and what is to be replayed has the claims of
  every extraction under its hash (`CachedInv`).
* `SamplesAreConsolidated`, about `Consistency`: for any number of samples,
  answers and order of arrival, no candidate is lost, counted twice or put with
  one of another sign or class, and where claims do not blur into one another
  (likeness is transitive) each becomes one proposition with the agreement its
  samples gave it. From `SamplesAreLists` (there is a sample, an answer is a
  list) and `SimilarityIsCosine` (symmetric, and a vector is like itself).
  Candidates are ordered by sample and position, so every one of them has one
  opener, itself its own (`OpenersExist`, `OpenersOpen`), and clusters partition
  them. Alike candidates have alike openers, of which the earlier would have
  taken in the later, so they are the same (`AlikeAreTogether`).

**`JobQueueProofs`**: the retry budget, and the concurrency contract under the
hypothesis `OneNamedBox` that each document is only submitted under one named
box. The invariant: an active job has an attempt left and a box of its
document, and no lock is held twice. Without the hypothesis the contract fails
(section 6). The safety halves of the two liveness properties are proved as well,
without fairness and for every number of jobs, attempts and crashes:
* `NoExtractionIsLost`: once its ingest succeeded a document has been extracted,
  has an extraction that failed for good, or has a job that is still going to
  extract it, unless a worker died. The invariant `PursuitInv` ties a job that
  is past its commit to the document's spans, and one that is past its chaining
  to a pursuer: a waiting extraction the chain skipped for will find the spans.
* `WorkersNeverStall`: while a job has not ended and no worker died, the guard of
  some step of the workers holds, since a lock is held by a job that can move.
* `RetriesRunOut`, `IngestChainsOnce`: every such step uses up one of at most
  four steps per attempt that its job has left and takes none back from another;
  and there are never more than two jobs for each one submitted, because a job
  that has chained is never retried (`ChainsOnce`).

**`IngestProofs`**, for every number of workers, documents and models and every
segmenter: `TypeCorrect`, `OffsetsPointIntoTheText`, `DocumentsAreImmutable`,
`SealsAreKept`, `ReportsAreTrue`, from `NullIsNothing` (no text and no hash is
None) and `PipelineIsTyped` (every text has a finest level). The invariant says
that a segmented document's Actions name its stored text and parse at exactly
the levels the segmenter makes of that text, that rows are cut from it, and
what a running migration still owes. Its use: a persist that no guard refused
finds a segmented document exactly as it would have made it, so the rival that
comes second changes nothing. A migration owes a row only while the row's
document is on its list, and a proposition only while its id is.

`SegmentsAreTheBest` is about `Segmentation`: for every text and every policy,
each level tiles the text in segments that fit, no tiling over the candidate
boundaries scores higher, and every candidate is a boundary. The assumptions say
what a text and a level are (`TextsAreTexts`, `LevelsAreLevels`). The argument
is that joining two neighbouring segments never scores more: the norm of a sum
is at most the sum of the norms, and a penalty with exponent 1 is linear in the
length. So the nearest candidate is always a best predecessor. Only that
inequality is used of the vectors, and it holds in any dimension.

**`CaseBoxProofs`**: seven theorems about the operators that share a case box,
for every crew. The assumptions are those of `CaseStore` and `Identity`, each
with its ground in the code: rows and taxonomies are finite; ids are ordered
and name one node (an entity's id is random, `core/extract.py:322`; a taxonomy
node's is hashed from its box and key, `domain/pack.py:229`); a pack's
relations are between its own nodes (`domain/pack.py:189`); a faithfulness is a
number; a review is of two entities.
* `OpenReferencesFlagged`: a reference is flagged in the transaction that binds
  it; afterwards only the backfill writes reasons, and from a read that is
  still true it keeps every reason off its own axis (`ReferenceInv`). The flag
  survives everything but the race that `raced` records (section 6).
* `ConfirmationNeedsRelation`: a pair the resolver itself confirms has one
  label, one stated type and a common neighbour or role, also when the pass
  that writes it loaded long before (`RelationInv`).
* `EveryEntityHasOneRepresentative`: components are disjoint, cover every
  entity and have distinct representatives, whichever target a read keeps for
  an entity with two anchors.
* `MergesPoolEvidence`, `OverMergingIsRecoverable`: the evidence is a function
  of the Facts and the open confirmed pairs. After a fresh merge the evidence
  recorded before it is the function's value without the merged pair (`Episode`,
  `MergeEpisode`); the merge joins two classes into their union, the split
  removes exactly that pair.
* `RollupsAreAcyclic`: partOf is a union of closures of acyclic sets, which
  alone proves nothing. The point is that the safe edges only grow, so the
  reads that closures were built from, with those still to be written, form a
  chain (`ClosureInv`); its largest member contains every path.
* `PartsAreDeeper`: a part reads at a greater depth than its whole, by the
  longest path in an acyclic relation; loaded packs are acyclic and share no
  node (`PacksInv`).

`Above` and `Classes` are recursive functions. They are unfolded by an
existence lemma for iterations (`IterationExists` of `Counting`), proved by the
least counterexample, since induction schemas are out of reach.

**`FindContradictionProofs`**: `WritesRestOnVettedEvidence`,
`RetractionRestsOnVettedPanel` and `AffirmedClashIsTheRefuters`, for every
number of sessions, from `ProducerInstance` (evidence and hypotheses are
disjoint). The invariant says of a session that once it has read the reasons,
evidence outside them has been seen without any, that an affirming report of
the panel stands for a written refutation on which all samples agreed, and that
an affirming symbolic channel stands for a consistent base, a clash that
involves a refuter's claim and a claim both sides make. That a lone written
supporter was judged with high stakes needs an argument of its own: had the
panel left two, both would be low-stakes, so both would have been written. The
candidates pair evidence with hypotheses in every stage of the funnel. How
claims are clustered stays uninterpreted.

**Model-checked only**: liveness (`ApplyReturns`, `StabilizeTerminates`,
`EveryJobEnds`, `IngestedIsExtracted`). It needs fairness and ENABLED, which the
provers do not handle, and for the jobs an induction over all of them. What is
proved is that something can move where it must (the jobs) and that every move
uses something up: the theorems above for `apply` and the jobs, and for
`stabilize` the counter, which every step raises and `StabilizeTypeCorrect`
bounds.

## 5. Findings checked by a run

1. **A retracted antecedent makes its conclusion easier to derive**
   (`core/derivation_adapter.py:341`). The load requires the antecedent to be
   current, so the DERIVED_FROM group loses it and the conclusion is supported
   by the rest. The docstring says antecedents are kept verbatim for exactly
   this reason. In memory they are (`RetractionWithdraws` holds), across runs
   they are not, so `StoreMatchesFreshLoad` leaves out the states in which a
   derivation has lost an antecedent. The default policy retracts only
   hypotheses and does not meet the case in the instance; a policy that retracts
   facts does.
2. **A replay under no verifier stamps the source's identity**
   (`core/proposition.py:884`): its propositions are unassessed, and the next
   run under that verifier skips them as verified.
3. **A Fact loses its proposition** (`core/proposition.py:1416`): the
   dependents check runs before the LLM calls, the purge after them.
4. **A split pair is still one canonical entity** (`core/resolve.py:554`).
   `canonical_components` filters on the state of a SAME_AS edge and not on its
   `valid_to`, which is all `split` changes; the aggregation
   (`_load_components`) filters on both. `core/component_aggregate.py:244` says
   that after a split "the components separate again".

## 6. Divergences observed while modelling, without a run

* **Unsettled verdicts are committed** (`core/revision_loop.py:307`). The
  commit asks whether the outer loop converged, not whether the last solve did;
  two conclusions that refute each other with full strength never settle and
  their verdicts are written. `core/qbaf.py:219` wants an unresolved region
  "never smoothed into a false verdict".
* **Settled on the last sweep** (`core/qbaf.py:322`). A solve that reaches its
  fixpoint with the very last sweep it is allowed returns `converged=False` and
  an empty `unstable`: no sweep is left to see that nothing moves. `converged`
  is documented as "True always for an acyclic framework" (`core/qbaf.py:216`),
  which also fails for one with more layers than the bound has sweeps.
  `ExactOrSurfaced` therefore speaks of frameworks whose layers the bound
  covers, and ties `unstable`, not `converged`, to the fixpoint.
* **A hold survives retraction** (`core/revision_loop.py:375`). `_persist`
  writes verdicts of surviving hypotheses only; a hypothesis held in one run
  and retracted with authorisation in a later one keeps `pending_refutation`,
  while `core/qbaf_adapter.py:414` says a later authorised run lifts it.
* **The write-back reaches inactive nodes** (`core/revision_loop.py:393`). A
  governed base fact of a deprecated box is loaded, has no entry in the
  confidences and is written as 0; the comment speaks of active nodes.
* **Overlapping runs extract twice** (`core/proposition.py:1401`). The stored
  hash is read before inference and not again at the write. The `propositions`
  run has one worker for this reason; the box lock of the job queue is what
  keeps runs of one document apart.
* **No box, no lock** (`jobs/app.py:237`). `lock=box` is `None` without a box,
  and two jobs of one document may then run together, although the module
  docstring excludes it. `JobQueueProofs` states the hypothesis under which it
  holds.
* **A valley cuts one sentence early** (`core/segmentation.py:119`).
  Similarity `v` is that of sentences `v` and `v + 1`; `segment_dp` uses the
  same number as a boundary and cuts before `v`. `docs/architecture.md:103`
  wants the boundary at the minimum; the valley that
  `tests/unit/test_segmentation.py:89` hands to `segment_dp` is a boundary
  already, the lowest similarity of its embeddings having index 1 and not 2.
* **The penalty is no level knob** (`core/segmentation.py:180`). "a smaller
  `penalty_weight`, so `segment_dp` merges the *same* valley boundaries into
  larger segments": with exponent 1 the penalties of a tiling sum to the same
  whatever its segments are, and a whole is never more coherent than its parts,
  so every candidate is a boundary at every level (last part of
  `SegmentsAreOptimal`, proved for every text by `SegmentsAreTheBest`). Levels
  differ in the cuts that `max_len` forces.
* **The bound and "always converges"** (`core/revision_loop.py:124`). The
  default policy is said to converge because it is monotone. It does if the
  bound exceeds the number of hypotheses (`DefaultConverges`), but
  `DEFAULT_MAX_ITERATIONS` is 50 (`core/revision_loop.py:89`) whatever the
  graph: a chain of authorised refutations in which each retraction uncovers the next, 50 or
  more of them, is reported as diverged and no verdict is committed.
* **Two spans, one passage** (`core/proposition.py:1398`). The filter decides
  for all spans before any is written, so two spans of a document with the same
  passage are both inferred, although the first would be a cache hit for the
  second; their propositions may then differ.
* **Two first documents, two models** (`core/ingest.py:317`). Both transactions
  find the dense index empty and both commit; the docstring of
  `_global_embedding_model` calls the index "single-space by the G1.16 guard".
  An ingest that passed the guard before a migration and commits after it has
  the same effect, which is why `ReportedConverged` speaks of the rows that were
  there when the migration began.
* **Re-ingest after a migration is refused** (`core/reembed.py:9`). The header
  promises "a clean no-op", but the stored segment hash names the old model.
* **A re-rendered scan is refused** (`core/ingest.py:801`). The docstring calls
  a non-deterministic re-render of the same bytes "still a cache hit"; the
  parse hash is equal, the segment hash contains the text and is not.
* **The binder's flag can be lost** (`core/reference.py:806`). A verify-backfill
  that read the reasons before the binder's commit (`core/proposition.py:1200`,
  written back at 1244) overwrites `unresolved_reference`, although the binder
  unions "never clearing it". `OpenReferenceIsFlagged` leaves out exactly these
  propositions (`raced`).
* **A pair of provisional supporters** (`core/edge_producer.py:265`): each is
  low-stakes because of the other, and both are written.
* **A verdict of the other sign** (`core/edge_producer.py:716`) leaves the
  earlier edge in place; the two then adjudicate against each other.
* **The push-down is not a subset of the exact set** (`core/candidates.py:640`)
  when a hypothesis has several query vectors: each query has a limit of its
  own.
* **The clash may be among the refuters** (`core/symbolic_gate.py:238`).
  "hypothesis and refuter are mutually inconsistent" is also the answer when two
  refuters contradict each other on a claim the base does not make, provided one
  of them touches another claim of the base.
* **Fusion order** (`core/subjective_logic.py:312`): averaging is
  commutative but not associative, so "fold order does not affect the result" holds for cumulative
  fusion only.
* **The resolver overrides the reviewer** (`core/resolve.py:512`): a later pass
  re-asserts a split pair, or turns a manual merge back into a candidate, since
  it writes every edge it scores.
* **Two confirmed anchors** (`core/anchor.py:468`). "A confirmed anchor is
  single-target" fails after a pack is replaced: the anchor to the old node
  stays. `OneRepresentative` holds whichever of the two a read keeps.
* **Loading a deprecated pack again does not activate it**
  (`domain/loader.py`): the box is there, so the load is a no-op.
* **A retyped edge can close a cycle of partOf** (`core/partwhole.py:521`). The
  closure built from the earlier type stays; `RollupIsADag` leaves these
  behaviours out (`retyped`).
* **Nodes below a cycle** (`core/partwhole.py:153`) are excluded from the
  closure with those on it, though "whatever cannot be peeled sits on a cycle".
* **The canonical mention moves** (`core/partwhole.py:575`): a later mention
  with a smaller id becomes the entity's node, while the directPartOf and partOf
  edges stay at the earlier one; the entity then reads as a coarsest whole.
  `PartIsDeeper` speaks of ends that are still canonical.
* **Relations of a late proposition** (`core/partwhole.py:536`): one extracted
  between the read of the referents and that of the propositions is induced
  against referents that lack its own, and never again.
* **Two seals** (`core/ingest.py:874`). Two reference ingests of one document
  with the same content into different boxes both find no seal; both MEMBER_OF
  edges are written, though `core/reference_corpus.py:114` says at most one.

## 7. Not modelled

Tensor and layout arithmetic (embeddings, parsing), HTTP clients,
Cypher text and agtype parsing, schema migrations, report formatting, and the
evaluation harness (baselines, trials): pure data or pure I/O. The
quadratic-energy semantics of the QBAF needs real division. In
`Propositionizer` what `Consistency` consolidates appears as the claims an
extraction finds. Of partly modelled components `PROJECT.json` says which part is data.

## 8. Plan

Pure functions against reference definitions: window planner, span layouts.

Related questions share a run where their instances allow it.
