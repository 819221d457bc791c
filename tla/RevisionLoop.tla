---------------------------- MODULE RevisionLoop ----------------------------
(***************************************************************************)
(* The belief-revision loop (core/revision_loop.py) over the graph store:  *)
(* load the active subgraph once, iterate retract -> Layer A -> Layer B -> *)
(* QBAF -> gate in memory under stabilize, and commit only a fixpoint.     *)
(*                                                                         *)
(* One run is Load -> Iterate+ -> Commit.  Other sessions add evidence,    *)
(* deprecate boxes and derive conclusions (core/derive.py) at any time.    *)
(* Layer A is the contract of SupportOracle, Layer B the fixpoint of       *)
(* Confidence, the adjudication Qbaf's solve.                              *)
(***************************************************************************)
EXTENDS Valuation, Qbaf, EnsembleGate, Sequences

CONSTANTS
    Fact,          \* the nodes grounded by EVIDENCED_BY
    Hypothesis,    \* the nodes that get a verdict
    Strengths,     \* the strength of each DERIVED_FROM group of Rule
    Proposal,      \* the groups of Rule that are still to be derived
    EvidenceEdge,  \* the SUPPORTS / REFUTES edges judgments can add
    Box, BoxOf,    \* the owning box of each node
    Seed,          \* the confidence each node is created with
    Caller,        \* the policy a caller injects, what it asks the gate about
                   \* and the report the gate goes by
    MaxSteps       \* max_iterations of the run

ASSUME OneScale == Unit = One
Policy == {q.policy : q \in Caller}
ASSUME PoliciesAreKnown == Policy \subseteq {"default", "supporters", "reviving"}
\* stabilize raises a ValueError otherwise.
ASSUME StepsArePositive == MaxSteps \in Nat \ {0}
ASSUME GraphIsTyped ==
    /\ Fact \subseteq Node /\ Hypothesis \subseteq Node
    /\ Strengths \in [Rule -> Level] /\ Seed \in [Node -> Level] /\ BoxOf \in [Node -> Box]
    /\ Proposal \subseteq Rule
    /\ IsFiniteSet(EvidenceEdge) /\ \A n \in Node : Id(n) \in Nat
    /\ \A e \in EvidenceEdge : {e.source, e.target} \subseteq Node /\ e.strength \in Strength

VARIABLES
    current,        \* nodes whose valid_to is null
    confidence,     \* the stored confidence of a node
    hstate,         \* the stored state of a hypothesis
    acceptability,  \* the stored acceptability of a hypothesis
    pending,        \* hypotheses flagged pending_refutation
    activeBoxes,    \* boxes that are not deprecated
    edges,          \* the evidential edges of the store
    derived,        \* the DERIVED_FROM groups of the store
    drafts,         \* the valued, unwritten proposals of running derive calls
    plan,           \* the rows and the policies of the run
    trajectory, iterations, status, state, cycle,  \* stabilize's run
    pc,
    synced          \* history: has only the loop touched the store since its load?

store == <<current, confidence, hstate, acceptability, pending>>
loop == <<trajectory, iterations, status, state, cycle>>
deriving == <<derived, drafts>>
vars == <<store, activeBoxes, edges, deriving, plan, loop, pc, synced>>

-----------------------------------------------------------------------------
(* The loads: current rows only.  A DERIVED_FROM group is read edge by      *)
(* edge, so an antecedent that is no longer current is missing from the     *)
(* group, and a group without rows is not seen.                             *)

LoadedBody(d) == d.body \cap current
load_derived_rows ==
    {d \in derived : d.conclusion \in current /\ LoadedBody(d) # {}}
load_evidential_edges == {e \in edges : e.source \in current /\ e.target \in current}

\* The derivation a group is read as.
Reading(d) == [conclusion |-> d.conclusion, body |-> LoadedBody(d)]

\* Two groups with one reading share an entry of the strength map: the one
\* the loop over the rows meets last wins.
StrengthMaps ==
    LET readings == {Reading(d) : d \in load_derived_rows}
    IN  {m \in [readings -> Level] :
            \A r \in readings : \E d \in load_derived_rows : Reading(d) = r /\ m[r] = Strengths[d]}

-----------------------------------------------------------------------------
(* The pure step: adjudicate_at.                                            *)

\* assemble_subgraph: only nodes of active boxes; bodies are kept verbatim.
WithRetracted(p, retracted) == {n \in p.nodes : BoxOf[n] \in p.boxes}
ActiveIn(p, retracted) == {n \in p.nodes \ retracted : BoxOf[n] \in p.boxes}
assemble_subgraph(p, retracted) ==
    [base_facts  |-> p.base_fact_ids \cap ActiveIn(p, retracted),
     derivations |-> {d \in DOMAIN p.strength : d.conclusion \in ActiveIn(p, retracted)}]

\* support_and_confidence: Layer A certifies, Layer B scores.
LayerA(g) == WellFoundedSupport(g.base_facts, g.derivations)
LayerB(p, g) == valuate([graph |-> g, supported |-> LayerA(g),
                         base_confidence |-> p.confidence, strength |-> p.strength,
                         semiring |-> DEFAULT_SEMIRING])

\* _derivation_governed: what Layer A and B own.
governed(p) == p.base_fact_ids \cup {d.conclusion : d \in DOMAIN p.strength}

\* base_score: Layer B's value, zero for a governed node that lost its
\* grounding, the stored seed for any other.
base_score(p, conf, n) == IF n \in governed(p) THEN conf[n] ELSE p.confidence[n]

\* assemble_baf.
assemble_baf(p, retracted) ==
    LET args == ActiveIn(p, retracted)
        side(sign) == {[src |-> e.source, dst |-> e.target, strength |-> e.strength] :
                         e \in {x \in p.edges : x.sign = sign /\ {x.source, x.target} \subseteq args}}
    IN  [arguments |-> args, supports |-> side("supports"), attacks |-> side("refutes")]

\* adjudicate_at: the verdicts on the hypotheses that are still there.
adjudicate_at(p, retracted) ==
    LET conf   == LayerB(p, assemble_subgraph(p, retracted))
        baf    == assemble_baf(p, retracted)
        solved == solve(baf, [n \in baf.arguments |-> base_score(p, conf, n)])
    IN  [confidence |-> conf,
         acceptability |-> solved.acceptability,
         qbaf_converged |-> solved.converged,
         verdicts |-> [h \in Hypothesis \cap baf.arguments |-> StateOf(baf, solved.acceptability, h)]]

\* The gate's decision on h: none unless the caller asked about h.
Authorised(p, h) == h \in p.asked /\ authorise(p.report)
RefutedIn(snap) == {h \in DOMAIN snap.verdicts : snap.verdicts[h] = "refuted"}

\* retract_authorised_refuted, the default policy.
RetractNotAccumulating(p, snap, retracted) == {h \in RefutedIn(snap) : Authorised(p, h)}
retract_authorised_refuted(p, snap, retracted) ==
    retracted \cup {h \in RefutedIn(snap) : Authorised(p, h)}

\* Two policies callers inject: one retracts the facts that support what is
\* refuted, the other revives what is refuted no more.
RetractSupporters(p, snap, retracted) ==
    retracted \cup {e.source : e \in {x \in p.edges : /\ x.sign = "supports"
                                                      /\ x.source \in Fact
                                                      /\ x.target \in RefutedIn(snap)
                                                      /\ Authorised(p, x.target)}}
RetractWhileRefuted(p, snap, retracted) == {h \in RefutedIn(snap) : Authorised(p, h)}

\* _step.
Revise(p, retracted) ==
    LET snap == adjudicate_at(p, retracted)
    IN  CASE p.policy = "default"    -> retract_authorised_refuted(p, snap, retracted)
          [] p.policy = "supporters" -> RetractSupporters(p, snap, retracted)
          [] p.policy = "reviving"   -> RetractWhileRefuted(p, snap, retracted)

-----------------------------------------------------------------------------

Identity(r) == r
Loop == INSTANCE Stabilize WITH
            State <- SUBSET Node, Key <- Identity, MaxIterations <- MaxSteps,
            step <- [r \in SUBSET Node |-> Revise(plan, r)]

NoPlan == [nodes |-> {}]

\* The nodes that exist from the start.
Given == Node \ {d.conclusion : d \in Proposal}

Init ==
    /\ current = Given
    /\ confidence = Seed
    /\ hstate = [h \in Hypothesis |-> "none"]
    /\ acceptability = [h \in Hypothesis |-> 0]
    /\ pending = {}
    /\ activeBoxes = Box
    /\ edges = {}
    /\ derived = Rule \ Proposal
    /\ drafts = {}
    /\ plan = NoPlan
    /\ Loop!Start({})
    /\ pc = "idle"
    /\ synced = FALSE

\* A run starts from nothing retracted.
Restart ==
    /\ trajectory' = <<{}>> /\ iterations' = 0 /\ status' = "running"
    /\ state' = {} /\ cycle' = <<>>

\* RevisionLoop.run: the six loads; decide and revise are the caller's.
Load(policy, asked, report) ==
    /\ pc = "idle"
    /\ \E m \in StrengthMaps :
         plan' = [nodes |-> current, confidence |-> confidence, base_fact_ids |-> Fact \cap current,
                  strength |-> m, edges |-> load_evidential_edges, boxes |-> activeBoxes,
                  policy |-> policy, asked |-> asked, report |-> report]
    /\ Restart
    /\ pc' = "loop"
    /\ synced' = TRUE
    /\ UNCHANGED <<store, activeBoxes, edges, deriving>>

\* One iteration of stabilize.
Iterate ==
    /\ pc = "loop"
    /\ Loop!Iterate(Revise(plan, Loop!current))
    /\ pc' = IF status' = "running" THEN "loop" ELSE "commit"
    /\ UNCHANGED <<store, activeBoxes, edges, deriving, plan, synced>>

\* refutation_held.
refutation_held(p, h, verdict) == verdict = "refuted" /\ ~Authorised(p, h)

\* _load_state of a held hypothesis: its prior state, unsupported if none.
PriorState(h) == IF hstate[h] = "none" THEN "unsupported" ELSE hstate[h]

\* The nodes whose confidence is written back: every loaded governed node
\* that is not retracted.
WriteBackSupported(p, snap, retracted) == {n \in governed(p) : snap.confidence[n] > 0} \ retracted
WriteBack(p, snap, retracted) == (p.nodes \ retracted) \cap governed(p)

\* persist_verdicts: each write only touches rows that are still current.
persist_verdicts(snap) ==
    LET judged == DOMAIN snap.verdicts \cap current
        held   == {h \in judged : refutation_held(plan, h, snap.verdicts[h])}
    IN  /\ hstate' = [h \in Hypothesis |-> IF h \in held THEN PriorState(h)
                                           ELSE IF h \in judged THEN snap.verdicts[h]
                                           ELSE hstate[h]]
        /\ acceptability' = [h \in Hypothesis |-> IF h \in judged THEN snap.acceptability[h]
                                                  ELSE acceptability[h]]
        /\ pending' = (pending \ judged) \cup held

\* The verdicts, then the retractions, then the confidence write-back.
persist(snap, retracted) ==
    /\ persist_verdicts(snap)
    /\ current' = current \ retracted
    /\ confidence' = [n \in Node |-> IF n \in WriteBack(plan, snap, retracted) \cap current'
                                     THEN snap.confidence[n] ELSE confidence[n]]

\* Drafts whose load the store has moved past.
Outdated(ds) == {[draft EXCEPT !.fresh = FALSE] : draft \in ds}

\* The end of the run: on convergence the fixpoint is persisted, and
\* otherwise the run commits nothing but its log.
CommitAnyway == status # "running"
MayPersist == status = "converged"
Commit ==
    /\ pc = "commit"
    /\ IF MayPersist THEN persist(adjudicate_at(plan, state), state) ELSE UNCHANGED store
    /\ pc' = "idle"
    /\ plan' = NoPlan
    /\ Restart
    /\ synced' = (synced /\ MayPersist)
    /\ drafts' = IF store' = store THEN drafts ELSE Outdated(drafts)
    /\ UNCHANGED <<activeBoxes, edges, derived>>

\* Other sessions: the edge producer commits a judged edge between current
\* nodes, deprecate_box closes a box.
AddEvidence(e) ==
    /\ e \notin edges /\ {e.source, e.target} \subseteq current
    /\ edges' = edges \cup {e}
    /\ synced' = FALSE
    /\ UNCHANGED <<store, activeBoxes, deriving, plan, loop, pc>>

deprecate_box(b) ==
    /\ b \in activeBoxes
    /\ activeBoxes' = activeBoxes \ {b}
    /\ synced' = FALSE
    /\ drafts' = Outdated(drafts)
    /\ UNCHANGED <<store, edges, derived, plan, loop, pc>>

-----------------------------------------------------------------------------
(* Deriver.derive: load_active and value_conclusion, then the conclusion,   *)
(* its group and the Action in one transaction.                             *)

\* What load_active assembles now, for one of the possible strength maps.
ActiveSubgraph(m) ==
    [nodes |-> current, confidence |-> confidence, base_fact_ids |-> Fact \cap current,
     strength |-> m, boxes |-> activeBoxes]

\* value_conclusion: Layer A and B over the loaded graph and the proposal,
\* whole body included; an ungrounded conclusion is worth nothing.
value_conclusion(sub, d) ==
    LET g == assemble_subgraph(sub, {})
        augmented == [g EXCEPT !.derivations = @ \cup {d}]
    IN  IF d.conclusion \notin LayerA(augmented) THEN 0
        ELSE LayerB([sub EXCEPT !.strength =
                            [r \in DOMAIN @ \cup {d} |-> IF r = d THEN Strengths[d] ELSE @[r]]],
                     augmented)[d.conclusion]

DeriveLoad(d) ==
    /\ d \in Proposal \ derived
    /\ \A draft \in drafts : draft.proposal # d
    /\ \E m \in StrengthMaps :
         drafts' = drafts \cup {[proposal |-> d, confidence |-> value_conclusion(ActiveSubgraph(m), d),
                               fresh |-> TRUE]}
    /\ UNCHANGED <<store, activeBoxes, edges, derived, plan, loop, pc, synced>>

\* The write checks nothing about the premises.
DeriveWrite(draft) ==
    /\ derived' = derived \cup {draft.proposal}
    /\ current' = current \cup {draft.proposal.conclusion}
    /\ confidence' = [confidence EXCEPT ![draft.proposal.conclusion] = draft.confidence]
    /\ drafts' = Outdated(drafts \ {draft})
    /\ synced' = (synced /\ draft.fresh)
    /\ UNCHANGED <<hstate, acceptability, pending, activeBoxes, edges, plan, loop, pc>>

Next ==
    \/ Iterate
    \/ Commit
    \/ \E q \in Caller : Load(q.policy, q.asked, q.report)
    \/ \E e \in EvidenceEdge : AddEvidence(e)
    \/ \E b \in Box : deprecate_box(b)
    \/ \E d \in Proposal : DeriveLoad(d)
    \/ \E draft \in drafts : DeriveWrite(draft)

Spec == Init /\ [][Next]_vars

-----------------------------------------------------------------------------

TypeOK ==
    /\ current \in SUBSET Node
    /\ confidence \in [Node -> Level]
    /\ hstate \in [Hypothesis -> {"none", "supported", "unsupported", "refuted"}]
    /\ acceptability \in [Hypothesis -> Strength]
    /\ pending \in SUBSET Hypothesis
    /\ derived \in SUBSET Rule
    /\ drafts \subseteq [proposal : Proposal, confidence : Level, fresh : BOOLEAN]
    /\ activeBoxes \in SUBSET Box /\ edges \in SUBSET EvidenceEdge
    /\ trajectory \in Seq(SUBSET Node) /\ iterations \in 0 .. MaxSteps
    /\ status \in Loop!Stability \cup {"running"}
    /\ pc \in {"idle", "loop", "commit"}
    /\ synced \in BOOLEAN

\* The plans a run started now could load, with no decision from the gate.
FreshPlans ==
    {[nodes |-> current, confidence |-> confidence, base_fact_ids |-> Fact \cap current,
      strength |-> m, edges |-> load_evidential_edges, boxes |-> activeBoxes,
      policy |-> "default", asked |-> {}, report |-> <<>>] : m \in StrengthMaps}

\* Both required channels affirmed and no channel spoke against.
EnsembleAgreed(report) ==
    /\ \A c \in GateChannel : Stance(report, c) # "dissent"
    /\ Stance(report, "llm") = "affirm" /\ Stance(report, "symbolic") = "affirm"

\* No run marks a hypothesis refuted, and none retracts a node, unless the
\* ensemble it consulted agreed ("refuted is unreachable without an
\* authorising decision", refutation_held).
NothingFlipsUnauthorised ==
    [][((\E h \in Hypothesis : hstate'[h] = "refuted" /\ hstate[h] # "refuted")
          \/ current \ current' # {})
         => EnsembleAgreed(plan.report)]_vars

\* Whatever a run commits was computed at a genuine fixpoint of the whole
\* retract, re-ground, re-adjudicate step.
CommitsOnlyFixpoints ==
    [][(derived' = derived /\ store' # store) => Revise(plan, state) = state]_vars

\* The default policy always converges ("monotone -> always converges"),
\* even when evidential cycles keep the verdicts moving.
DefaultPolicyConverges ==
    (pc = "commit" /\ plan.policy = "default") => status = "converged"

\* What a run leaves in the store is what an independent load would compute:
\* the confidences of Layer B, and for every hypothesis either the verdict of
\* the adjudication or a held refutation flagged as such.  A load that lost an
\* antecedent to a retraction is left out: RetractedNeverGrounds is about it.
AntecedentsStand == \A d \in derived : d.body \subseteq current
StoreMatchesFreshLoad ==
    (pc = "idle" /\ synced /\ AntecedentsStand) =>
        \A p \in FreshPlans :
            LET snap == adjudicate_at(p, {})
            IN  /\ \A n \in governed(p) \cap ActiveIn(p, {}) : confidence[n] = snap.confidence[n]
                /\ \A h \in DOMAIN snap.verdicts :
                     IF snap.verdicts[h] = "refuted"
                     THEN h \in pending \/ hstate[h] = "refuted"
                     ELSE hstate[h] = snap.verdicts[h] /\ h \notin pending

\* A retraction withdraws what rests on it in the commit that makes it: what
\* a run writes back with any confidence stands without the nodes the run
\* retracted and without every derivation it loaded that concludes or takes as
\* a premise one of them ("a derivation resting on a retracted ... fact
\* correctly fails to fire", assemble_subgraph), along the whole chain.
RetractionWithdraws ==
    [][(derived' = derived /\ store' # store) =>
          \A n \in governed(plan) \cap current' :
              confidence'[n] > 0 =>
                  n \in WellFoundedSupport(
                          plan.base_fact_ids \ state,
                          {d \in DOMAIN plan.strength :
                              d.conclusion \notin state /\ d.body \cap state = {}})]_vars

\* The same of every later load: what it certifies is supported by the
\* derivations as they were written, whole bodies included.
RetractedNeverGrounds ==
    \A p \in FreshPlans :
        LayerA(assemble_subgraph(p, {})) \subseteq
            WellFoundedSupport(Fact \cap ActiveIn(p, {}),
                               {d \in derived : d.conclusion \in ActiveIn(p, {})})

=============================================================================
