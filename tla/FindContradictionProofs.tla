----------------------- MODULE FindContradictionProofs -----------------------
(***************************************************************************)
(* What a producer run may write, and what may retract a hypothesis, for   *)
(* every set of sessions, nodes, claims and panel tallies, every order of  *)
(* their steps and every change other sessions make in between.            *)
(***************************************************************************)
EXTENDS FindContradiction, FiniteSetTheorems, TLAPS

-----------------------------------------------------------------------------
(* Candidates pair evidence with hypotheses. *)

LEMMA KnnFindsEvidence ==
    ASSUME NEW hyps, NEW evs, NEW k, NEW c \in embedding_knn_candidates(hyps, evs, k)
    PROVE  c[1] \in NodesOf(evs)
<1>1. PICK h \in NodesOf(hyps) : c \in Nearest(hyps, evs, k, h) \X {h}
    BY DEF embedding_knn_candidates
<1>2. c[1] \in Nearest(hyps, evs, k, h)
    BY <1>1
<1>3. QED
    BY <1>2 DEF Nearest, Best, Comparable

LEMMA PushdownFindsEvidence ==
    ASSUME NEW hyps, NEW evs, NEW k, NEW c \in embedding_knn_pushdown(hyps, evs, k)
    PROVE  c[1] \in NodesOf(evs)
<1>1. PICK h \in NodesOf(hyps) : c \in NearestFound(hyps, evs, k, h) \X {h}
    BY DEF embedding_knn_pushdown
<1>2. c[1] \in NearestFound(hyps, evs, k, h)
    BY <1>1
<1>3. c[1] \in {f[1] : f \in Found(hyps, evs, k, h)}
    BY <1>2 DEF NearestFound, Best
<1>4. PICK f \in Found(hyps, evs, k, h) : c[1] = f[1]
    BY <1>3
<1>5. PICK q : \E r \in {x \in knn_pushdown_stmt(q, evs, k) : x.node # h} :
                  f = <<r.node, Cosine(q.vector, r.vector)>>
    BY <1>4 DEF Found
<1>6. PICK r \in knn_pushdown_stmt(q, evs, k) : f = <<r.node, Cosine(q.vector, r.vector)>>
    BY <1>5
<1>7. r \in evs /\ c[1] = r.node
    BY <1>4, <1>6 DEF knn_pushdown_stmt
<1>8. QED
    BY <1>7 DEF NodesOf

\* generate: the source of a candidate is an active node that is no hypothesis.
LEMMA CandidatesAreEvidence ==
    ASSUME NEW view, NEW k, NEW c \in generate(view, k)
    PROVE  c[1] \in view.active \ view.hypotheses
<1> DEFINE hypotheses == view.active \cap view.hypotheses
           evidence   == view.active \ view.hypotheses
           rows(side) == {r \in view.rows : r.node \in side}
           structural == structural_entity_candidates(hypotheses, evidence, view.involves)
           exact      == embedding_knn_candidates(rows(hypotheses), rows(evidence), k)
           pushed     == embedding_knn_pushdown(rows(hypotheses), rows(evidence), k)
<1>1. c \in structural \/ c \in exact \/ c \in pushed
    BY DEF generate, funnel
<1>2. CASE c \in structural
    BY <1>2 DEF structural_entity_candidates
<1>3. CASE c \in exact
    BY <1>3, KnnFindsEvidence DEF NodesOf
<1>4. CASE c \in pushed
    BY <1>4, PushdownFindsEvidence DEF NodesOf
<1>5. QED
    BY <1>1, <1>2, <1>3, <1>4

-----------------------------------------------------------------------------
(* What a session holds. *)

WorkFields == {"op", "targets", "pairs", "reasons", "judged", "written"}
Holds(w) ==
    /\ DOMAIN w = WorkFields /\ w = [f \in WorkFields |-> w[f]]
    /\ \A c \in w.pairs : c[1] \in Evidence

SessionsTyped ==
    /\ current \subseteq Node
    /\ pc = [s \in Session |-> pc[s]]
    /\ work = [s \in Session |-> work[s]]
    /\ decision = [s \in Session |-> decision[s]]
    /\ \A s \in Session : Holds(work[s])

\* Before the panel has answered nothing is written; once the reasons are
\* read, evidence that is not among them has been seen without any.
ReadsAreVetted(s) ==
    /\ pc[s] \in {"idle", "pooled", "grouped", "asked"} => work[s].written = {}
    /\ pc[s] = "asked" => Evidence \ work[s].reasons \subseteq vetted[s]

HighStakes(w, j) == j.sign = "refutes" \/ LoneSupport(w, j)
WritesAreVetted(s) ==
    \A j \in work[s].written : HighStakes(work[s], j) => j.source \in vetted[s]

\* The gate hears the panel only through a refuter that was written.
GateHeardPanel(s) ==
    (pc[s] \in {"load", "revise"} /\ decision[s].report["llm"] = "affirm") =>
        \E j \in work[s].written : j.sign = "refutes" /\ j.stable

\* It hears the symbolic channel affirm only what the refuters bring in.
Attributable(base, refuter) ==
    /\ \A a, b \in base : a.key = b.key => a = b
    /\ \E a \in base \cup refuter, b \in refuter : a.key = b.key /\ a.positive # b.positive
    /\ \E a \in base, b \in refuter : a.key = b.key
GateHeardClash(s) ==
    (pc[s] \in {"load", "revise"} /\ decision[s].report["symbolic"] = "affirm") =>
        Attributable(decision[s].base, decision[s].refuter)
GateHeard(s) == GateHeardPanel(s) /\ GateHeardClash(s)

SessionInv(s) == ReadsAreVetted(s) /\ WritesAreVetted(s) /\ GateHeard(s)
Inv == SessionsTyped /\ \A s \in Session : SessionInv(s)

LEMMA IdleHolds == Holds(Idle)
  BY DEF Holds, WorkFields, Idle

LEMMA InvInit == Init => Inv
<1> SUFFICES ASSUME Init PROVE Inv
    OBVIOUS
<1>1. /\ pc = [s \in Session |-> "idle"] /\ work = [s \in Session |-> Idle]
      /\ decision = [s \in Session |-> NoDecision] /\ current = Node
    BY DEF Init, ProducerInit
<1>2. SessionsTyped
    BY <1>1, IdleHolds DEF SessionsTyped
<1>3. \A s \in Session : SessionInv(s)
    BY <1>1 DEF SessionInv, ReadsAreVetted, WritesAreVetted, GateHeard, GateHeardPanel, GateHeardClash, Idle
<1>4. QED
    BY <1>2, <1>3 DEF Inv

-----------------------------------------------------------------------------
(* The plan: a judgment with high stakes is written only when its source is *)
(* not among the reasons read.                                              *)

LEMMA LoneSupporterHasHighStakes ==
    ASSUME NEW judged, NEW reasons, NEW j \in judged, j.sign = "supports",
           edge_stakes(judged, j) = "low", NEW w, w.written = plan(judged, reasons)
    PROVE  ~LoneSupport(w, j)
<1> DEFINE group == {i \in judged : i.target = j.target /\ i.sign = "supports"}
<1>1. ~(Cardinality(group) <= 1)
    BY DEF edge_stakes, SupportCount
<1>2. group # {j}
  <2>1. Cardinality({j}) = 1
      BY FS_Singleton
  <2>2. QED
      BY <1>1, <2>1
<1>3. PICK i \in group : i # j
    BY <1>2
<1>4. edge_stakes(judged, i) = "low"
    BY <1>1, <1>3 DEF edge_stakes, SupportCount
<1>5. i \in w.written
    BY <1>3, <1>4 DEF plan, assert_not_quarantined
<1>6. QED
    BY <1>3, <1>5 DEF LoneSupport

LEMMA PlanRespectsReasons ==
    ASSUME NEW judged, NEW reasons, NEW w, w.written = plan(judged, reasons),
           \A j \in judged : j.sign \in {"supports", "refutes"},
           NEW j \in w.written, HighStakes(w, j)
    PROVE  j.source \notin reasons
<1>1. j \in judged /\ assert_not_quarantined(reasons, edge_stakes(judged, j), j.source)
    BY DEF plan
<1>2. edge_stakes(judged, j) # "low"
  <2>1. CASE j.sign = "refutes"
      BY <2>1 DEF edge_stakes
  <2>2. CASE j.sign # "refutes"
      BY <1>1, <2>2, LoneSupporterHasHighStakes DEF HighStakes
  <2>3. QED
      BY <2>1, <2>2
<1>3. QED
    BY <1>1, <1>2 DEF assert_not_quarantined

LEMMA JudgedOnPairs ==
    ASSUME NEW pairs, NEW tallies \in [pairs -> Panel], NEW j \in Judged(tallies)
    PROVE  j.sign \in {"supports", "refutes"} /\ \E p \in pairs : j.source = p[1]
  BY DEF Judged, SignOf

-----------------------------------------------------------------------------
(* The steps. *)

\* The history only grows while a session is at work.
LEMMA WitnessGrows ==
    ASSUME Witness, NEW t \in Session, pc'[t] # "idle"
    PROVE  vetted[t] \subseteq vetted'[t] /\ Evidence \ WithReasons' \subseteq vetted'[t]
  BY DEF Witness

\* A session that does not move keeps its invariant.
LEMMA RestingSession ==
    ASSUME NEW t \in Session, SessionInv(t), Witness \/ UNCHANGED vetted,
           pc'[t] = pc[t], work'[t] = work[t],
           pc[t] # "idle" => decision'[t] = decision[t]
    PROVE  SessionInv(t)'
<1>1. CASE pc[t] = "idle"
    BY <1>1 DEF SessionInv, ReadsAreVetted, WritesAreVetted, GateHeard, GateHeardPanel, GateHeardClash
<1>2. CASE pc[t] # "idle"
  <2>1. vetted[t] \subseteq vetted'[t]
      BY <1>2, WitnessGrows
  <2>2. ReadsAreVetted(t)'
      BY <2>1 DEF SessionInv, ReadsAreVetted
  <2>3. WritesAreVetted(t)'
      BY <2>1 DEF SessionInv, WritesAreVetted, HighStakes, LoneSupport
  <2>4. GateHeard(t)'
      BY <1>2 DEF SessionInv, GateHeard, GateHeardPanel, GateHeardClash
  <2>5. QED
      BY <2>2, <2>3, <2>4 DEF SessionInv
<1>3. QED
    BY <1>1, <1>2

\* A session that ends, or has written nothing yet, owes nothing.
LEMMA EarlySession ==
    ASSUME NEW s \in Session, pc'[s] \in {"idle", "pooled", "grouped"}, work'[s].written = {}
    PROVE  SessionInv(s)'
  BY DEF SessionInv, ReadsAreVetted, WritesAreVetted, GateHeard, GateHeardPanel, GateHeardClash

\* A step of s inside the producer moves s only, to `where` with the work w.
Moves(s, w, where) ==
    /\ current' = current /\ Witness /\ Forget
    /\ pc' = [pc EXCEPT ![s] = where] /\ work' = [work EXCEPT ![s] = w]

LEMMA ProducerMove ==
    ASSUME Inv, NEW s \in Session, NEW w, Holds(w), NEW where, Moves(s, w, where), SessionInv(s)'
    PROVE  Inv'
<1>1. SessionsTyped'
  <2>1. /\ current' \subseteq Node /\ pc' = [t \in Session |-> pc'[t]]
        /\ work' = [t \in Session |-> work'[t]]
      BY DEF Inv, SessionsTyped, Moves
  <2>2. decision' = [t \in Session |-> decision'[t]]
      BY DEF Moves, Forget
  <2>3. \A t \in Session : Holds(work'[t])
      BY DEF Inv, SessionsTyped, Moves
  <2>4. QED
      BY <2>1, <2>2, <2>3 DEF SessionsTyped, Holds
<1>2. ASSUME NEW t \in Session, t # s PROVE SessionInv(t)'
  <2>1. pc'[t] = pc[t] /\ work'[t] = work[t]
      BY <1>2 DEF Inv, SessionsTyped, Moves
  <2>2. pc[t] # "idle" => decision'[t] = decision[t]
      BY <2>1 DEF Moves, Forget
  <2>3. SessionInv(t) /\ Witness
      BY DEF Inv, Moves
  <2>4. QED
      BY <2>1, <2>2, <2>3, RestingSession
<1>3. QED
    BY <1>1, <1>2 DEF Inv

LEMMA StartKeepsInv ==
    ASSUME Inv, NEW s \in Session, NEW op, NEW targets, Start(s, op, targets), Forget
    PROVE  Inv'
<1>1. PICK pushdown \in BOOLEAN :
        LET pairs == {c \in generate(View(pushdown), K) : c[2] \in targets}
        IN  /\ pc[s] = "idle"
            /\ Keep(s, [Idle EXCEPT !.op = op, !.targets = targets, !.pairs = pairs])
            /\ Goto(s, IF op = "produce" /\ pairs = {} THEN "idle" ELSE "pooled")
            /\ UNCHANGED store /\ Witness
    BY DEF Start
<1> DEFINE pairs == {c \in generate(View(pushdown), K) : c[2] \in targets}
           w == [Idle EXCEPT !.op = op, !.targets = targets, !.pairs = pairs]
           where == IF op = "produce" /\ pairs = {} THEN "idle" ELSE "pooled"
<1>2. \A c \in pairs : c[1] \in Evidence
  <2>1. View(pushdown).active = current /\ View(pushdown).hypotheses = Hypothesis
      BY DEF View
  <2>2. current \subseteq Evidence \cup Hypothesis
      BY DEF Inv, SessionsTyped, Node
  <2>3. QED
      BY <2>1, <2>2, CandidatesAreEvidence
<1>3. Holds(w) /\ w.written = {}
    BY <1>2 DEF Holds, WorkFields, Idle
<1>4. Moves(s, w, where)
    BY <1>1 DEF Moves, Keep, Goto, store
<1>5. pc'[s] \in {"idle", "pooled"} /\ work'[s] = w
    BY <1>4 DEF Inv, SessionsTyped, Moves
<1>6. SessionInv(s)'
    BY <1>3, <1>5, EarlySession
<1>7. QED
    BY <1>3, <1>4, <1>6, ProducerMove

LEMMA LoadNodesKeepsInv ==
    ASSUME Inv, NEW s \in Session, LoadNodes(s), Forget PROVE Inv'
<1> DEFINE w == [work[s] EXCEPT !.pairs = {c \in @ : {c[1], c[2]} \subseteq current}]
<1>1. Holds(w) /\ w.written = work[s].written
    BY DEF Inv, SessionsTyped, Holds, WorkFields
<1>2. work[s].written = {}
    BY DEF LoadNodes, Inv, SessionInv, ReadsAreVetted
<1>3. Moves(s, w, "grouped")
    BY DEF LoadNodes, Moves, Keep, Goto, store
<1>4. pc'[s] = "grouped" /\ work'[s] = w
    BY <1>3 DEF Inv, SessionsTyped, Moves
<1>5. SessionInv(s)'
    BY <1>1, <1>2, <1>4, EarlySession
<1>6. QED
    BY <1>1, <1>3, <1>5, ProducerMove

LEMMA LoadReasonsKeepsInv ==
    ASSUME Inv, NEW s \in Session, LoadReasons(s), Forget PROVE Inv'
<1> DEFINE w == [work[s] EXCEPT !.reasons = WithReasons]
<1>1. Holds(w) /\ w.written = work[s].written /\ w.reasons = WithReasons
    BY DEF Inv, SessionsTyped, Holds, WorkFields
<1>2. work[s].written = {}
    BY DEF LoadReasons, Inv, SessionInv, ReadsAreVetted
<1>3. Moves(s, w, "asked")
    BY DEF LoadReasons, Moves, Keep, Goto, store
<1>4. pc'[s] = "asked" /\ work'[s] = w
    BY <1>3 DEF Inv, SessionsTyped, Moves
<1>5. WithReasons' = WithReasons
    BY DEF LoadReasons, store, WithReasons, HasReasons, PropositionsOf
<1>6. Evidence \ WithReasons \subseteq vetted'[s]
    BY <1>3, <1>4, <1>5, WitnessGrows DEF Moves
<1>7. SessionInv(s)'
    BY <1>1, <1>2, <1>4, <1>6 DEF SessionInv, ReadsAreVetted, WritesAreVetted, GateHeard, GateHeardPanel, GateHeardClash
<1>8. QED
    BY <1>1, <1>3, <1>7, ProducerMove

LEMMA PersistKeepsInv ==
    ASSUME Inv, NEW s \in Session, NEW tallies \in [work[s].pairs -> Panel], Persist(s, tallies), Forget
    PROVE  Inv'
<1> DEFINE judged == Judged(tallies)
           reasons == work[s].reasons
           w == [work[s] EXCEPT !.pairs = {}, !.reasons = {},
                                !.judged = judged, !.written = plan(judged, reasons)]
           where == IF w.op = "find-contradiction" /\ refuters(w) # {} THEN "gate" ELSE "written"
<1>1. Holds(w) /\ w.written = plan(judged, reasons)
    BY DEF Inv, SessionsTyped, Holds, WorkFields
<1>2. Moves(s, w, where)
    BY DEF Persist, Moves, Keep, Goto
<1>3. pc'[s] \in {"gate", "written"} /\ work'[s] = w
    BY <1>2 DEF Inv, SessionsTyped, Moves
<1>4. Evidence \ reasons \subseteq vetted'[s]
  <2>1. Evidence \ reasons \subseteq vetted[s]
      BY DEF Persist, Inv, SessionInv, ReadsAreVetted
  <2>2. vetted[s] \subseteq vetted'[s]
      BY <1>2, <1>3, WitnessGrows DEF Moves
  <2>3. QED
      BY <2>1, <2>2
<1>5. ASSUME NEW j \in w.written, HighStakes(w, j) PROVE j.source \in vetted'[s]
  <2>1. \A i \in judged : i.sign \in {"supports", "refutes"}
      BY JudgedOnPairs
  <2>2. j.source \notin reasons
      BY <1>1, <1>5, <2>1, PlanRespectsReasons
  <2>3. j \in judged
      BY <1>1, <1>5 DEF plan
  <2>4. PICK p \in work[s].pairs : j.source = p[1]
      BY <2>3, JudgedOnPairs
  <2>5. j.source \in Evidence
      BY <2>4 DEF Inv, SessionsTyped, Holds
  <2>6. QED
      BY <1>4, <2>2, <2>5
<1>6. WritesAreVetted(s)'
    BY <1>3, <1>5 DEF WritesAreVetted, HighStakes, LoneSupport
<1>7. SessionInv(s)'
    BY <1>3, <1>6 DEF SessionInv, ReadsAreVetted, GateHeard, GateHeardPanel, GateHeardClash
<1>8. QED
    BY <1>1, <1>2, <1>7, ProducerMove

\* A session that returns or dies leaves nothing behind.
LEMMA EndKeepsInv ==
    ASSUME Inv, NEW s \in Session, Return(s) \/ Crash(s), Forget PROVE Inv'
<1>1. Moves(s, Idle, "idle")
    BY DEF Return, Crash, Moves, Keep, Goto, store
<1>2. pc'[s] = "idle" /\ work'[s] = Idle
    BY <1>1 DEF Inv, SessionsTyped, Moves
<1>3. SessionInv(s)'
    BY <1>2, EarlySession DEF Idle
<1>4. QED
    BY <1>1, <1>3, IdleHolds, ProducerMove

\* What other sessions change moves no session.
LEMMA ChangeKeepsInv ==
    ASSUME Inv, Forget, Witness, Change, current' \subseteq current PROVE Inv'
<1>1. pc' = pc /\ work' = work
    BY DEF Change
<1>2. SessionsTyped'
    BY <1>1 DEF Inv, SessionsTyped, Holds, Forget
<1>3. ASSUME NEW t \in Session PROVE SessionInv(t)'
  <2>1. pc[t] # "idle" => decision'[t] = decision[t]
      BY <1>1 DEF Forget
  <2>2. QED
      BY <1>1, <2>1, RestingSession DEF Inv
<1>4. QED
    BY <1>2, <1>3 DEF Inv

LEMMA ProducerKeepsInv == ASSUME Inv, ProducerNext, Forget PROVE Inv'
<1>1. ASSUME NEW s \in Session, Produce(s) \/ Corroborate(s) PROVE Inv'
    BY <1>1, StartKeepsInv DEF Produce, Corroborate
<1>2. ASSUME NEW s \in Session, LoadNodes(s) PROVE Inv'
    BY <1>2, LoadNodesKeepsInv
<1>3. ASSUME NEW s \in Session, LoadReasons(s) PROVE Inv'
    BY <1>3, LoadReasonsKeepsInv
<1>4. ASSUME NEW s \in Session, NEW tallies \in [work[s].pairs -> Panel], Persist(s, tallies) PROVE Inv'
    BY <1>4, PersistKeepsInv
<1>5. ASSUME NEW s \in Session, Return(s) \/ Crash(s) PROVE Inv'
    BY <1>5, EndKeepsInv
<1>6. ASSUME NEW e \in Evidence, Retract(e) PROVE Inv'
    BY <1>6, ChangeKeepsInv DEF Retract
<1>7. ASSUME NEW p \in Shaky, Doubt(p) \/ Confirm(p) PROVE Inv'
    BY <1>7, ChangeKeepsInv DEF Doubt, Confirm
<1>8. QED
    BY <1>1, <1>2, <1>3, <1>4, <1>5, <1>6, <1>7 DEF ProducerNext

-----------------------------------------------------------------------------
(* The gate and the revision. *)

\* The claims of two sets of nodes are those of the one and of the other.
LEMMA AtomsOfBoth ==
    ASSUME NEW some, NEW others, NEW claims
    PROVE  _atoms_for(some \cup others, claims) = _atoms_for(some, claims) \cup _atoms_for(others, claims)
  BY DEF _atoms_for

\* Claims without a contradiction give a common claim one sign.
LEMMA SolvedAtomsAgree ==
    ASSUME NEW nodes, NEW claims, _solve(_atoms_for(nodes, claims)),
           NEW a \in _atoms_for(nodes, claims), NEW b \in _atoms_for(nodes, claims), a.key = b.key
    PROVE  a = b
<1>1. a = [key |-> a.key, positive |-> a.positive] /\ b = [key |-> b.key, positive |-> b.positive]
    BY DEF _atoms_for
<1>2. a.positive = b.positive
    BY DEF _solve
<1>3. QED
    BY <1>1, <1>2

\* The three steps of check_consistency, read off its verdict.
LEMMA ContradictionComesFromTheRefuter ==
    ASSUME NEW base, NEW refuter, check_consistency(base, refuter) = "contradictory"
    PROVE  /\ _solve(base)
           /\ \E a \in base \cup refuter, b \in refuter : a.key = b.key /\ a.positive # b.positive
           /\ \E a \in base, b \in refuter : a.key = b.key
<1>1. _solve(base) /\ Related(base, refuter) /\ ~_solve(base \cup refuter)
    BY DEF check_consistency, ConsistentBase
<1>2. PICK a \in base \cup refuter, b \in base \cup refuter : a.key = b.key /\ a.positive # b.positive
    BY <1>1 DEF _solve
<1>3. a \in refuter \/ b \in refuter
    BY <1>1, <1>2 DEF _solve
<1>4. QED
    BY <1>1, <1>2, <1>3 DEF Related

LEMMA AffirmedIsAttributable ==
    ASSUME NEW h, NEW attackers, NEW backers, NEW claims,
           symbolic_stance(h, attackers, backers, claims) = "affirm"
    PROVE  Attributable(_atoms_for({h} \cup backers, claims), _atoms_for(attackers, claims))
<1> DEFINE base == _atoms_for({h} \cup backers, claims)
           refuter == _atoms_for(attackers, claims)
<1>1. base = _atoms_for({h}, claims) \cup _atoms_for(backers, claims)
    BY AtomsOfBoth
<1>2. symbolic_channel_for(base, refuter) = "affirm"
    BY <1>1 DEF symbolic_stance
<1>3. check_consistency(base, refuter) = "contradictory"
    BY <1>2 DEF symbolic_channel_for
<1>4. \A a, b \in base : a.key = b.key => a = b
    BY <1>3, ContradictionComesFromTheRefuter, SolvedAtomsAgree
<1>5. QED
    BY <1>3, <1>4, ContradictionComesFromTheRefuter DEF Attributable

\* A step of s after the producer moves its pc and writes its own decision.
GateStep(s, where) ==
    /\ work' = work /\ Witness /\ current' \subseteq current
    /\ pc' = [pc EXCEPT ![s] = where]
    /\ decision' = [t \in Session |-> decision'[t]]
    /\ \A t \in Session \ {s} : decision'[t] = decision[t]

LEMMA GateMove ==
    ASSUME Inv, NEW s \in Session, NEW where, where \notin {"idle", "pooled", "grouped", "asked"},
           GateStep(s, where), GateHeard(s)'
    PROVE  Inv'
<1>1. pc'[s] = where /\ \A t \in Session \ {s} : pc'[t] = pc[t]
    BY DEF Inv, SessionsTyped, GateStep
<1>2. SessionsTyped'
  <2>1. pc' = [t \in Session |-> pc'[t]]
      BY DEF Inv, SessionsTyped, GateStep
  <2>2. current' \subseteq Node /\ work' = work
      BY DEF Inv, SessionsTyped, GateStep
  <2>3. QED
      BY <2>1, <2>2 DEF Inv, SessionsTyped, Holds, GateStep
<1>3. ASSUME NEW t \in Session, t # s PROVE SessionInv(t)'
  <2>1. pc'[t] = pc[t] /\ work'[t] = work[t] /\ decision'[t] = decision[t] /\ Witness
      BY <1>1, <1>3 DEF GateStep
  <2>2. QED
      BY <2>1, RestingSession DEF Inv
<1>4. SessionInv(s)'
  <2>1. vetted[s] \subseteq vetted'[s]
      BY <1>1, WitnessGrows DEF GateStep
  <2>2. ReadsAreVetted(s)'
      BY <1>1 DEF ReadsAreVetted
  <2>3. WritesAreVetted(s)'
      BY <2>1 DEF Inv, SessionInv, WritesAreVetted, HighStakes, LoneSupport, GateStep
  <2>4. QED
      BY <2>2, <2>3 DEF SessionInv
<1>5. QED
    BY <1>2, <1>3, <1>4 DEF Inv

LEMMA GateKeepsInv == ASSUME Inv, NEW s \in Session, Gate(s) PROVE Inv'
<1>1. GateStep(s, "load")
    BY DEF Gate, GateStep, Inv, SessionsTyped, Goto, store
<1>2. pc'[s] = "load" /\ work'[s] = work[s]
    BY <1>1 DEF GateStep, Inv, SessionsTyped
<1>3. decision'[s].report["llm"] = llm_channel(work[s])
    BY DEF Gate, Inv, SessionsTyped
<1>4. GateHeardPanel(s)'
    BY <1>2, <1>3 DEF GateHeardPanel, llm_channel
<1>5. PICK h, claims :
        /\ decision'[s].report["symbolic"]
             = symbolic_stance(h, refuters(work[s]), supporters(work[s]), claims)
        /\ decision'[s].base = _atoms_for({h} \cup supporters(work[s]), claims)
        /\ decision'[s].refuter = _atoms_for(refuters(work[s]), claims)
    BY DEF Gate, Inv, SessionsTyped
<1>6. GateHeardClash(s)'
  <2>1. SUFFICES ASSUME decision'[s].report["symbolic"] = "affirm"
                 PROVE  Attributable(decision'[s].base, decision'[s].refuter)
      BY DEF GateHeardClash, Attributable
  <2>2. symbolic_stance(h, refuters(work[s]), supporters(work[s]), claims) = "affirm"
      BY <1>5, <2>1
  <2>3. Attributable(_atoms_for({h} \cup supporters(work[s]), claims),
                     _atoms_for(refuters(work[s]), claims))
      BY <2>2, AffirmedIsAttributable
  <2>4. QED
      BY <1>5, <2>3
<1>7. QED
    BY <1>1, <1>4, <1>6, GateMove DEF GateHeard

LEMMA LoadGraphKeepsInv == ASSUME Inv, NEW s \in Session, LoadGraph(s) PROVE Inv'
<1>1. GateStep(s, "revise")
    BY DEF LoadGraph, GateStep, Inv, SessionsTyped, Goto, store
<1>2. /\ pc[s] = "load" /\ pc'[s] = "revise"
      /\ work'[s] = work[s] /\ decision'[s] = decision[s]
    BY <1>1 DEF GateStep, LoadGraph, Inv, SessionsTyped
<1>3. GateHeard(s)'
    BY <1>2 DEF GateHeard, GateHeardPanel, GateHeardClash, Inv, SessionInv
<1>4. QED
    BY <1>1, <1>3, GateMove

LEMMA ReviseKeepsInv == ASSUME Inv, NEW s \in Session, Revise(s) PROVE Inv'
<1>1. GateStep(s, "written")
    BY DEF Revise, GateStep, Inv, SessionsTyped, Goto
<1>2. GateHeard(s)'
    BY <1>1 DEF GateHeard, GateHeardPanel, GateHeardClash, GateStep, Inv, SessionsTyped
<1>3. QED
    BY <1>1, <1>2, GateMove

LEMMA InvNext == Inv /\ [Next]_vars => Inv'
<1> SUFFICES ASSUME Inv, [Next]_vars PROVE Inv'
    OBVIOUS
<1>1. CASE ProducerNext /\ Forget
    BY <1>1, ProducerKeepsInv
<1>2. ASSUME NEW s \in Session, Gate(s) \/ LoadGraph(s) \/ Revise(s) PROVE Inv'
    BY <1>2, GateKeepsInv, LoadGraphKeepsInv, ReviseKeepsInv
<1>3. CASE UNCHANGED vars
  <2>1. SessionsTyped'
      BY <1>3 DEF Inv, SessionsTyped, Holds, vars, producer, store
  <2>2. ASSUME NEW t \in Session PROVE SessionInv(t)'
      BY <1>3, RestingSession DEF Inv, vars, producer
  <2>3. QED
      BY <2>1, <2>2 DEF Inv
<1>4. QED
    BY <1>1, <1>2, <1>3 DEF Next

\* What a run writes with high stakes, a refutation or the only support of a
\* hypothesis (edge_producer.py, the quarantine gate), rests on evidence that
\* had provenance and no provisional reason at some moment of the run.
THEOREM WritesRestOnVettedEvidence == Spec => []HighStakesAreVetted
<1>1. Inv => HighStakesAreVetted
    BY DEF Inv, SessionInv, WritesAreVetted, HighStakes, HighStakesAreVetted
<1>2. QED
    BY <1>1, InvInit, InvNext, PTL DEF Spec

\* The symbolic channel affirms only a clash that a refuter brings in: the
\* hypothesis and its supporters agree among themselves, and a common claim
\* links the two sides (symbolic_gate.py, steps 1 to 3 of check_consistency).
THEOREM AffirmedClashIsTheRefuters == Spec => []ClashIsAttributable
<1>1. Inv => ClashIsAttributable
    BY DEF Inv, SessionInv, GateHeard, GateHeardClash, Attributable, ClashIsAttributable
<1>2. QED
    BY <1>1, InvInit, InvNext, PTL DEF Spec

\* Only the revision of a run whose gate heard the panel retracts a
\* hypothesis, and other sessions retract evidence only.
LEMMA FlipIsVetted ==
    ASSUME Inv, [Next]_vars, NEW h \in Hypothesis, h \in current, h \notin current'
    PROVE  \E s \in Session : pc[s] = "revise" /\ h \in work[s].targets /\ Vetted(s)
<1>1. PICK s \in Session : Revise(s)
  <2>1. ~UNCHANGED vars /\ \A s \in Session : ~Gate(s) /\ ~LoadGraph(s)
      BY DEF vars, producer, store, Gate, LoadGraph
  <2>2. ~ProducerNext
    <3>1. \A s \in Session : \A op, targets : ~Start(s, op, targets)
        BY DEF Start, store
    <3>2. \A s \in Session :
            /\ ~LoadNodes(s) /\ ~LoadReasons(s) /\ ~Return(s) /\ ~Crash(s)
            /\ \A tallies : ~Persist(s, tallies)
        BY DEF LoadNodes, LoadReasons, Return, Crash, Persist, store
    <3>3. \A e \in Evidence : ~Retract(e)
        BY ProducerInstance DEF Retract
    <3>4. \A p : ~Doubt(p) /\ ~Confirm(p)
        BY DEF Doubt, Confirm
    <3>5. QED
        BY <3>1, <3>2, <3>3, <3>4 DEF ProducerNext, Produce, Corroborate
  <2>3. QED
      BY <2>1, <2>2 DEF Next
<1>2. pc[s] = "revise" /\ h \in work[s].targets /\ authorise(decision[s].report)
    BY <1>1 DEF Revise
<1>3. Stance(decision[s].report, "llm") = "affirm"
    BY <1>2 DEF authorise, DEFAULT_GATE
<1>4. decision[s].report["llm"] = "affirm"
    BY <1>3 DEF Stance
<1>5. PICK j \in work[s].written : j.sign = "refutes" /\ j.stable
    BY <1>2, <1>4 DEF Inv, SessionInv, GateHeard, GateHeardPanel, GateHeardClash
<1>6. j.source \in vetted[s]
    BY <1>5 DEF Inv, SessionInv, WritesAreVetted, HighStakes
<1>7. QED
    BY <1>2, <1>5, <1>6 DEF Vetted

\* A hypothesis is only ever retracted by a run of its own that wrote a
\* refuting edge the whole panel agreed on, from vetted evidence
\* (find_contradiction.py, llm_channel and the decision keyed to the target).
THEOREM RetractionRestsOnVettedPanel == Spec => FlipRestsOnVettedPanel
<1>1. Inv /\ [Next]_vars =>
        [\A h \in Hypothesis : (h \in current /\ h \notin current') =>
            \E s \in Session : pc[s] = "revise" /\ h \in work[s].targets /\ Vetted(s)]_vars
    BY FlipIsVetted
<1>2. QED
    BY <1>1, InvInit, InvNext, PTL DEF Spec, FlipRestsOnVettedPanel

=============================================================================
