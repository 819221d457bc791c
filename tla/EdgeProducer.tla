---------------------------- MODULE EdgeProducer ----------------------------
(***************************************************************************)
(* The evidential edge producer (core/edge_producer.py) over the graph     *)
(* store: a session reads the candidates, the nodes and the provisional    *)
(* reasons of the evidence, lets the panel judge, and writes what survives *)
(* the quarantine.  The reads are separate queries and the panel takes its *)
(* time: between any two steps of a session other sessions commit, nodes   *)
(* are retracted, propositions become provisional or are confirmed.        *)
(*                                                                         *)
(* The writes of a run are one transaction, so Persist is one action.      *)
(***************************************************************************)
EXTENDS Candidates, EdgeJudge

CONSTANTS
    Session,     \* the concurrent runs
    Evidence,    \* the facts and conclusions
    Hypothesis,
    Claims,      \* records [node, proposition, model, vector, positive]
    Involves,    \* <<node, entity>> pairs
    Panel,       \* the tallies the panel can come to
    K,           \* candidates per hypothesis of the embedding stage
    Operator,    \* what each session runs: "produce", "corroborate" or
                 \* "find-contradiction"
    Shaky,       \* propositions that gain or lose provisional reasons
    MaxRuns,     \* bound on the runs started
    MaxChanges   \* bound on what other sessions change

Node == Evidence \cup Hypothesis
Proposition == {c.proposition : c \in Claims}

ASSUME ProducerInstance ==
    /\ Evidence \cap Hypothesis = {}
    /\ Panel \subseteq Tally
    /\ \A c \in Claims : c.node \in Node
    /\ Shaky \subseteq Proposition
    /\ Operator \in [Session -> {"produce", "corroborate", "find-contradiction"}]

VARIABLES
    current,      \* nodes whose valid_to is null
    provisional,  \* propositions with a provisional reason
    edges,        \* SUPPORTS / REFUTES edges, one per source, target and sign
    pc,           \* where each session is
    work,         \* what each session holds in memory
    runs, changes,
    vetted        \* history: evidence seen unprovisional since the run began

store == <<current, provisional, edges>>
producer == <<store, pc, work, runs, changes, vetted>>

-----------------------------------------------------------------------------

\* _load_provisional_reasons: a node inherits the reasons of every proposition
\* it is EVIDENCED_BY; one that is not current, or has none, is provisional
\* for want of provenance.
PropositionsOf(n) == {c.proposition : c \in {x \in Claims : x.node = n}}
HasReasons(n) == n \notin current \/ PropositionsOf(n) = {} \/ PropositionsOf(n) \cap provisional # {}
WithReasons == {n \in Evidence : HasReasons(n)}

\* edge_stakes: a refutation, or the only supporter the panel left.
SupportCount(judged, h) ==
    Cardinality({j \in judged : j.target = h /\ j.sign = "supports"})
OnlyRefutationsMatter(judged, j) == IF j.sign = "refutes" THEN "high" ELSE "low"
edge_stakes(judged, j) ==
    IF j.sign = "refutes" THEN "high"
    ELSE IF SupportCount(judged, j.target) <= 1 THEN "high" ELSE "low"

\* assert_not_quarantined: whether the move is let through.
assert_not_quarantined(reasons, stakes, e) == stakes = "low" \/ e \notin reasons

\* The panel's judgments: what it did not find irrelevant.
Judged(tallies) ==
    {[source |-> p[1], target |-> p[2], sign |-> SignOf(tallies[p]),
      stable |-> SignStable(tallies[p]), strength |-> StrengthOf(tallies[p])] :
        p \in {q \in DOMAIN tallies : ~Dropped(tallies[q])}}

\* plan_hypothesis, for every hypothesis of the run.
plan(judged, reasons) ==
    {j \in judged : assert_not_quarantined(reasons, edge_stakes(judged, j), j.source)}

\* merge_edge: one edge per source, target and label; the last write stays,
\* and an edge with an end that is not in the graph is not written.
SameEdge(x, y) == x.source = y.source /\ x.target = y.target /\ x.sign = y.sign
merge_edges(E, new) == {x \in E : \A y \in new : ~SameEdge(x, y)} \cup new

-----------------------------------------------------------------------------

Idle == [op |-> "none", targets |-> {}, pairs |-> {}, reasons |-> {}, judged |-> {}, written |-> {}]

ProducerInit ==
    /\ current = Node
    /\ provisional \in SUBSET Shaky
    /\ edges = {}
    /\ pc = [s \in Session |-> "idle"]
    /\ work = [s \in Session |-> Idle]
    /\ runs = 0 /\ changes = 0
    /\ vetted = [s \in Session |-> {}]

\* What a session does, and the history kept beside it.
Witness == vetted' = [s \in Session |-> IF pc'[s] = "idle" THEN {}
                                        ELSE vetted[s] \cup (Evidence \ WithReasons')]
Goto(s, where) == pc' = [pc EXCEPT ![s] = where]
Keep(s, w) == work' = [work EXCEPT ![s] = w]

\* pushdown is a setting of the process that serves the run.
View(pushdown) ==
    [active |-> current, hypotheses |-> Hypothesis, rows |-> Claims,
     involves |-> Involves, pushdown |-> pushdown]

\* The pool is always generated whole; corroborate keeps the pairs of its
\* hypothesis.  produce with an empty pool ends at once.
Start(s, op, targets) ==
    \E pushdown \in BOOLEAN :
        LET pairs == {c \in generate(View(pushdown), K) : c[2] \in targets}
        IN  /\ pc[s] = "idle" /\ runs < MaxRuns
            /\ Keep(s, [Idle EXCEPT !.op = op, !.targets = targets, !.pairs = pairs])
            /\ Goto(s, IF op = "produce" /\ pairs = {} THEN "idle" ELSE "pooled")
            /\ runs' = runs + 1
            /\ UNCHANGED <<store, changes>> /\ Witness

\* _load_node_meta and build_evidence: a pair one end of which is no longer
\* current is dropped.
LoadNodes(s) ==
    /\ pc[s] = "pooled"
    /\ Keep(s, [work[s] EXCEPT !.pairs = {c \in @ : {c[1], c[2]} \subseteq current}])
    /\ Goto(s, "grouped")
    /\ UNCHANGED <<store, runs, changes>> /\ Witness

\* The provisional reasons, read before the panel is asked.
LoadReasons(s) ==
    /\ pc[s] = "grouped"
    /\ Keep(s, [work[s] EXCEPT !.reasons = WithReasons])
    /\ Goto(s, "asked")
    /\ UNCHANGED <<store, runs, changes>> /\ Witness

\* The panel answers, the plan is made and written, the session commits.  The
\* next state of a find-contradiction with a refuter is its gate.
refuters(w) == {j.source : j \in {x \in w.written : x.sign = "refutes"}}
supporters(w) == {j.source : j \in {x \in w.written : x.sign = "supports"}}
Persist(s, tallies) ==
    LET judged == Judged(tallies)
        w == [work[s] EXCEPT !.pairs = {}, !.reasons = {},
                             !.judged = judged, !.written = plan(judged, work[s].reasons)]
    IN  /\ pc[s] = "asked"
        /\ edges' = merge_edges(edges, w.written)
        /\ Keep(s, w)
        /\ Goto(s, IF w.op = "find-contradiction" /\ refuters(w) # {} THEN "gate" ELSE "written")
        /\ UNCHANGED <<current, provisional, runs, changes>> /\ Witness

\* The result is returned (find-contradiction records its envelope first).
Return(s) ==
    /\ pc[s] = "written"
    /\ Keep(s, Idle) /\ Goto(s, "idle")
    /\ UNCHANGED <<store, runs, changes>> /\ Witness

\* The process dies, or a call fails: what was not committed is gone.
Crash(s) ==
    /\ pc[s] # "idle"
    /\ Keep(s, Idle) /\ Goto(s, "idle")
    /\ UNCHANGED <<store, runs, changes>> /\ Witness

\* Other sessions: evidence is retracted, a proposition gains a provisional
\* reason (an ambiguous reference) or loses its reasons.
Change == changes < MaxChanges /\ changes' = changes + 1 /\ UNCHANGED <<edges, pc, work, runs>>
Retract(e) ==
    /\ e \in current /\ current' = current \ {e}
    /\ Change /\ UNCHANGED provisional /\ Witness
Doubt(p) ==
    /\ p \notin provisional /\ provisional' = provisional \cup {p}
    /\ Change /\ UNCHANGED current /\ Witness
Confirm(p) ==
    /\ p \in provisional /\ provisional' = provisional \ {p}
    /\ Change /\ UNCHANGED current /\ Witness

Produce(s) == Operator[s] = "produce" /\ Start(s, "produce", Hypothesis)
Corroborate(s) ==
    Operator[s] # "produce" /\ \E h \in Hypothesis : Start(s, Operator[s], {h})

ProducerNext ==
    \/ \E s \in Session :
         \/ Produce(s) \/ Corroborate(s)
         \/ LoadNodes(s) \/ LoadReasons(s)
         \/ \E tallies \in [work[s].pairs -> Panel] : Persist(s, tallies)
         \/ Return(s) \/ Crash(s)
    \/ \E e \in Evidence : Retract(e)
    \/ \E p \in Shaky : Doubt(p) \/ Confirm(p)

-----------------------------------------------------------------------------

\* What a run writes with high stakes, a refutation or the only support of a
\* hypothesis it leaves, rests on evidence that had provenance and no
\* provisional reason at some moment of the run, although the reasons are
\* read before the panel answers (edge_producer, the quarantine gate).
LoneSupport(w, j) == \A i \in w.written : (i.target = j.target /\ i.sign = "supports") => i = j
HighStakesAreVetted ==
    \A s \in Session : \A j \in work[s].written :
        (j.sign = "refutes" \/ LoneSupport(work[s], j)) => j.source \in vetted[s]

=============================================================================
