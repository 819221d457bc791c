-------------------------- MODULE FindContradiction --------------------------
(***************************************************************************)
(* The find-contradiction operator (core/find_contradiction.py): a targeted *)
(* run of the edge producer, then, if it wrote a refuter, the gate over    *)
(* what it wrote, then one run of the revision loop with the gate's        *)
(* decision, then the envelope.  Every part reads the store anew.          *)
(*                                                                         *)
(* The revision loop is RevisionLoop's with its default policy; here the   *)
(* hypotheses do not bear on one another, so its fixpoint is reached after *)
(* one retraction.                                                         *)
(***************************************************************************)
EXTENDS EdgeProducer, SymbolicGate, EnsembleGate

CONSTANTS
    Base,           \* the intrinsic score of each node
    MaxSweeps       \* max_iterations of the adjudication

Q == INSTANCE Qbaf WITH Unit <- Full

VARIABLES
    decision,  \* the gate's report per session, with the claims it saw
    snapshot,  \* the graph the loop of a session has loaded
    pending    \* hypotheses held as pending_refutation

vars == <<producer, decision, snapshot, pending>>
gate == <<decision, snapshot, pending>>

NoDecision == [report |-> <<>>, base |-> {}, refuter |-> {}]
NoGraph == [nodes |-> {}, edges |-> {}]

Init ==
    /\ ProducerInit
    /\ decision = [s \in Session |-> NoDecision]
    /\ snapshot = [s \in Session |-> NoGraph]
    /\ pending = {}

-----------------------------------------------------------------------------

\* llm_channel, over the edges the run has written, the quarantined ones not
\* among them.
LlmOnJudgments(w) ==
    IF \E j \in w.judged : j.sign = "refutes" /\ j.stable THEN "affirm" ELSE "abstain"
llm_channel(w) ==
    IF \E j \in w.written : j.sign = "refutes" /\ j.stable THEN "affirm" ELSE "abstain"

\* load_subregion_propositions: the claims of nodes that are current now; the
\* first model of a proposition with several.
load_subregion_propositions(nodes) ==
    {c \in Claims : /\ c.node \in nodes \cap current
                    /\ \A d \in Claims : d.proposition = c.proposition => c.model <= d.model}

\* The sub-region and the gate: authorise_from_panel.  The temporal channel
\* has no producer and abstains.
Gate(s) ==
    LET w == work[s]
        h == CHOOSE x \in w.targets : TRUE
        claims == load_subregion_propositions({h} \cup refuters(w) \cup supporters(w))
    IN  /\ pc[s] = "gate"
        /\ decision' = [decision EXCEPT ![s] =
               [report |-> [llm |-> llm_channel(w),
                            symbolic |-> symbolic_stance(h, refuters(w), supporters(w), claims)],
                base |-> _atoms_for({h} \cup supporters(w), claims),
                refuter |-> _atoms_for(refuters(w), claims)]]
        /\ Goto(s, "load") /\ UNCHANGED <<store, work, runs, changes, snapshot, pending>> /\ Witness

\* The loop's load: current nodes and the edges between them.
LoadGraph(s) ==
    /\ pc[s] = "load"
    /\ snapshot' = [snapshot EXCEPT ![s] =
           [nodes |-> current,
            edges |-> {e \in edges : {e.source, e.target} \subseteq current}]]
    /\ Goto(s, "revise") /\ UNCHANGED <<store, work, runs, changes, decision, pending>> /\ Witness

\* The verdict on each hypothesis of a snapshot.
verdicts(g) ==
    LET side(sign) == {[src |-> e.source, dst |-> e.target, strength |-> e.strength] :
                          e \in {x \in g.edges : x.sign = sign}}
        baf == [arguments |-> g.nodes, supports |-> side("supports"), attacks |-> side("refutes")]
        solved == Q!solve(baf, Base)
    IN  [h \in Hypothesis \cap g.nodes |-> Q!StateOf(baf, solved.acceptability, h)]

\* The decision is keyed to the hypothesis of the run: authorised and refuted
\* it is retracted, any other refuted one is held.
Revise(s) ==
    LET v == verdicts(snapshot[s])
        refuted == {h \in DOMAIN v : v[h] = "refuted"}
        retracted == {h \in refuted \cap work[s].targets : authorise(decision[s].report)}
        judged == (DOMAIN v \ retracted) \cap current
    IN  /\ pc[s] = "revise"
        /\ current' = current \ retracted
        /\ pending' = (pending \ judged) \cup (refuted \cap judged)
        /\ decision' = [decision EXCEPT ![s] = NoDecision]
        /\ snapshot' = [snapshot EXCEPT ![s] = NoGraph]
        /\ Goto(s, "written") /\ UNCHANGED <<provisional, edges, work, runs, changes>> /\ Witness

\* What a session held is gone with it.
Forget ==
    /\ decision' = [s \in Session |-> IF pc'[s] = "idle" THEN NoDecision ELSE decision[s]]
    /\ snapshot' = [s \in Session |-> IF pc'[s] = "idle" THEN NoGraph ELSE snapshot[s]]

Next ==
    \/ ProducerNext /\ Forget /\ UNCHANGED pending
    \/ \E s \in Session : Gate(s) \/ LoadGraph(s) \/ Revise(s)

Spec == Init /\ [][Next]_vars

-----------------------------------------------------------------------------

TypeOK ==
    /\ current \subseteq Node /\ provisional \subseteq Proposition /\ pending \subseteq Hypothesis
    /\ \A e \in edges : e.source \in Evidence /\ e.target \in Hypothesis /\ e.strength \in 0 .. Full
    /\ pc \in [Session -> {"idle", "pooled", "grouped", "asked", "written", "gate", "load", "revise"}]
    /\ runs \in 0 .. MaxRuns /\ changes \in 0 .. MaxChanges

\* A hypothesis is only ever retracted by a run that wrote a refuting edge the
\* whole panel agreed on, from evidence that was not provisional at some
\* moment of that run: neither a quarantined judgment nor an edge of an
\* earlier run can stand in for it (_judge_plan_persist, llm_channel, decide).
Vetted(s) == \E j \in work[s].written : j.sign = "refutes" /\ j.stable /\ j.source \in vetted[s]
FlipRestsOnVettedPanel ==
    [][\A h \in Hypothesis : (h \in current /\ h \notin current') =>
         \E s \in Session : pc[s] = "revise" /\ h \in work[s].targets /\ Vetted(s)]_vars

\* The symbolic channel affirms only a clash a refuter brings in: what the
\* hypothesis and its supporters claim is consistent without the refuters, is
\* not with them, and the two sides speak of a common claim (check_consistency,
\* steps 1 to 3).
ClashIsAttributable ==
    \A s \in Session :
        (pc[s] \in {"load", "revise"} /\ decision[s].report["symbolic"] = "affirm") =>
            LET d == decision[s]
            IN  /\ \A a, b \in d.base : a.key = b.key => a = b
                /\ \E a \in d.base \cup d.refuter, b \in d.refuter :
                     a.key = b.key /\ a.positive # b.positive
                /\ \E a \in d.base, b \in d.refuter : a.key = b.key

=============================================================================
