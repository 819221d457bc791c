---------------------------- MODULE SymbolicGate ----------------------------
(***************************************************************************)
(* The symbolic channel: claims as atoms [key, positive], the key of a     *)
(* proposition found by clustering its vector with those of the sub-region *)
(* whatever their polarity (core/find_contradiction.py), and the check     *)
(* whether a refuter contradicts (core/symbolic_gate.py).                  *)
(*                                                                         *)
(* A claim is a record [node, proposition, model, vector, positive]; the   *)
(* propositions are naturals, in the order of their ids.                   *)
(***************************************************************************)
EXTENDS Integers, FiniteSets, FiniteSetsExt

CONSTANT Alike(_, _)  \* the similarity of two vectors reaches the threshold

\* assign_claim_keys: greedy clustering in id order against the first member
\* of each cluster, within one model; the key names that member.
assign_claim_keys(claims) ==
    LET earlier(c) == {d \in claims : d.model = c.model /\ d.proposition < c.proposition}
        ids == {c.proposition : c \in claims}
        leader[p \in ids] ==
            LET c == CHOOSE x \in claims : x.proposition = p
                open == {d.proposition : d \in {x \in earlier(c) :
                            leader[x.proposition] = x.proposition /\ Alike(x.vector, c.vector)}}
            IN  IF open = {} THEN p ELSE Min(open)
    IN  leader

\* _atoms_for.
_atoms_for(nodes, claims) ==
    {[key |-> assign_claim_keys(claims)[c.proposition], positive |-> c.positive] :
        c \in {x \in claims : x.node \in nodes}}

\* _solve: no claim is both asserted and denied (the caller passes no rules).
_solve(atoms) == \A a, b \in atoms : a.key = b.key => a.positive = b.positive

\* check_consistency, in the order of its three steps.
Related(base, refuter) == \E a \in refuter, b \in base : a.key = b.key
BlameTheRefuter(base) == TRUE
ConsistentBase(base) == _solve(base)
check_consistency(base, refuter) ==
    IF ~ConsistentBase(base) THEN "indeterminate"
    ELSE IF ~Related(base, refuter) THEN "unrelated"
    ELSE IF _solve(base \cup refuter) THEN "consistent"
    ELSE "contradictory"

\* symbolic_channel_for.
symbolic_channel_for(base, refuter) ==
    LET verdict == check_consistency(base, refuter)
    IN  IF verdict = "contradictory" THEN "affirm"
        ELSE IF verdict = "consistent" THEN "dissent" ELSE "abstain"

\* The channel find-contradiction hears: the claims of the hypothesis and its
\* supporters against those of its refuters, and an abstention if no query
\* can be assembled (assemble_symbolic_query returns None).
symbolic_stance(h, refuters, supporters, claims) ==
    LET base == _atoms_for({h}, claims)
        ref  == _atoms_for(refuters, claims)
    IN  IF base = {} \/ ref = {} THEN "abstain"
        ELSE symbolic_channel_for(base \cup _atoms_for(supporters, claims), ref)

=============================================================================
