----------------------------- MODULE Valuation -----------------------------
(***************************************************************************)
(* The confidence algebra of Layer B (core/confidence.py): a semiring over *)
(* [0, 1], and the equations that valuate solves on exactly the nodes      *)
(* Layer A certifies.                                                      *)
(*                                                                         *)
(* A confidence in [0, 1] is a level 0 .. One; the semirings' zero is 0.   *)
(* Goedel keeps any finite chain of levels closed, so levels lose nothing; *)
(* for Viterbi level k >= 1 stands for 2^(k - One), whose product adds     *)
(* exponents.  It truncates below 2^(1 - One): One is to be chosen larger  *)
(* than any product of the instance needs.                                 *)
(*                                                                         *)
(* The arguments of valuate are a record a = [graph, supported,            *)
(* base_confidence, strength, semiring].  A key missing from either        *)
(* mapping reads as one, so both are total on what they can be asked for.  *)
(***************************************************************************)
EXTENDS WellFounded, Functions, FiniteSetsExt

CONSTANT One  \* the top level, one of both semirings

ASSUME TopIsANatural == One \in Nat

Level == 0 .. One
Semiring == {"viterbi", "godel"}
DEFAULT_SEMIRING == "godel"

\* times of the two semirings, along a rule body.
_godel_times(x, y) == IF x <= y THEN x ELSE y
_viterbi_times(x, y) == IF x + y > One THEN x + y - One ELSE 0
times(semiring, x, y) ==
    IF semiring = "godel" THEN _godel_times(x, y) ELSE _viterbi_times(x, y)

\* Semiring.combine_body, and combine_alternatives: both have max as plus.
combine_body(semiring, conf, body) ==
    FoldFunctionOnSet(LAMBDA x, y : times(semiring, x, y), One, conf, body)
combine_alternatives(values) == Max(values \cup {0})

\* Foundedness gate: the head and the whole body must be supported.
Grounds(a, n) == {d \in a.graph.derivations : /\ d.conclusion = n
                                              /\ n \in a.supported
                                              /\ d.body \subseteq a.supported}

\* One derivation's contribution: its strength times its body.
BodyOnly(a, f, d) == combine_body(a.semiring, f, d.body)
Contribution(a, f, d) == times(a.semiring, a.strength[d], combine_body(a.semiring, f, d.body))

\* One Jacobi round: every supported node from the previous iterate.
WithoutEvidence(a, f, n) ==
    combine_alternatives({Contribution(a, f, d) : d \in Grounds(a, n)})
Revalue(a, f, n) ==
    IF n \in a.supported
    THEN combine_alternatives({a.base_confidence[m] : m \in {n} \cap a.graph.base_facts}
                                \cup {Contribution(a, f, d) : d \in Grounds(a, n)})
    ELSE 0

\* dict.fromkeys(nodes, semiring.zero).
AllZero == [n \in Node |-> 0]

\* The fixpoint valuate returns: as many rounds as its ascent can need.
valuate(a) ==
    LET iterate[i \in 0 .. Cardinality(a.supported)] ==
            IF i = 0 THEN AllZero
            ELSE LET prev == iterate[i - 1] IN [n \in Node |-> Revalue(a, prev, n)]
    IN  iterate[Cardinality(a.supported)]

=============================================================================
