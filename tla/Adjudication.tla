---------------------------- MODULE Adjudication ----------------------------
(***************************************************************************)
(* Repeated adjudication: the evidence changes, one edge or one intrinsic  *)
(* score at a time, and every change is followed by a full solve, as each  *)
(* QbafAdapter.evaluate reads the current evidence and solves from scratch. *)
(* The evidence itself is the environment's.                               *)
(***************************************************************************)
EXTENDS Qbaf

CONSTANTS
    Argument,  \* the arguments of the framework
    Edge,      \* the edges that can appear, as support or as attack
    BaseScore  \* the intrinsic scores that occur

\* The edges are between the arguments, their strengths and the scores in
\* [0, 1]; an id names one argument.
ASSUME FrameworksAreWeighted ==
    /\ IsFiniteSet(Argument) /\ IsFiniteSet(Edge) /\ BaseScore \subseteq Strength
    /\ \A a, c \in Argument : Id(a) \in Nat /\ (Id(a) = Id(c) => a = c)
    /\ \A e \in Edge : {e.src, e.dst} \subseteq Argument /\ e.strength \in Strength

VARIABLES framework, intrinsic, solution
adjudicationVars == <<framework, intrinsic, solution>>

AdjudicationInit ==
    /\ framework = [arguments |-> Argument, supports |-> {}, attacks |-> {}]
    /\ intrinsic \in [Argument -> BaseScore]
    /\ solution = solve(framework, intrinsic)

Evaluate(b, s) ==
    /\ framework' = b
    /\ intrinsic' = s
    /\ solution' = solve(b, s)

AddSupport(e) == e \notin framework.supports
    /\ Evaluate([framework EXCEPT !.supports = @ \cup {e}], intrinsic)
AddAttack(e) == e \notin framework.attacks
    /\ Evaluate([framework EXCEPT !.attacks = @ \cup {e}], intrinsic)
DropSupport(e) == e \in framework.supports
    /\ Evaluate([framework EXCEPT !.supports = @ \ {e}], intrinsic)
DropAttack(e) == e \in framework.attacks
    /\ Evaluate([framework EXCEPT !.attacks = @ \ {e}], intrinsic)
Reweigh(a, v) == Evaluate(framework, [intrinsic EXCEPT ![a] = v])

AdjudicationNext ==
    \/ \E e \in Edge : AddSupport(e) \/ AddAttack(e) \/ DropSupport(e) \/ DropAttack(e)
    \/ \E a \in Argument, v \in BaseScore : Reweigh(a, v)

AdjudicationSpec == AdjudicationInit /\ [][AdjudicationNext]_adjudicationVars

-----------------------------------------------------------------------------

\* Whatever the evidence, a solve leaves every strength in [0, 1].
AdjudicationTypeOK ==
    /\ framework \in [arguments : {Argument}, supports : SUBSET Edge, attacks : SUBSET Edge]
    /\ intrinsic \in [Argument -> BaseScore]
    /\ solution \in [acceptability : [Argument -> Strength], converged : BOOLEAN,
                    iterations : 1 .. MaxSweeps, unstable : SUBSET Argument]

\* Every edge leads up in k layers of arguments, and so none bears on itself.
Layered(b, k) ==
    \E rank \in [Argument -> 1 .. k] :
        \A e \in b.supports \cup b.attacks : rank[e.src] < rank[e.dst]
Acyclic(b) == Layered(b, Cardinality(Argument))

\* The strength of an argument of an acyclic framework, by its structure.
StructuralStrength(b, s) ==
    LET value[a \in Argument] ==
            _df_quad_combine(s[a], _prob_sum({e \in b.supports : e.dst = a}, value),
                                   _prob_sum({e \in b.attacks : e.dst = a}, value))
    IN  value

\* An acyclic framework of no more layers than the bound allows sweeps
\* converges, in as many sweeps as it has layers, to the strengths its
\* structure determines (docstring of solve: "reaches the exact fixpoint in at
\* most depth-many sweeps and always converges").  Any other reports a true
\* fixpoint, or names the arguments that did not settle.
ExactOrSurfaced ==
    /\ \A k \in 1 .. MaxSweeps : Layered(framework, k) =>
         /\ solution.converged /\ solution.iterations <= k
         /\ solution.acceptability = StructuralStrength(framework, intrinsic)
    /\ solution.converged => solution.unstable = {}
    /\ solution.unstable = {} <=>
         sweep(framework, intrinsic, solution.acceptability) = solution.acceptability

\* Evidence pushes the argument it bears on in its own direction, unless the
\* framework is cyclic: a support never lowers it, an attack never raises it,
\* and a higher intrinsic score never lowers it; what is taken away lets go of
\* it the other way.
Pushes(b0, s0, f0, b, s, f) ==
    Acyclic(b) =>
        /\ \A e \in b.supports \ b0.supports : f[e.dst] >= f0[e.dst]
        /\ \A e \in b.attacks \ b0.attacks : f[e.dst] <= f0[e.dst]
        /\ \A a \in Argument : s[a] > s0[a] => f[a] >= f0[a]
PushesItsWay ==
    LET f == solution.acceptability
    IN  /\ Pushes(framework, intrinsic, f, framework', intrinsic', f')
        /\ Pushes(framework', intrinsic', f', framework, intrinsic, f)
EvidencePushesItsWay == [][PushesItsWay]_adjudicationVars

=============================================================================
