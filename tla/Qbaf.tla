-------------------------------- MODULE Qbaf --------------------------------
(***************************************************************************)
(* The adjudication engine (core/qbaf.py): DF-QuAD gradual semantics over  *)
(* a weighted framework of supports and attacks, solved by synchronous     *)
(* sweeps under an iteration bound, and the state read off the solution.   *)
(*                                                                         *)
(* A strength in [0, 1] is a number of units 0 .. Unit, and products round *)
(* down to a unit as floating point rounds to its own; the tolerance is    *)
(* below one unit.                                                         *)
(***************************************************************************)
EXTENDS Integers, FiniteSets, FiniteSetsExt, Folds

CONSTANTS
    Unit,          \* the strength 1.0
    MaxSweeps,     \* max_iterations of solve
    Id(_)          \* the order of node ids

ASSUME QbafBounds == Unit \in Nat \ {0} /\ MaxSweeps \in Nat \ {0}

Strength == 0 .. Unit
Scaled(x, y) == (x * y) \div Unit

\* A BAF is a record [arguments, supports, attacks] and an edge a record
\* [src, dst, strength]; parallel edges may differ in a further field.
\* assemble_baf lists the edges in the order of edge_key.
SortsBefore(e, d) == Id(e.src) < Id(d.src) \/ (Id(e.src) = Id(d.src) /\ e.strength < d.strength)
LastEdge(edges) == CHOOSE e \in edges : \A d \in edges : ~SortsBefore(e, d)

\* _prob_sum over the contributions of edges into one argument, in that order.
Joined(acc, c) == acc + c - Scaled(acc, c)
_prob_sum(edges, f) ==
    MapThenFoldSet(LAMBDA c, acc : Joined(acc, c), 0,
                   LAMBDA e : Scaled(e.strength, f[e.src]), LastEdge, edges)

\* _df_quad_combine.
CombineFlipped(base, support, attack) ==
    IF attack > support THEN base + Scaled(Unit - base, attack - support)
    ELSE base - Scaled(base, support - attack)
_df_quad_combine(base, support, attack) ==
    IF support > attack THEN base + Scaled(Unit - base, support - attack)
    ELSE base - Scaled(base, attack - support)

\* _incoming_index: an edge with an endpoint outside the framework is ignored.
Incoming(baf, edges, a) == {e \in edges : e.dst = a /\ e.src \in baf.arguments}

\* aggregate_evidence for one argument.
AggregateSupport(baf, f, a) == _prob_sum(Incoming(baf, baf.supports, a), f)
AggregateAttack(baf, f, a) == _prob_sum(Incoming(baf, baf.attacks, a), f)

\* One synchronous sweep, from the base scores every time.
CompoundingSweep(baf, base, f) ==
    [a \in baf.arguments |->
        _df_quad_combine(f[a], AggregateSupport(baf, f, a), AggregateAttack(baf, f, a))]
sweep(baf, base, f) ==
    [a \in baf.arguments |->
        _df_quad_combine(base[a], AggregateSupport(baf, f, a), AggregateAttack(baf, f, a))]

\* What one more sweep would still move.
NothingMoves(baf, base, f) == {}
StillMoving(baf, base, f) == {a \in baf.arguments : sweep(baf, base, f)[a] # f[a]}

\* solve: sweep from the base scores until nothing moves or the bound is hit.
solve(baf, base) ==
    LET start == [sigma |-> [a \in baf.arguments |-> base[a]], converged |-> FALSE, iterations |-> 0]
        run[i \in 0 .. MaxSweeps] ==
            IF i = 0 THEN start
            ELSE LET prev == run[i - 1]
                     nxt  == sweep(baf, base, prev.sigma)
                 IN  IF prev.converged THEN prev
                     ELSE [sigma |-> nxt, converged |-> nxt = prev.sigma, iterations |-> i]
        end == run[MaxSweeps]
    IN  [acceptability |-> end.sigma,
         converged |-> end.converged,
         iterations |-> end.iterations,
         unstable |-> IF end.converged THEN {} ELSE StillMoving(baf, base, end.sigma)]

\* band(acceptability) is plausible or true: at least 0.5.
Plausible(x) == 2 * x >= Unit

\* classify_state.
classify_state(acceptability, support, attack) ==
    IF Plausible(acceptability) THEN "supported"
    ELSE IF attack > support THEN "refuted" ELSE "unsupported"

\* adjudicate: the state of an argument in a solution.
StateOf(baf, f, a) ==
    classify_state(f[a], AggregateSupport(baf, f, a), AggregateAttack(baf, f, a))

=============================================================================
