------------------------------ MODULE Stabilize ------------------------------
(***************************************************************************)
(* The termination discipline of the composed loop (function stabilize of  *)
(* core/composed_loop.py): run a step function to a fixpoint under a hard  *)
(* bound, and tell a fixpoint, an oscillation and a divergence apart.      *)
(*                                                                         *)
(* The dictionary seen (key -> index in trajectory) is a function of the   *)
(* trajectory, whose keys are distinct.                                    *)
(***************************************************************************)
EXTENDS Naturals, Sequences

CONSTANTS
    State,         \* the states S of the loop
    Key(_),        \* the identity cycles are detected by
    MaxIterations  \* max_iterations, the hard bound

\* max_iterations must be >= 1: stabilize raises a ValueError otherwise.
ASSUME BoundIsPositive == MaxIterations \in Nat \ {0}

VARIABLES
    step,        \* the transition function; fixed during a call
    trajectory,  \* states visited, the initial one first
    iterations,  \* applications of step
    status,      \* "running" or the Stability of the result
    state,       \* the final state of the result
    cycle        \* the unstable region of an oscillating result

stabilizeVars == <<step, trajectory, iterations, status, state, cycle>>

Stability == {"converged", "oscillating", "diverged"}

Start(s) ==
    /\ trajectory = <<s>>
    /\ iterations = 0
    /\ status = "running"
    /\ state = s
    /\ cycle = <<>>

StabilizeInit == step \in [State -> State] /\ \E s \in State : Start(s)

current == trajectory[Len(trajectory)]

\* The indices at which a state with the key of s was visited.
Seen(s) == {i \in DOMAIN trajectory : Key(trajectory[i]) = Key(s)}

\* trajectory[seen[nxt_key]:], from the earlier occurrence to now.
FromNext(i) == SubSeq(trajectory, i + 1, Len(trajectory))
From(i) == SubSeq(trajectory, i, Len(trajectory))

\* Has the loop used up its bound with this application of step?
LastOne == iterations + 1 = MaxIterations

Converge(nxt) ==
    /\ Key(nxt) = Key(current)
    /\ status' = "converged"
    /\ state' = nxt
    /\ UNCHANGED <<trajectory, cycle>>

Oscillate(nxt) ==
    /\ Key(nxt) # Key(current)
    /\ \E i \in Seen(nxt) : cycle' = From(i)
    /\ status' = "oscillating"
    /\ state' = nxt
    /\ trajectory' = Append(trajectory, nxt)

\* Record a new state; the last iteration of the bound diverges.
Advance(nxt) ==
    /\ Key(nxt) # Key(current)
    /\ Seen(nxt) = {}
    /\ trajectory' = Append(trajectory, nxt)
    /\ state' = nxt
    /\ status' = IF LastOne THEN "diverged" ELSE "running"
    /\ UNCHANGED cycle

\* Going round a cycle again instead of reporting it, without counting.
Rewind(nxt) ==
    /\ Key(nxt) # Key(current)
    /\ \E i \in Seen(nxt) : trajectory' = SubSeq(trajectory, 1, i)
    /\ UNCHANGED <<status, state, cycle>>
IterateUncounted(nxt) ==
    /\ status = "running"
    /\ UNCHANGED iterations
    /\ Converge(nxt) \/ Rewind(nxt) \/ Advance(nxt)

\* One iteration of the for loop.
Iterate(nxt) ==
    /\ status = "running"
    /\ iterations' = iterations + 1
    /\ Converge(nxt) \/ Oscillate(nxt) \/ Advance(nxt)

StabilizeNext == Iterate(step[current]) /\ UNCHANGED step

\* A synchronous loop.
StabilizeSpec == StabilizeInit /\ [][StabilizeNext]_stabilizeVars /\ WF_stabilizeVars(StabilizeNext)

-----------------------------------------------------------------------------

StabilizeTypeOK ==
    /\ step \in [State -> State]
    /\ trajectory \in Seq(State) /\ trajectory # <<>>
    /\ iterations \in 0 .. MaxIterations
    /\ status \in Stability \cup {"running"}
    /\ state \in State
    /\ cycle \in Seq(State)

\* The trajectory is the orbit of its first state and holds no state twice,
\* except for the one state that closes an oscillation.
TrajectoryIsOrbit ==
    LET fresh == IF status = "oscillating" THEN Len(trajectory) - 1 ELSE Len(trajectory)
    IN  /\ \A i \in 1 .. Len(trajectory) - 1 : trajectory[i + 1] = step[trajectory[i]]
        /\ \A i, j \in 1 .. fresh : Key(trajectory[i]) = Key(trajectory[j]) => i = j

\* Convergence is genuine: the last state visited steps to one the caller
\* cannot tell from it, and no oscillation is reported beside it.
ConvergedIsFixpoint ==
    status = "converged" => /\ state = step[current]
                            /\ Key(state) = Key(current)
                            /\ cycle = <<>>

\* An oscillation is a genuine cycle of period > 1: pairwise different
\* states, each the step of the one before, the last stepping back to the
\* key of the first.
OscillationIsCycle ==
    status = "oscillating" =>
        /\ Len(cycle) > 1
        /\ \A i \in 1 .. Len(cycle) - 1 : cycle[i + 1] = step[cycle[i]]
        /\ \A i, j \in 1 .. Len(cycle) : Key(cycle[i]) = Key(cycle[j]) => i = j
        /\ state = step[cycle[Len(cycle)]]
        /\ Key(state) = Key(cycle[1])

\* Divergence is reported only after the whole bound, with every visited
\* state new: nothing that recurred is passed off as divergence.
DivergedIsExhausted ==
    status = "diverged" => /\ iterations = MaxIterations
                           /\ Len(trajectory) = MaxIterations + 1
                           /\ cycle = <<>>

\* The result tells the truth about the orbit: each of the three outcomes is
\* reported only when it is what happened.
OutcomeIsTrue ==
    /\ TrajectoryIsOrbit
    /\ ConvergedIsFixpoint
    /\ OscillationIsCycle
    /\ DivergedIsExhausted

\* The loop always ends: a step function that never repeats runs out of
\* iterations.
Terminates == <>(status # "running")

=============================================================================
