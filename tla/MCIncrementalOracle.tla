------------------------ MODULE MCIncrementalOracle ------------------------
(* Three nodes and four rules: a cycle between b and c that runs through a  *)
(* conjunctive body, a second way to ground b, and an axiomatic rule.  With *)
(* the 8 sets of base facts that makes 128 graphs, and every pair of them   *)
(* occurs as a retained and a requested snapshot.                           *)
EXTENDS IncrementalOracle

CONSTANTS a, b, c

MCNode == {a, b, c}
MCRule == { [conclusion |-> b, body |-> {a}],
            [conclusion |-> b, body |-> {c}],
            [conclusion |-> c, body |-> {a, b}],
            [conclusion |-> a, body |-> {}] }

=============================================================================
