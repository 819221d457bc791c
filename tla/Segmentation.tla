---------------------------- MODULE Segmentation ----------------------------
(***************************************************************************)
(* Cutting a document into spans (core/segmentation.py): valleys of the    *)
(* smoothed similarity of adjacent sentences are candidate boundaries, and *)
(* a dynamic program chooses among them, per level.                        *)
(*                                                                         *)
(* A sentence has a vector in one dimension, -1 or 1, and 0 when it pools  *)
(* no token, so cosines and norms are exact integers.  A boundary is a     *)
(* number of sentences.  Scores are in fiftieths, the default policy's     *)
(* weights being multiples of them.                                        *)
(***************************************************************************)
EXTENDS Integers, FiniteSets, FiniteSetsExt, Functions

CONSTANTS
    EmbeddedText,  \* the documents: records [vectors, densities] of functions on 0 .. N-1
    Policies       \* the policies: sets of levels [level, max_len, penalty]

VARIABLES
    text, policy,
    spans   \* per level the boundaries chosen; empty before the call

segmenterVars == <<text, policy, spans>>

SumOver(f, S) == SumFunctionOnSet(f, S)
Abs(n) == IF n < 0 THEN -n ELSE n
Length(f) == Cardinality(DOMAIN f)

ASSUME TextsAreTexts ==
    \A t \in EmbeddedText :
        LET n == Length(t.vectors)
        IN  n \in Nat /\ {t.vectors, t.densities} \subseteq [0 .. n - 1 -> Int]
ASSUME LevelsAreLevels ==
    \A levels \in Policies : \A lvl \in levels : lvl.max_len \in Nat \ {0} /\ lvl.penalty \in Int

-----------------------------------------------------------------------------
(* The boundary signal, in sixths: windows of one to three similarities. *)

calculate_adjacent_similarities(e) == [i \in 0 .. Length(e) - 2 |-> e[i] * e[i + 1]]
smooth_similarities(s) ==
    [i \in DOMAIN s |-> LET window == (i - 1 .. i + 1) \cap DOMAIN s
                        IN  (6 * SumOver(s, window)) \div Cardinality(window)]

\* Strict local minima more than one standard deviation below the mean.
find_valleys(s) ==
    LET n == Length(s)
        below(i) == SumOver(s, DOMAIN s) - n * s[i]
        variance == n * SumOver([i \in DOMAIN s |-> s[i] * s[i]], DOMAIN s)
                    - SumOver(s, DOMAIN s) * SumOver(s, DOMAIN s)
    IN  {i \in 1 .. n - 2 : /\ s[i] < s[i - 1] /\ s[i] < s[i + 1]
                            /\ below(i) > 0 /\ below(i) * below(i) > variance}
Valleys(t) == find_valleys(smooth_similarities(calculate_adjacent_similarities(t.vectors)))

-----------------------------------------------------------------------------
(* segment_dp. *)

\* The boundaries to choose from: the valleys, and a cut after every max_len
\* sentences where they are further apart.
Candidates(valleys, n, max_len) ==
    LET fixed == {0, n} \cup {v \in valleys : 0 < v /\ v < n}
        previous(c) == Max({b \in fixed : b <= c})
    IN  {c \in 0 .. n : (c - previous(c)) % max_len = 0}

\* A segment's score: the norm of its sum, half its density, minus the penalty.
Penalty(lvl, length) == lvl.penalty * length
Score(t, lvl, from, to) ==
    50 * Abs(SumOver(t.vectors, from .. to - 1)) + 25 * SumOver(t.densities, from .. to - 1)
    - Penalty(lvl, to - from)

\* Of the best predecessors the nearest: they are tried from the nearest on,
\* and a later one must score strictly higher.
Furthest(best) == Min(best)
Nearest(best) == Max(best)
segment_dp(t, valleys, lvl) ==
    LET cands == Candidates(valleys, Length(t.vectors), lvl.max_len)
        reach(c) == {p \in cands : p < c /\ c - p <= lvl.max_len}
        dp[c \in cands] == IF c = 0 THEN 0
                           ELSE Max({dp[p] + Score(t, lvl, p, c) : p \in reach(c)})
        backtrack(c) == Nearest({p \in reach(c) : dp[p] + Score(t, lvl, p, c) = dp[c]})
        path[c \in cands] == IF c = 0 THEN {0} ELSE {c} \cup path[backtrack(c)]
    IN  path[Length(t.vectors)]

\* Every level from one signal; one covering span at the finest level when no
\* sentence has a token, nothing at any level when there is no sentence.
Silent(t) == \A i \in DOMAIN t.vectors : t.vectors[i] = 0
segment_document_levels(t, levels) ==
    LET n == Length(t.vectors)
        finest == CHOOSE lvl \in levels : \A other \in levels : lvl.level <= other.level
    IN  IF n = 0 THEN [lvl \in levels |-> {0}]
        ELSE IF Silent(t) THEN [lvl \in {finest} |-> {0, n}]
        ELSE [lvl \in levels |-> segment_dp(t, Valleys(t), lvl)]

SegmenterInit == text \in EmbeddedText /\ policy \in Policies /\ spans = <<>>
Segment ==
    /\ spans = <<>>
    /\ spans' = segment_document_levels(text, policy)
    /\ UNCHANGED <<text, policy>>

SegmenterSpec == SegmenterInit /\ [][Segment]_segmenterVars

-----------------------------------------------------------------------------

\* A tiling by the boundaries B: the segments are the steps between neighbours.
Steps(B) == {s \in B \X B : s[1] < s[2] /\ ~\E b \in B : s[1] < b /\ b < s[2]}
Fits(B, lvl) == \A s \in Steps(B) : s[2] - s[1] <= lvl.max_len
Total(t, lvl, B) == SumFunction([s \in Steps(B) |-> Score(t, lvl, s[1], s[2])])

\* Every level tiles the document in segments that fit, no tiling over the
\* candidate boundaries scores higher (segment_dp against all of them), and
\* the penalty decides nothing: being linear it adds up to the same for every
\* tiling, the norm of a whole never exceeds that of its parts, and so every
\* candidate is a boundary, at the coarse level too.
SegmentsAreOptimal ==
    \A lvl \in DOMAIN spans :
        LET n == Length(text.vectors)
            all == Candidates(Valleys(text), n, lvl.max_len)
        IN  \/ n = 0
            \/ Silent(text) /\ spans[lvl] = {0, n}
            \/ /\ {0, n} \subseteq spans[lvl] /\ Fits(spans[lvl], lvl)
               /\ \A B \in {X \cup {0, n} : X \in SUBSET all} :
                    Fits(B, lvl) => Total(text, lvl, B) <= Total(text, lvl, spans[lvl])
               /\ spans[lvl] = all

=============================================================================
