----------------------------- MODULE Consistency -----------------------------
(***************************************************************************)
(* Extraction by several samples (core/proposition.py, _infer_span) and    *)
(* the consolidation of what they say (core/consistency.py).  The samples  *)
(* are asked at once and answer in any order; what they find is theirs.    *)
(*                                                                         *)
(* A statement is a record [vector, polarity, class]; a candidate is one   *)
(* with the sample it comes from and its position there.                   *)
(***************************************************************************)
EXTENDS Integers, Sequences, FiniteSets, Functions

CONSTANTS
    NSamples,          \* n_samples
    Answer,            \* the lists of statements a sample may answer with
    Similarity(_, _),  \* of two vectors, the greater the closer
    Threshold          \* agreement_threshold

\* __init__ refuses fewer than one sample; an answer is a list.
ASSUME SamplesAreLists ==
    /\ NSamples \in Nat \ {0}
    /\ \A a \in Answer : a \in Seq({a[i] : i \in DOMAIN a})

\* _cosine of L2-normalized vectors: symmetric, and greatest of a vector and itself.
Vectors == UNION {{a[i].vector : i \in DOMAIN a} : a \in Answer}
ASSUME SimilarityIsCosine ==
    /\ Threshold \in Int
    /\ \A v, w \in Vectors :
        /\ Similarity(v, w) \in Int /\ Similarity(v, w) = Similarity(w, v)
        /\ Similarity(v, v) >= Threshold

VARIABLES
    samples,  \* sample -> its answer, for those that have answered
    results   \* what was consolidated; empty before

samplingVars == <<samples, results>>

Alike(c, d) == Similarity(c.vector, d.vector) >= Threshold

\* _ordered.
Before(c, d) == c.sample < d.sample \/ (c.sample = d.sample /\ c.position < d.position)
First(S) == CHOOSE c \in S : \A d \in S \ {c} : Before(c, d)

\* cluster_candidates: in order, each joins the first cluster whose opener it
\* is like, or opens one.
cluster_candidates(candidates) ==
    LET opener[c \in candidates] ==
            LET open == {d \in candidates : Before(d, c) /\ opener[d] = d /\ Alike(c, d)}
            IN  IF open = {} THEN c ELSE First(open)
    IN  {{c \in candidates : opener[c] = o} : o \in {opener[c] : c \in candidates}}

\* cluster_candidates_partitioned: a claim and its negation never share one.
Kind(c) == <<c.polarity, c.class>>
Of(kind, candidates) == {c \in candidates : Kind(c) = kind}
cluster_candidates_partitioned(candidates) ==
    UNION {cluster_candidates(Of(kind, candidates)) : kind \in {Kind(c) : c \in candidates}}

\* canonical_of: the medoid, the first of several.
Centrality(c, cluster) == SumFunction([d \in cluster \ {c} |-> Similarity(c.vector, d.vector)])
canonical_of(cluster) ==
    First({c \in cluster : \A d \in cluster : Centrality(d, cluster) <= Centrality(c, cluster)})

\* agreement_of, in samples: how many of them said it.
CountMembers(cluster) == Cardinality(cluster)
agreement_of(cluster) == Cardinality({c.sample : c \in cluster})

\* consolidate_samples: a cluster whose medoid is like that of one with the
\* other polarity is unstable.
consolidate_samples(candidates) ==
    LET clusters == cluster_candidates_partitioned(candidates)
        twin(p, q) == /\ canonical_of(p).polarity # canonical_of(q).polarity
                      /\ Alike(canonical_of(p), canonical_of(q))
    IN  {[canonical |-> canonical_of(p), agreement |-> agreement_of(p), members |-> p,
          polarity_unstable |-> \E q \in clusters : twin(p, q)] : p \in clusters}

-----------------------------------------------------------------------------

Asked == 1 .. NSamples
Flat(answers) ==
    UNION {{[sample |-> s, position |-> i, vector |-> answers[s][i].vector,
             polarity |-> answers[s][i].polarity, class |-> answers[s][i].class] :
                i \in DOMAIN answers[s]} : s \in DOMAIN answers}

SamplingInit == samples = [s \in {} |-> <<>>] /\ results = {}

sample_once(s, answer) ==
    /\ s \in Asked \ DOMAIN samples
    /\ samples' = [t \in DOMAIN samples \cup {s} |-> IF t = s THEN answer ELSE samples[t]]
    /\ UNCHANGED results

\* All have answered.  A single sample is not consolidated.
Consolidated(candidates) ==
    IF NSamples = 1
    THEN {[canonical |-> c, agreement |-> 1, members |-> {c}, polarity_unstable |-> FALSE] : c \in candidates}
    ELSE consolidate_samples(candidates)
_infer_span ==
    /\ DOMAIN samples = Asked /\ results = {}
    /\ results' = Consolidated(Flat(samples))
    /\ UNCHANGED samples

SamplingNext == _infer_span \/ \E s \in Asked, answer \in Answer : sample_once(s, answer)

SamplingSpec == SamplingInit /\ [][SamplingNext]_samplingVars

-----------------------------------------------------------------------------

\* Every candidate is accounted for once, in a proposition of its own sign and
\* class whose opener it is like.
EachAccountedOnce ==
    \A c \in Flat(samples) :
        /\ Cardinality({r \in results : c \in r.members}) = 1
        /\ \A r \in results : c \in r.members =>
             Kind(c) = <<r.canonical.polarity, r.canonical.class>> /\ Alike(c, First(r.members))

\* Claims that do not blur into one another: likeness is transitive.
Distinct(candidates) ==
    \A a, b, c \in candidates : Alike(a, b) /\ Alike(b, c) => Alike(a, c)

\* Each claim is then one proposition per sign and class; its agreement is the
\* number of samples that said it, however often and in whatever order; and it
\* is marked unstable exactly when some sample said the opposite.
OnePropositionPerClaim ==
    Distinct(Flat(samples)) =>
        \A r \in results :
            LET claim == {c \in Flat(samples) : Alike(c, r.canonical)}
                same == {c \in claim : c.polarity = r.canonical.polarity /\ c.class = r.canonical.class}
            IN  /\ r.members = same
                /\ r.agreement = Cardinality({s \in Asked : \E c \in same : c.sample = s})
                /\ r.polarity_unstable <=> (\E c \in claim : c.polarity # r.canonical.polarity)

\* Consolidation loses no candidate and mixes no two claims, signs or classes.
ConsolidatesClaims ==
    (results # {}) => EachAccountedOnce /\ (NSamples > 1 => OnePropositionPerClaim)

=============================================================================
