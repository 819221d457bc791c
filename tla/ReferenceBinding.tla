-------------------------- MODULE ReferenceBinding --------------------------
(***************************************************************************)
(* The reference binder (core/reference.py) beside the verify-backfill of  *)
(* the proposition layer (core/proposition.py): both rewrite a             *)
(* proposition's provisional reasons.  bind_box reads the entities, then   *)
(* the unbound propositions and the taxonomy, detects mentions, and        *)
(* commits one proposition at a time.  The backfill reads the reasons,     *)
(* asks the verifier, and writes the set back with its own axis replaced.  *)
(***************************************************************************)
EXTENDS CaseStore

CONSTANTS
    Mentions,    \* [Proposition -> sets of mentions [label, kind] detection may find]
    Doubts,      \* reason sets a proposition may come with
    MaxBindings, MaxVerifications

VARIABLES
    reasons,     \* provisional_reasons of each proposition
    refers_to,   \* bound propositions, each with the states of its mentions
    binding,     \* what bind_box holds
    verifying,   \* proposition -> reasons loaded by a verify-backfill
    bindings, verifications,
    raced        \* history: propositions a backfill rewrote from a stale read

referenceBinding == <<reasons, refers_to, binding, verifying, bindings, verifications, raced>>

Unassessed == "unassessed_faithfulness"
Low == "low_faithfulness"
Axis == {Unassessed, Low}
Unbound == "unresolved_reference"

NoBinding == [pc |-> "idle", facts |-> {}, todo |-> {}, taxonomy |-> {}]

BindingInit ==
    /\ reasons \in [Proposition -> Doubts]
    /\ refers_to = [p \in {} |-> {}]
    /\ binding = NoBinding
    /\ verifying = [p \in {} |-> {}]
    /\ bindings = 0 /\ verifications = 0
    /\ raced = {}

bind_box ==
    /\ binding.pc = "idle" /\ bindings < MaxBindings
    /\ bindings' = bindings + 1
    /\ binding' = [NoBinding EXCEPT !.pc = "entities", !.facts = facts]
    /\ UNCHANGED <<reasons, refers_to, verifying, verifications, raced>>

\* The items not bound yet, and the taxonomy.
LoadPending ==
    /\ binding.pc = "entities"
    /\ binding' = [binding EXCEPT !.pc = "persist", !.todo = facts \ DOMAIN refers_to,
                                  !.taxonomy = load_active_taxonomy]
    /\ UNCHANGED <<reasons, refers_to, verifying, bindings, verifications, raced>>

\* A mention never binds to the entities of its own proposition.
OwnEntities(p) == IF p \in binding.facts THEN Ids({p}) ELSE {}
Bound(p, mentions) ==
    LET referents == group_referents(RowsOf(binding.facts), OwnEntities(p))
    IN  {resolve_binding(m, referents, binding.taxonomy).state : m \in mentions}

\* any_open: an open mention is one not confirmed.
OnlyUnresolved(states) == "unresolved" \in states
any_open(states) == ~(states \subseteq {"confirmed"})

\* _persist: mentions, edges, the reason folded into those there, the Action.
_persist(p, mentions) ==
    LET states == Bound(p, mentions)
    IN  /\ binding.pc = "persist" /\ p \in binding.todo
        /\ refers_to' = [q \in DOMAIN refers_to \cup {p} |-> IF q = p THEN states ELSE refers_to[q]]
        /\ reasons' = [reasons EXCEPT ![p] = IF any_open(states) THEN @ \cup {Unbound} ELSE @]
        /\ binding' = [binding EXCEPT !.todo = @ \ {p}]
        /\ UNCHANGED <<verifying, bindings, verifications, raced>>
\* bind_box returns, or its process dies.
BindEnds ==
    /\ binding.pc # "idle"
    /\ binding' = NoBinding
    /\ UNCHANGED <<reasons, refers_to, verifying, bindings, verifications, raced>>

-----------------------------------------------------------------------------

\* reassess_faithfulness_reasons: the verifier's axis is derived anew, the
\* other reasons stay; a verifier that fails leaves it unassessed.
provisional_reasons_for(verdict) ==
    IF verdict = "good" THEN {} ELSE IF verdict = "low" THEN {Low} ELSE {Unassessed}
reassess_faithfulness_reasons(existing, verdict) == (existing \ Axis) \cup provisional_reasons_for(verdict)

VerifyLoad(p) ==
    /\ p \notin DOMAIN verifying /\ verifications < MaxVerifications
    /\ verifications' = verifications + 1
    /\ verifying' = [q \in DOMAIN verifying \cup {p} |-> IF q = p THEN reasons[p] ELSE verifying[q]]
    /\ UNCHANGED <<reasons, refers_to, binding, bindings, raced>>
VerifyWrite(p, verdict) ==
    /\ p \in DOMAIN verifying
    /\ reasons' = [reasons EXCEPT ![p] = reassess_faithfulness_reasons(verifying[p], verdict)]
    /\ raced' = IF verifying[p] = reasons[p] THEN raced ELSE raced \cup {p}
    /\ verifying' = [q \in DOMAIN verifying \ {p} |-> verifying[q]]
    /\ UNCHANGED <<refers_to, binding, bindings, verifications>>

BindingNext ==
    \/ bind_box \/ LoadPending \/ BindEnds
    \/ \E p \in binding.todo : \E mentions \in Mentions[p] : _persist(p, mentions)
    \/ \E p \in Proposition : \/ VerifyLoad(p)
                              \/ \E verdict \in {"good", "low", "failed"} : VerifyWrite(p, verdict)

-----------------------------------------------------------------------------

\* A bound proposition with a mention left open carries unresolved_reference,
\* through deaths, re-runs and later verification; except where a backfill
\* wrote back a set it had read before the binder's commit.
OpenReferenceIsFlagged ==
    \A p \in DOMAIN refers_to \ raced :
        refers_to[p] \cap {"candidate", "unresolved"} # {} => Unbound \in reasons[p]

=============================================================================
