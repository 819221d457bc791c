---------------------------- MODULE EnsembleGate ----------------------------
(***************************************************************************)
(* The gate a refutation must pass before it is acted on                   *)
(* (core/ensemble_gate.py).  A report is a function from the channels that *)
(* spoke to their stance, so a channel never reports twice (the            *)
(* ValueError of authorise).                                               *)
(***************************************************************************)
GateChannel == {"llm", "symbolic", "temporal"}
ChannelStance == {"affirm", "dissent", "abstain"}

\* DEFAULT_GATE: the channels that must affirm.
DEFAULT_GATE == {"llm", "symbolic"}

\* authorise: any dissent vetoes, and every required channel must affirm; a
\* channel that did not report abstained.
Stance(report, c) == IF c \in DOMAIN report THEN report[c] ELSE "abstain"
AuthoriseUnvetoed(report) == \A c \in DEFAULT_GATE : Stance(report, c) # "abstain"
authorise(report) ==
    /\ \A c \in GateChannel : Stance(report, c) # "dissent"
    /\ \A c \in DEFAULT_GATE : Stance(report, c) = "affirm"

=============================================================================
