------------------------- MODULE MCSessionAutomation -------------------------
(* What the environment does in the runs of SessionAutomation. *)
EXTENDS SessionAutomation

MCAllActs == ActKinds
MCEdits == {"edit"}
=============================================================================
