----------------------------- MODULE MCLifecycle -----------------------------
(* Instances of the lifecycle agent for TLC. *)
EXTENDS Lifecycle

MCStart == {"TRIALING", "PAST_DUE"}

\* A downgrade is handled as an upgrade is: one of the two is enough.
MCKinds == TickerKinds \ {"DOWNGRADE"}

\* One kind of each shape of handler: a status read from the answer, a resume
\* scheduled, a subscription given up, an escalation.
MCShapes == {"UPGRADE", "PAUSE", "TRIAL_CANCEL", "RETRY_PAYMENT"}
=============================================================================
