----------------------------- MODULE MCObjectStatus -----------------------------
\* The instance TLC checks: ObjectStatus.cfg gives the constants.
EXTENDS ObjectStatus
=============================================================================
