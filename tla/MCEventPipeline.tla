--------------------------- MODULE MCEventPipeline ---------------------------
\* Two matches of a user and a guest, two workers (a stale one may outlive its
\* replacement).
EXTENDS EventPipeline

CONSTANTS m1, m2, ann, guest, w1, w2
=============================================================================
