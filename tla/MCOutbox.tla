------------------------------ MODULE MCOutbox -------------------------------
EXTENDS Outbox, TLC

CONSTANTS r1, r2, r3, k1, k2

\* Two attempts of one submission, and another submission.
KeyOfThree == r1 :> k1 @@ r2 :> k1 @@ r3 :> k2
==============================================================================
