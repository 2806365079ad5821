------------------------------ MODULE Channel ------------------------------
(* What a hand-off queue of the capture path promises: chunks, numbered      *)
(* in the order in which the producer handed them over, reach the consumer   *)
(* in that order, each exactly once; a bounded number is in flight; and the  *)
(* channel is closed only once nothing is in flight.                         *)
EXTENDS Integers

CONSTANT Capacity    \* chunks that may be in flight

VARIABLES sent,    \* number of the last chunk the producer handed over
          got,     \* number of the last chunk the consumer finished with
          closed   \* the channel has been shut down

cvars == <<sent, got, closed>>

CInit == sent = 0 /\ got = 0 /\ closed = FALSE

CSend == /\ ~closed
         /\ sent - got < Capacity
         /\ sent' = sent + 1
         /\ UNCHANGED <<got, closed>>

CDeliver == /\ got < sent
            /\ got' = got + 1
            /\ UNCHANGED <<sent, closed>>

CClose == /\ ~closed
          /\ got = sent
          /\ closed' = TRUE
          /\ UNCHANGED <<sent, got>>

CNext == CSend \/ CDeliver \/ CClose

CSpec == CInit /\ [][CNext]_cvars
=============================================================================
