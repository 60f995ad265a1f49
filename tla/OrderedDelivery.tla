-------------------------- MODULE OrderedDelivery --------------------------
(***************************************************************************)
(* What a consumer of the receiver's frames may rely on, whatever lies     *)
(* between the decoder and it: frames may be missing, but those it gets    *)
(* were sent, and come in their order and once.                            *)
(***************************************************************************)
EXTENDS Naturals, Sequences

VARIABLES
    sent,       \* how many frames were sent; their numbers are 1..sent
    received    \* the numbers of the frames received

deliveryVars == <<sent, received>>

DeliveryInit == sent = 0 /\ received = <<>>

Send == sent' = sent + 1 /\ UNCHANGED received

Receive ==
    \E f \in 1..sent :
        /\ \A i \in 1..Len(received) : received[i] < f
        /\ received' = Append(received, f)
        /\ UNCHANGED sent

DeliveryNext == Send \/ Receive

DeliverySpec == DeliveryInit /\ [][DeliveryNext]_deliveryVars
=============================================================================
