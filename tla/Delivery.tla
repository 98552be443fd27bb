------------------------------ MODULE Delivery ------------------------------
(***************************************************************************)
(* What a queue of deliveries promises, however many loops work on it:     *)
(* deliveries are numbered as they are enqueued, each is owed until it was *)
(* received, is taken for done only after that, and then for ever.         *)
(***************************************************************************)
EXTENDS Naturals

CONSTANT Most       \* bound: deliveries

VARIABLE stage

Stages == {"absent", "owed", "received", "done"}

DeliveryTypeOK == stage \in [1..Most -> Stages]

DeliveryInit == stage = [d \in 1..Most |-> "absent"]

Become(d, from, to) ==
    /\ stage[d] = from
    /\ stage' = [stage EXCEPT ![d] = to]

Owe(d) ==
    /\ \A c \in 1..Most : c < d => stage[c] /= "absent"
    /\ Become(d, "absent", "owed")

Receive(d) == Become(d, "owed", "received")

Finish(d) == Become(d, "received", "done")

DeliveryNext == \E d \in 1..Most : Owe(d) \/ Receive(d) \/ Finish(d)

DeliverySpec == DeliveryInit /\ [][DeliveryNext]_stage
=============================================================================
