------------------------------ MODULE MCRefunds ------------------------------
(***************************************************************************)
(* Small instances of Refunds for TLC.                                     *)
(***************************************************************************)
EXTENDS Refunds, TLC

CONSTANTS bolt11, address, uri, lnurl   \* destinations

MCTypeOf ==
    [d \in Destinations |->
        CASE d = bolt11 -> "lightning_invoice" [] d = address -> "bitcoin_address"
          [] d = uri -> "bitcoin_uri" [] d = lnurl -> "lnurl"]

\* The Lightning invoice asks for the smallest amount a refund may have.
SmallBolt11 == [d \in Destinations |-> IF d = bolt11 THEN 1 ELSE 0]

Off == [enabled |-> FALSE, max |-> 1, daily |-> 1, threshold |-> 0]
Roomy == [enabled |-> TRUE, max |-> 3, daily |-> 4, threshold |-> 4]
Guarded == [enabled |-> TRUE, max |-> 2, daily |-> 3, threshold |-> 2]

BothRoomy == [x \in Rails |-> Roomy]
BothGuarded == [x \in Rails |-> Guarded]
BothOff == [x \in Rails |-> Off]

Symmetry == Permutations(Refunds) \cup Permutations(Clients)
            \cup Permutations(Executors)
==============================================================================
