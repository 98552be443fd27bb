--------------------------- MODULE MCWebhookQueue ---------------------------
(***************************************************************************)
(* Small instances of WebhookQueue for TLC.                                *)
(***************************************************************************)
EXTENDS WebhookQueue, TLC

CONSTANTS a1, a2, b1, b2    \* events of the stores A and B
CONSTANTS A, B

MCStoreOf == [e \in Events |-> IF e \in {a1, a2} THEN A ELSE B]

Everywhere == [s \in Stores |-> Served]
WithB(setup) == [Everywhere EXCEPT ![B] = setup]

Gone == [url |-> FALSE, secret |-> "unnamed"]
UrlGone == [url |-> FALSE, secret |-> "set"]
SecretMissing == [url |-> TRUE, secret |-> "missing"]

\* The second store is served, or in each way is not.
AnySetup == {Everywhere} \cup {WithB(s) : s \in {Gone, UrlGone, SecretMissing}}
BStranded == {Everywhere, WithB(Gone), WithB(SecretMissing)}

Symmetry == Permutations(Loops)
==============================================================================
