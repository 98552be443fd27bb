---------------------------- MODULE RefundLedger ----------------------------
(***************************************************************************)
(* What the refunds of a store promise, whoever asks for them and whoever  *)
(* pays them: a refund is owed out of what its invoice received and is not *)
(* spoken for; it is closed once, as repaid if its money has left and as   *)
(* dropped if it has not, and no money leaves for a closed refund.         *)
(***************************************************************************)
EXTENDS Naturals, Functions

CONSTANTS
    Refunds,
    Invoices

VARIABLES
    received,   \* the most an invoice was ever known to have received
    entry,      \* what the books say of a refund
    left        \* the refunds whose money has left

ledgerVars == <<received, entry, left>>

NoEntry == [stage |-> "absent"]
Entry == [stage : {"owed", "repaid", "dropped"}, invoice : Invoices, sats : Nat]

LedgerTypeOK ==
    /\ received \in [Invoices -> Nat]
    /\ entry \in [Refunds -> {NoEntry} \cup Entry]
    /\ left \subseteq Refunds

LedgerInit ==
    /\ received \in [Invoices -> Nat]
    /\ entry = [r \in Refunds |-> NoEntry]
    /\ left = {}

\* What an invoice's refunds took or may still take.
Spoken(invoice) ==
    SumFunctionOnSet([r \in Refunds |-> IF entry[r] = NoEntry THEN 0 ELSE entry[r].sats],
                     {r \in Refunds : /\ entry[r].stage \in {"owed", "repaid"}
                                      /\ entry[r].invoice = invoice})

\* A payment arrives, and nothing that was observed of it later takes it back.
Receive(invoice) ==
    /\ received'[invoice] \in Nat
    /\ received'[invoice] > received[invoice]
    /\ received' = [received EXCEPT ![invoice] = received'[invoice]]
    /\ UNCHANGED <<entry, left>>

Owe(r, invoice, sats) ==
    /\ entry[r] = NoEntry
    /\ sats > 0 /\ Spoken(invoice) + sats <= received[invoice]
    /\ entry' = [entry EXCEPT ![r] =
                    [stage |-> "owed", invoice |-> invoice, sats |-> sats]]
    /\ UNCHANGED <<received, left>>

\* A second payment of an owed refund changes nothing here: how often the money
\* leaves is what PaidOnceUnlessUncertain is about.
Send(r) ==
    /\ entry[r].stage = "owed"
    /\ left' = left \cup {r}
    /\ UNCHANGED <<received, entry>>

Repay(r) ==
    /\ entry[r].stage = "owed" /\ r \in left
    /\ entry' = [entry EXCEPT ![r].stage = "repaid"]
    /\ UNCHANGED <<received, left>>

Drop(r) ==
    /\ entry[r].stage = "owed" /\ r \notin left
    /\ entry' = [entry EXCEPT ![r].stage = "dropped"]
    /\ UNCHANGED <<received, left>>

LedgerNext ==
    \/ \E invoice \in Invoices : Receive(invoice)
    \/ \E r \in Refunds :
        \/ \E invoice \in Invoices : \E sats \in 1..received[invoice] :
              Owe(r, invoice, sats)
        \/ Send(r) \/ Repay(r) \/ Drop(r)

LedgerSpec == LedgerInit /\ [][LedgerNext]_ledgerVars
=============================================================================
