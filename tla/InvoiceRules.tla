---------------------------- MODULE InvoiceRules ----------------------------
(***************************************************************************)
(* How the status of an invoice follows from what a poll of the Bitcoin    *)
(* network (src/onchain.rs) or of a Lightning backend (src/lightning.rs)   *)
(* finds, and which invoices are still polled (src/storage.rs).            *)
(***************************************************************************)
EXTENDS Integers

\* Of the statuses of InvoiceStatus all that the code assigns: nothing makes an
\* invoice "invalid".
InvoiceStatuses ==
    {"new", "payment_detected", "partially_paid", "settled", "expired", "paid_late"}

\* Mutants: a late payment is not looked for; a detected payment is taken for
\* good; a settled invoice is looked at again.
ForgetsDetected == {"new", "partially_paid", "expired"}
ForgetsExpired == {"new", "payment_detected", "partially_paid"}
KeepsSettled == {"new", "payment_detected", "partially_paid", "expired", "settled"}

\* The statuses active_onchain_invoices and active_lightning_invoices select,
\* and those expirable_invoices does.
ActiveStatuses == {"new", "payment_detected", "partially_paid", "expired"}
ExpirableStatuses == {"new", "partially_paid"}

\* Mutant: a payment detected in time is settled at expiry, confirmed or not.
DetectedInTimeTrusted(confirmed, due) == "settled"

\* A payment detected in time may still confirm at the first poll after expiry.
DetectedInTime(confirmed, due) ==
    IF confirmed >= due THEN "settled" ELSE "expired"

\* onchain::next_status: confirmed and unconfirmed balance of the address.
OnchainStatus(current, late, due, confirmed, unconfirmed) ==
    LET covered == confirmed + unconfirmed >= due
    IN CASE current = "expired" -> IF covered THEN "paid_late" ELSE "expired"
         [] current \in {"new", "partially_paid"} /\ late ->
                IF covered THEN "paid_late" ELSE "expired"
         [] current = "payment_detected" /\ late -> DetectedInTime(confirmed, due)
         [] current \in {"settled", "paid_late"} /\ late -> current
         [] current /= "expired" /\ ~late ->
                IF confirmed >= due THEN "settled"
                ELSE IF covered THEN "payment_detected"
                ELSE IF confirmed + unconfirmed > 0 THEN "partially_paid"
                ELSE current

\* Mutant: an invoice that expired between two polls is settled.
LightningStatusUntimed(current, late, paid) ==
    CASE paid /\ current = "expired" -> "paid_late"
      [] paid /\ current /= "expired" -> "settled"
      [] ~paid /\ late -> "expired"
      [] ~paid /\ ~late -> current

\* lightning::next_status: the backend reports the full amount as received.
LightningStatus(current, late, paid) ==
    CASE paid /\ (current = "expired" \/ late) -> "paid_late"
      [] paid /\ current /= "expired" /\ ~late -> "settled"
      [] ~paid /\ late -> "expired"
      [] ~paid /\ ~late -> current

\* Mutant: the unconfirmed balance taken off instead of added.
AmountsLess(confirmed, unconfirmed) ==
    [paid |-> confirmed - unconfirmed, confirmed |-> confirmed,
     unconfirmed |-> unconfirmed]

\* The three sums stored with an invoice.
Amounts(confirmed, unconfirmed) ==
    [paid |-> confirmed + unconfirmed, confirmed |-> confirmed,
     unconfirmed |-> unconfirmed]
==============================================================================
