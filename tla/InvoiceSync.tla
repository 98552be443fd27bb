----------------------------- MODULE InvoiceSync -----------------------------
(***************************************************************************)
(* The poller that turns payments into invoice statuses and events         *)
(* (sync_once in src/main.rs).  A run makes three passes over the invoices *)
(* of a store - those with an address, those with a Lightning invoice, and *)
(* those whose time is up - and each pass reads its list first, then works *)
(* through it from that reading.                                           *)
(*                                                                         *)
(* "serve" runs the poller in a loop, and "sync-once" runs it beside it.   *)
(* The network, the Lightning backend and the clock are the environment.   *)
(***************************************************************************)
EXTENDS InvoiceRules, FiniteSets

CONSTANTS
    Invoices,
    HasAddress,      \* invoices with an on-chain address
    HasBolt11,       \* invoices with a Lightning invoice
    Due,             \* invoice -> btc_amount_sats
    Backend,         \* "phoenixd" or "barkd"
    Pollers,         \* runs of sync_once that may be under way
    MaxSats,         \* bound: what an address receives
    MaxReorgs,       \* bound: payments that vanish or lose their block
    MaxAborts        \* bound: runs that end in an error

ASSUME InvoiceAssumption ==
    /\ HasAddress \subseteq Invoices
    /\ HasBolt11 \subseteq Invoices
    /\ Due \in [Invoices -> Nat \ {0}]
    /\ Backend \in {"phoenixd", "barkd"}
    /\ {MaxSats, MaxReorgs, MaxAborts} \subseteq Nat

VARIABLES
    status,      \* invoices.status
    payment,     \* invoices.paid_sats, confirmed_sats, unconfirmed_sats
    events,      \* statuses an event row exists for, per invoice
    enqueued,    \* deliveries enqueued, per invoice and status
    chain,       \* what the address holds
    received,    \* what the Lightning backend received; 0: not paid
    late,        \* expires_at has passed
    poller,
    inTime,      \* on some rail the full amount was there before expires_at
    reorgs, aborts

rowVars == <<status, payment, events, enqueued>>
world   == <<chain, received, late, inTime, reorgs>>
vars    == <<rowVars, world, poller, aborts>>

Passes == {"onchain", "lightning", "expiry"}
Payment == [paid : Nat, confirmed : Nat, unconfirmed : Nat]
Snapshot == [invoice : Invoices, status : InvoiceStatuses, payment : Payment]

Waiting == [at |-> "waiting"]
Listing == [at : {"listing"}, pass : Passes]
Working == [at : {"working"}, pass : Passes, queue : SUBSET Snapshot]
Writing == [at : {"writing"}, pass : Passes, queue : SUBSET Snapshot,
            read : Snapshot, next : InvoiceStatuses, seen : Payment]

TypeOK ==
    /\ status \in [Invoices -> InvoiceStatuses]
    /\ payment \in [Invoices -> Payment]
    /\ events \in [Invoices -> SUBSET InvoiceStatuses]
    /\ enqueued \in [Invoices -> [InvoiceStatuses -> Nat]]
    /\ chain \in [Invoices -> [confirmed : Nat, unconfirmed : Nat]]
    /\ received \in [Invoices -> Nat]
    /\ late \in [Invoices -> BOOLEAN]
    /\ poller \in [Pollers -> {Waiting} \cup Listing \cup Working \cup Writing]
    /\ inTime \in [Invoices -> BOOLEAN]
    /\ reorgs \in Nat
    /\ aborts \in Nat

Init ==
    /\ status = [i \in Invoices |-> "new"]
    /\ payment = [i \in Invoices |-> Amounts(0, 0)]
    /\ events = [i \in Invoices |-> {}]
    /\ enqueued = [i \in Invoices |-> [s \in InvoiceStatuses |-> 0]]
    /\ chain = [i \in Invoices |-> [confirmed |-> 0, unconfirmed |-> 0]]
    /\ received = [i \in Invoices |-> 0]
    /\ late = [i \in Invoices |-> FALSE]
    /\ poller = [p \in Pollers |-> Waiting]
    /\ inTime = [i \in Invoices |-> FALSE]
    /\ reorgs = 0
    /\ aborts = 0

------------------------------------------------------------------------------
(* The environment                                                         *)

OnAddress(i) == chain[i].confirmed + chain[i].unconfirmed

\* Somebody pays the address.
PayOnchain(i) ==
    /\ i \in HasAddress
    /\ \E sats \in 1..MaxSats :
        /\ OnAddress(i) + sats <= MaxSats
        /\ chain' = [chain EXCEPT ![i].unconfirmed = @ + sats]
        /\ inTime' = [inTime EXCEPT
                        ![i] = @ \/ (~late[i] /\ OnAddress(i) + sats >= Due[i])]
    /\ UNCHANGED <<rowVars, received, late, poller, reorgs, aborts>>

\* A block takes in what is waiting.
Mine(i) ==
    /\ chain[i].unconfirmed > 0
    /\ chain' = [chain EXCEPT ![i] = [confirmed |-> OnAddress(i), unconfirmed |-> 0]]
    /\ UNCHANGED <<rowVars, received, late, inTime, poller, reorgs, aborts>>

\* A waiting payment is replaced, or a block is orphaned.
Reorganize(i) ==
    /\ reorgs < MaxReorgs
    /\ reorgs' = reorgs + 1
    /\ \/ /\ chain[i].unconfirmed > 0
          /\ chain' = [chain EXCEPT ![i].unconfirmed = 0]
       \/ /\ chain[i].confirmed > 0
          /\ chain' = [chain EXCEPT ![i] = [confirmed |-> 0,
                                            unconfirmed |-> OnAddress(i)]]
    /\ UNCHANGED <<rowVars, received, late, inTime, poller, aborts>>

\* A Lightning invoice is paid once, in full or less a fee the backend keeps.
PayLightning(i) ==
    /\ i \in HasBolt11
    /\ received[i] = 0
    /\ \E sats \in {Due[i] - 1, Due[i]} \ {0} :
        /\ received' = [received EXCEPT ![i] = sats]
        /\ inTime' = [inTime EXCEPT ![i] = @ \/ (~late[i] /\ sats >= Due[i])]
    /\ UNCHANGED <<rowVars, chain, late, poller, reorgs, aborts>>

Deadline(i) ==
    /\ ~late[i]
    /\ late' = [late EXCEPT ![i] = TRUE]
    /\ UNCHANGED <<rowVars, chain, received, inTime, poller, reorgs, aborts>>

------------------------------------------------------------------------------
(* The poller                                                              *)

Selected(pass) ==
    CASE pass = "onchain"   -> {i \in HasAddress : status[i] \in ActiveStatuses}
      [] pass = "lightning" -> {i \in HasBolt11 : status[i] \in ActiveStatuses}
      [] pass = "expiry"    -> {i \in Invoices : /\ status[i] \in ExpirableStatuses
                                                 /\ late[i]}

Continue(p, pass, queue) ==
    poller' = [poller EXCEPT ![p] = [at |-> "working", pass |-> pass, queue |-> queue]]

\* The interval ticks, or the command is run.
BeginRun(p) ==
    /\ poller[p] = Waiting
    /\ poller' = [poller EXCEPT ![p] = [at |-> "listing", pass |-> "onchain"]]
    /\ UNCHANGED <<rowVars, world, aborts>>

\* A pass reads the rows it will work on.
List(p) ==
    /\ poller[p].at = "listing"
    /\ LET pass == poller[p].pass
       IN Continue(p, pass, {[invoice |-> i, status |-> status[i],
                              payment |-> payment[i]] : i \in Selected(pass)})
    /\ UNCHANGED <<rowVars, world, aborts>>

\* What the network or the backend says of one of them, and the status that
\* follows from it and from the status read before.
Decide(p, x, next, seen) ==
    poller' = [poller EXCEPT ![p] =
        [at |-> "writing", pass |-> poller[p].pass, queue |-> poller[p].queue \ {x},
         read |-> x, next |-> next, seen |-> seen]]

ObserveOnchain(p) ==
    /\ poller[p].at = "working"
    /\ poller[p].pass = "onchain"
    /\ \E x \in poller[p].queue :
        LET i == x.invoice
        IN Decide(p, x,
                  OnchainStatus(x.status, late[i], Due[i],
                                chain[i].confirmed, chain[i].unconfirmed),
                  Amounts(chain[i].confirmed, chain[i].unconfirmed))
    /\ UNCHANGED <<rowVars, world, aborts>>

\* An unpaid Lightning invoice reports the sum read before as its own; barkd
\* counts an incomplete receive as unpaid, phoenixd reports what it brought.
ObserveLightning(p) ==
    /\ poller[p].at = "working"
    /\ poller[p].pass = "lightning"
    /\ \E x \in poller[p].queue :
        LET i == x.invoice
            paid == received[i] >= Due[i]
            sats == IF paid \/ (Backend = "phoenixd" /\ received[i] > 0)
                    THEN received[i] ELSE x.payment.paid
        IN Decide(p, x, LightningStatus(x.status, late[i], paid), Amounts(sats, 0))
    /\ UNCHANGED <<rowVars, world, aborts>>

Expire(p) ==
    /\ poller[p].at = "working"
    /\ poller[p].pass = "expiry"
    /\ \E x \in poller[p].queue : Decide(p, x, "expired", x.payment)
    /\ UNCHANGED <<rowVars, world, aborts>>

\* Mutant: a delivery for every change of status.
AnnounceAlways(i, next) ==
    /\ events' = [events EXCEPT ![i] = @ \cup {next}]
    /\ enqueued' = [enqueued EXCEPT ![i][next] = @ + 1]

\* The event id is the invoice and the status: an event that was already there
\* is left as it is, and only the first gets a delivery.
Announce(i, next) ==
    /\ events' = [events EXCEPT ![i] = @ \cup {next}]
    /\ enqueued' = [enqueued EXCEPT ![i][next] =
                        IF next \in events[i] THEN @ ELSE @ + 1]

\* update_invoice_status_event: the row is overwritten whatever it has become.
Write(p) ==
    /\ poller[p].at = "writing"
    /\ LET i == poller[p].read.invoice
           next == poller[p].next
       IN /\ payment' = [payment EXCEPT ![i] =
                IF next = poller[p].read.status /\ poller[p].seen = poller[p].read.payment
                THEN @ ELSE poller[p].seen]
          /\ IF next = poller[p].read.status
             THEN UNCHANGED <<status, events, enqueued>>
             ELSE /\ status' = [status EXCEPT ![i] = next]
                  /\ Announce(i, next)
    /\ Continue(p, poller[p].pass, poller[p].queue)
    /\ UNCHANGED <<world, aborts>>

\* The list is done.
EndPass(p) ==
    /\ poller[p].at = "working"
    /\ poller[p].queue = {}
    /\ LET pass == poller[p].pass
       IN poller' = [poller EXCEPT ![p] =
            CASE pass = "onchain"   -> [at |-> "listing", pass |-> "lightning"]
              [] pass = "lightning" -> [at |-> "listing", pass |-> "expiry"]
              [] pass = "expiry"    -> Waiting]
    /\ UNCHANGED <<rowVars, world, aborts>>

\* Any error ends the whole run, as does the end of its process.
AbortRun(p) ==
    /\ poller[p] /= Waiting
    /\ aborts < MaxAborts
    /\ aborts' = aborts + 1
    /\ poller' = [poller EXCEPT ![p] = Waiting]
    /\ UNCHANGED <<rowVars, world>>

RunStep(p) ==
    \/ BeginRun(p) \/ List(p)
    \/ ObserveOnchain(p) \/ ObserveLightning(p) \/ Expire(p)
    \/ Write(p) \/ EndPass(p)

Environment(i) ==
    PayOnchain(i) \/ Mine(i) \/ Reorganize(i) \/ PayLightning(i) \/ Deadline(i)

Next ==
    \/ \E p \in Pollers : RunStep(p) \/ AbortRun(p)
    \/ \E i \in Invoices : Environment(i)

Spec == Init /\ [][Next]_vars

\* The interval of sync_loop ticks for ever, and a run goes on to its end; the
\* deadline comes.  Nobody is made to pay, and no block to be found.
Fairness ==
    /\ \A p \in Pollers : WF_vars(RunStep(p))
    /\ \A i \in Invoices : WF_vars(Deadline(i))

FairSpec == Spec /\ Fairness

------------------------------------------------------------------------------
(* Properties                                                              *)

Final == {"settled", "paid_late"}

\* With one poller, an invoice reported settled or paid late stays so, although
\* each pass writes from a reading that the previous pass may have outdated
\* (sync_once, update_invoice_status).
FinalIsFinal ==
    [][\A i \in Invoices : status[i] \in Final => status'[i] = status[i]]_vars

\* With one poller, the sums stored with a settled or late invoice cover it:
\* refunds are computed from them for as long as the invoice exists
\* (update_invoice_payment_amounts, refund_summary).
FinalIsCovered ==
    \A i \in Invoices :
        /\ status[i] = "settled" => payment[i].confirmed >= Due[i]
        /\ status[i] = "paid_late" => payment[i].paid >= Due[i]

\* No invoice is settled whose full amount first arrived after it expired,
\* whichever poller observed what and when ("first seen full payment after
\* expiry is late", src/onchain.rs).
SettledInTime ==
    \A i \in Invoices : status[i] = "settled" => inTime[i]

\* Every status an invoice takes is announced, and announced only once however
\* often it is left and taken again, by any number of pollers
\* (update_invoice_status).
AnnouncedOnce ==
    \A i \in Invoices :
        /\ status[i] /= "new" => enqueued[i][status[i]] = 1
        /\ \A s \in InvoiceStatuses : enqueued[i][s] <= 1

\* An invoice with enough confirmed on its address for good, or received by the
\* Lightning backend, is eventually settled or reported late (sync_loop).
PaymentIsRecognized ==
    \A i \in Invoices :
        [](\/ chain[i].confirmed >= Due[i] \/ received[i] >= Due[i])
            ~> status[i] \in Final

\* An unpaid invoice does not stay open (expirable_invoices).
UnpaidExpires ==
    \A i \in Invoices : <>(status[i] \in Final \cup {"expired"})

------------------------------------------------------------------------------
(* What makes the invariants inductive.                                    *)

\* The statuses that claim the full amount was there before the deadline.
Timely == {"payment_detected", "settled"}

\* They are claimed rightly: in the row, in every reading of it, however old,
\* and in what is about to be written.
TimelyIsTrue ==
    /\ \A i \in Invoices :
          /\ ~late[i] /\ (OnAddress(i) >= Due[i] \/ received[i] >= Due[i]) => inTime[i]
          /\ status[i] \in Timely => inTime[i]
    /\ \A p \in Pollers :
          /\ poller[p].at \in {"working", "writing"} =>
                \A x \in poller[p].queue : x.status \in Timely => inTime[x.invoice]
          /\ poller[p].at = "writing" /\ poller[p].next \in Timely =>
                inTime[poller[p].read.invoice]

\* A delivery was enqueued for exactly the events there are, and the status of
\* a row has one.
OneDeliveryPerEvent ==
    \A i \in Invoices :
        /\ \A s \in InvoiceStatuses :
              enqueued[i][s] = (IF s \in events[i] THEN 1 ELSE 0)
        /\ status[i] /= "new" => status[i] \in events[i]

\* With one poller, what it read is still what the rows say when it writes, and a
\* final status that it is about to write is covered by what it saw.
IsReading(x) ==
    /\ x.status = status[x.invoice] /\ x.payment = payment[x.invoice]
    /\ x.status \notin Final

Covers(taken, sums, due) ==
    /\ taken = "settled" => sums.confirmed >= due
    /\ taken = "paid_late" => sums.paid >= due

ReadingsHold ==
    \A p \in Pollers :
        /\ poller[p].at \in {"working", "writing"} =>
              \A x \in poller[p].queue : IsReading(x)
        /\ poller[p].at = "writing" =>
              /\ IsReading(poller[p].read)
              /\ \A x \in poller[p].queue : x.invoice /= poller[p].read.invoice
              /\ Covers(poller[p].next, poller[p].seen, Due[poller[p].read.invoice])
==============================================================================
