------------------------------- MODULE Refunds -------------------------------
(***************************************************************************)
(* The life of the refunds of one store: the HTTP handlers that create,    *)
(* approve, finalize, fail and cancel them (src/api.rs), the executors     *)
(* that claim and pay them (src/main.rs, src/payout.rs), and the database  *)
(* transactions both go through (src/storage.rs).                          *)
(*                                                                         *)
(* A step is what runs between two awaits that other tasks can observe:    *)
(* one database transaction, or one call of a payout backend.  Handlers    *)
(* run concurrently, executors run in several processes ("serve",          *)
(* "refunds" and "refunds-once" may share one database), and any of them   *)
(* may stop between two steps.                                             *)
(***************************************************************************)
EXTENDS RefundRules

CONSTANTS
    Refunds,        \* the refund ids that may come into being
    Invoices,
    Sums,           \* what the poller may find paid for an invoice
    Keys, NoKey,    \* Idempotency-Key values; the header is absent
    Asked,          \* amounts a request asks for; 0: whatever is refundable
    Clients,        \* concurrent HTTP requests
    Operations,     \* the operations the clients use
    Executors,      \* concurrent passes of the refund executor
    ApiConfig,      \* rail -> payout table, as the API process has it
    ExecConfig,     \* rail -> payout table, as the executors have it
    Unset,          \* a column of a row not inserted yet
    MaxDay,         \* bound: days that begin
    MaxCrashes,     \* bound: executors stopped between two steps
    MaxFaults,      \* bound: payouts that end in a retryable error
    MaxUncertain    \* bound: those among them where the money left anyway

AllOperations == {"create", "approve", "finalize", "fail", "cancel"}

ASSUME RefundsAssumption ==
    /\ Sums \subseteq Nat
    /\ NoKey \notin Keys
    /\ Asked \subseteq Nat
    /\ Operations \subseteq AllOperations
    /\ {MaxDay, MaxCrashes, MaxFaults, MaxUncertain} \subseteq Nat
    /\ IsFiniteSet(Refunds)
    /\ Unset \notin Refunds

ASSUME ConfigAssumption ==
    /\ ApiConfig \in [Rails -> PayoutTable]
    /\ ExecConfig \in [Rails -> PayoutTable]
    /\ \A x \in Rails : ValidTable(ApiConfig[x]) /\ ValidTable(ExecConfig[x])

VARIABLES
    status,      \* refunds.status; "absent" before the row is inserted
    approval,    \* refunds.approval_status
    row,         \* the columns no statement changes after the insert
    leased,      \* refunds.execution_lease_until is in the future
    stamp,       \* the day of updated_at while processing, of finalized_at after
    deliveries,  \* webhook deliveries enqueued, per refund and event type
    client,      \* what each request has read so far
    executor,    \* where each executor pass is
    today,       \* the current UTC day
    paid,        \* invoices.paid_sats
    most,        \* the highest it ever was
    sent,        \* times the backend sent the money of a refund
    uncertain,   \* those of them it reported as an error
    answered,    \* idempotent creations answered so far
    crashes, faults

rowVars   == <<status, approval, row, leased, stamp, deliveries>>
paidVars  == <<paid, most>>
moneyVars == <<sent, uncertain>>
vars == <<rowVars, client, executor, today, paidVars, moneyVars, answered,
          crashes, faults>>

Statuses  == {"pending", "processing", "succeeded", "canceled", "failed"}
Approvals == {"not_required", "pending", "approved"}
Decisions == {"finalize", "fail", "cancel"}
EventTypes == {"refund.created", "refund.approved", "refund.processing",
               "refund.retry", "refund.finalized", "refund.failed",
               "refund.canceled"}

Row == [invoice : Invoices, sats : Nat, dest : Destinations \cup {NoDest},
        key : Keys \cup {NoKey}]

Idle == [at |-> "idle"]
Request == [at : {"reading"}, invoice : Invoices, asked : Nat,
            dest : Destinations \cup {NoDest}, key : Keys \cup {NoKey}, paid : Nat]
Insertion == [at : {"inserting"}, new : Row, approval : Approvals]
Approving == [at : {"approving"}, refund : Refunds]
Deciding  == [at : {"deciding"}, refund : Refunds, op : Decisions]

Resting == [at |-> "resting"]
Pass == [at : {"dispatching", "failing", "paying", "retrying"}, refund : Refunds]
        \cup [at : {"starting", "finalizing"}, refund : Refunds, day : Nat]

Present(r) == status[r] /= "absent"

\* What each refund asks for.
Sats == [r \in Refunds |-> IF Present(r) THEN row[r].sats ELSE 0]

TypeOK ==
    /\ status \in [Refunds -> Statuses \cup {"absent"}]
    /\ approval \in [Refunds -> Approvals]
    /\ row \in [Refunds -> Row \cup {Unset}]
    /\ \A r \in Refunds : Present(r) => row[r] \in Row
    /\ leased \in [Refunds -> BOOLEAN]
    /\ stamp \in [Refunds -> Nat]
    /\ deliveries \in [Refunds -> [EventTypes -> Nat]]
    /\ client \in [Clients -> {Idle} \cup Request \cup Insertion
                              \cup Approving \cup Deciding]
    /\ executor \in [Executors -> {Resting} \cup Pass]
    /\ today \in Nat
    /\ paid \in [Invoices -> Nat]
    /\ most \in [Invoices -> Nat]
    /\ sent \in [Refunds -> Nat]
    /\ uncertain \in [Refunds -> Nat]
    /\ answered \subseteq [key : Keys, refund : Refunds]
    /\ crashes \in Nat
    /\ faults \in Nat

Init ==
    /\ status = [r \in Refunds |-> "absent"]
    /\ approval = [r \in Refunds |-> "not_required"]
    /\ row = [r \in Refunds |-> Unset]
    /\ leased = [r \in Refunds |-> FALSE]
    /\ stamp = [r \in Refunds |-> 0]
    /\ deliveries = [r \in Refunds |-> [type \in EventTypes |-> 0]]
    /\ client = [c \in Clients |-> Idle]
    /\ executor = [e \in Executors |-> Resting]
    /\ today = 0
    /\ paid \in [Invoices -> Sums]
    /\ most = paid
    /\ sent = [r \in Refunds |-> 0]
    /\ uncertain = [r \in Refunds |-> 0]
    /\ answered = {}
    /\ crashes = 0
    /\ faults = 0

------------------------------------------------------------------------------
(* The statements both sides share.                                        *)

\* Mutant: an event that was announced before is not announced again.
EnqueueOnce(r, type) == deliveries' = [deliveries EXCEPT ![r][type] = 1]

Enqueue(r, type) == deliveries' = [deliveries EXCEPT ![r][type] = @ + 1]

\* Mutant: the event type is stored as the status.
UpdateRefundStatusSwapped(r, new, type) ==
    /\ status' = [status EXCEPT ![r] = type]
    /\ Enqueue(r, type)
    /\ UNCHANGED <<approval, row, leased>>

\* update_refund_status overwrites the status whatever it was, and enqueues a
\* delivery even when the event of that type was already there.
UpdateRefundStatus(r, new, type) ==
    /\ status' = [status EXCEPT ![r] = new]
    /\ Enqueue(r, type)
    /\ UNCHANGED <<approval, row, leased>>

\* Mutant: a canceled refund gives its key free.
LiveRefundsWithKey(key) ==
    {r \in Refunds : /\ key /= NoKey /\ Present(r) /\ row[r].key = key
                     /\ status[r] /= "canceled"}

\* The rows refunds_store_idempotency_key_idx lets at most one of exist.
RefundsWithKey(key) ==
    {r \in Refunds : key /= NoKey /\ Present(r) /\ row[r].key = key}

\* The refund found for the key is returned if it is of the invoice asked for,
\* and the request refused otherwise.
AnswerExisting(key, invoice) ==
    \E r \in RefundsWithKey(key) :
        answered' = IF row[r].invoice = invoice
                    THEN answered \cup {[key |-> key, refund |-> r]}
                    ELSE answered

\* refund_summary: what of the payments is neither promised nor paid back.
Counted(invoice) ==
    {r \in Refunds : status[r] \in CountedStatuses /\ row[r].invoice = invoice}

Promised(invoice) == SumFunctionOnSet(Sats, Counted(invoice))

RefundableSats(total, invoice) == Minus(total, Promised(invoice))

------------------------------------------------------------------------------
(* Requests                                                                *)

\* A creation first reads the invoice, and with it what was paid, and looks its
\* Idempotency-Key up.  No key is ever given free, so that these two reads may be
\* one: a key that is found not taken was not taken a moment before.
CreateRefund(c) ==
    /\ client[c] = Idle
    /\ "create" \in Operations
    /\ \E invoice \in Invoices, asked \in Asked,
          dest \in Destinations \cup {NoDest}, key \in Keys \cup {NoKey} :
        IF RefundsWithKey(key) /= {}
        THEN AnswerExisting(key, invoice) /\ UNCHANGED client
        ELSE /\ client' = [client EXCEPT ![c] =
                    [at |-> "reading", invoice |-> invoice, asked |-> asked,
                     dest |-> dest, key |-> key, paid |-> paid[invoice]]]
             /\ UNCHANGED answered
    /\ UNCHANGED <<rowVars, executor, today, paidVars, moneyVars, crashes, faults>>

\* It then reads the refunds of the invoice and checks the amount against them
\* and the sum it has read before.
ReadRefundable(c) ==
    /\ client[c].at = "reading"
    /\ LET refundable == RefundableSats(client[c].paid, client[c].invoice)
           sats == IF client[c].asked = 0 THEN refundable ELSE client[c].asked
           new == [invoice |-> client[c].invoice, sats |-> sats,
                   dest |-> client[c].dest, key |-> client[c].key]
       IN client' = [client EXCEPT ![c] =
            IF sats \in 1..refundable
            THEN [at |-> "inserting", new |-> new,
                  approval |-> IF RequiresManualApproval(ApiConfig, new.dest, sats)
                               THEN "pending" ELSE "not_required"]
            ELSE Idle]
    /\ UNCHANGED <<rowVars, executor, today, paidVars, moneyVars, answered, crashes,
                   faults>>

\* Last, it inserts the row with its event; the unique index on the key turns
\* a concurrent duplicate into an answer with the row that won.
InsertRefund(c) ==
    /\ client[c].at = "inserting"
    /\ LET new == client[c].new
       IN IF RefundsWithKey(new.key) /= {}
          THEN AnswerExisting(new.key, new.invoice) /\ UNCHANGED rowVars
          ELSE \E r \in Refunds :
                 /\ ~Present(r)
                 /\ status' = [status EXCEPT ![r] = "pending"]
                 /\ approval' = [approval EXCEPT ![r] = client[c].approval]
                 /\ row' = [row EXCEPT ![r] = new]
                 /\ Enqueue(r, "refund.created")
                 /\ answered' = IF new.key = NoKey THEN answered
                                ELSE answered \cup {[key |-> new.key, refund |-> r]}
                 /\ UNCHANGED <<leased, stamp>>
    /\ client' = [client EXCEPT ![c] = Idle]
    /\ UNCHANGED <<executor, today, paidVars, moneyVars, crashes, faults>>

\* An approval is decided on a row read before ...
ReadForApproval(c) ==
    /\ client[c] = Idle
    /\ "approve" \in Operations
    /\ \E r \in Refunds :
        /\ status[r] = "pending"
        /\ approval[r] = "pending"
        /\ client' = [client EXCEPT ![c] = [at |-> "approving", refund |-> r]]
    /\ UNCHANGED <<rowVars, executor, today, paidVars, moneyVars, answered, crashes,
                   faults>>

\* ... and update_refund_approval checks it again as it writes.
ApproveRefund(c) ==
    /\ client[c].at = "approving"
    /\ LET r == client[c].refund
       IN IF status[r] = "pending" /\ approval[r] = "pending"
          THEN /\ approval' = [approval EXCEPT ![r] = "approved"]
               /\ IF deliveries[r]["refund.approved"] = 0
                  THEN Enqueue(r, "refund.approved") ELSE UNCHANGED deliveries
               /\ UNCHANGED <<status, row, leased, stamp>>
          ELSE UNCHANGED rowVars
    /\ client' = [client EXCEPT ![c] = Idle]
    /\ UNCHANGED <<executor, today, paidVars, moneyVars, answered, crashes, faults>>

\* finalize_refund, fail_refund and cancel_refund refuse a row that is not
\* pending when they read it ...
ReadForDecision(c) ==
    /\ client[c] = Idle
    /\ \E op \in Operations \cap Decisions, r \in Refunds :
        /\ status[r] = "pending"
        /\ op = "finalize" => AllowsExecution(approval[r])
        /\ client' = [client EXCEPT ![c] =
                [at |-> "deciding", refund |-> r, op |-> op]]
    /\ UNCHANGED <<rowVars, executor, today, paidVars, moneyVars, answered, crashes,
                   faults>>

\* ... and write their decision over whatever it has become.
DecideRefund(c) ==
    /\ client[c].at = "deciding"
    /\ LET r == client[c].refund
       IN \/ /\ client[c].op = "finalize"
             /\ UpdateRefundStatus(r, "succeeded", "refund.finalized")
             /\ stamp' = [stamp EXCEPT ![r] = today]
          \/ /\ client[c].op = "fail"
             /\ UpdateRefundStatus(r, "failed", "refund.failed")
             /\ UNCHANGED stamp
          \/ /\ client[c].op = "cancel"
             /\ UpdateRefundStatus(r, "canceled", "refund.canceled")
             /\ UNCHANGED stamp
    /\ client' = [client EXCEPT ![c] = Idle]
    /\ UNCHANGED <<executor, today, paidVars, moneyVars, answered, crashes, faults>>

\* The connection closes, or the API process stops, and the handler with it.
DropRequest(c) ==
    /\ client[c] /= Idle
    /\ client' = [client EXCEPT ![c] = Idle]
    /\ UNCHANGED <<rowVars, executor, today, paidVars, moneyVars, answered, crashes,
                   faults>>

------------------------------------------------------------------------------
(* Executor passes                                                         *)

\* pending_refund_executions proposes rows and claim_refund_execution repeats
\* every condition as it takes the lease, so a stale proposal claims nothing.
Claim(e, r) ==
    /\ executor[e] = Resting
    /\ \E x \in Rails : ExecConfig[x].enabled
    /\ status[r] = "pending"
    /\ AllowsExecution(approval[r])
    /\ row[r].dest /= NoDest
    /\ ~leased[r]
    /\ leased' = [leased EXCEPT ![r] = TRUE]
    /\ executor' = [executor EXCEPT ![e] = [at |-> "dispatching", refund |-> r]]
    /\ UNCHANGED <<status, approval, row, stamp, deliveries, client, today,
                   paidVars, moneyVars, answered, crashes, faults>>

\* Mutant: max_refund_sats is not looked at.
DispatchAnyAmount(e) ==
    /\ executor[e].at = "dispatching"
    /\ LET r == executor[e].refund
       IN executor' = [executor EXCEPT ![e] =
            IF HasExecutionTable(ExecConfig, row[r].dest)
            THEN [at |-> "starting", refund |-> r, day |-> today]
            ELSE [at |-> "failing", refund |-> r]]
    /\ UNCHANGED <<rowVars, client, today, paidVars, moneyVars, answered, crashes,
                   faults>>

\* The refund has a table to be paid under and is within its limit.
Accepted(r) ==
    /\ HasExecutionTable(ExecConfig, row[r].dest)
    /\ row[r].sats <= ExecutionTable(ExecConfig, row[r].dest).max

\* The claimed refund meets its table, or is given up; the day whose limit it
\* will count against is fixed here.
Dispatch(e) ==
    /\ executor[e].at = "dispatching"
    /\ LET r == executor[e].refund
       IN executor' = [executor EXCEPT ![e] =
            IF Accepted(r) THEN [at |-> "starting", refund |-> r, day |-> today]
            ELSE [at |-> "failing", refund |-> r]]
    /\ UNCHANGED <<rowVars, client, today, paidVars, moneyVars, answered, crashes,
                   faults>>

\* Mutant: only payouts already finalized count.
FinalizedSats(r, day) ==
    SumFunctionOnSet(Sats, {q \in Refunds \ {r} : status[q] = "succeeded" /\ stamp[q] >= day})

\* What else already counts against the daily limit.
ReservedSats(r, day) ==
    SumFunctionOnSet(Sats, {q \in Refunds \ {r} :
                               /\ status[q] \in {"succeeded", "processing"}
                               /\ stamp[q] >= day})

\* Mutant: the claim is trusted, and the status not read again.
MayStartClaimed(r, day) ==
    row[r].sats + ReservedSats(r, day) <= ExecutionTable(ExecConfig, row[r].dest).daily

\* try_start_refund_execution: one transaction moves the row to processing and
\* takes the move back if the day's limit does not hold it.
MayStart(r, day) ==
    /\ status[r] = "pending"
    /\ row[r].sats + ReservedSats(r, day)
          <= ExecutionTable(ExecConfig, row[r].dest).daily

Start(e) ==
    /\ executor[e].at = "starting"
    /\ LET r == executor[e].refund
           day == executor[e].day
       IN IF MayStart(r, day)
          THEN /\ UpdateRefundStatus(r, "processing", "refund.processing")
               /\ stamp' = [stamp EXCEPT ![r] = day]
               /\ executor' = [executor EXCEPT ![e] = [at |-> "paying", refund |-> r]]
          ELSE /\ executor' = [executor EXCEPT ![e] = Resting]
               /\ UNCHANGED rowVars
    /\ UNCHANGED <<client, today, paidVars, moneyVars, answered, crashes, faults>>

\* The backend is asked to pay, and one of four things comes back.
PaySucceeds(e) ==
    /\ executor[e].at = "paying"
    /\ LET r == executor[e].refund
       IN /\ HasDriver(row[r].dest)
          /\ sent' = [sent EXCEPT ![r] = @ + 1]
          /\ executor' = [executor EXCEPT ![e] =
                [at |-> "finalizing", refund |-> r, day |-> today]]
    /\ UNCHANGED <<rowVars, client, today, paidVars, uncertain, answered, crashes,
                   faults>>

PayRefused(e) ==
    /\ executor[e].at = "paying"
    /\ ~HasDriver(row[executor[e].refund].dest)
    /\ executor' = [executor EXCEPT ![e] =
            [at |-> "failing", refund |-> executor[e].refund]]
    /\ UNCHANGED <<rowVars, client, today, paidVars, moneyVars, answered, crashes,
                   faults>>

\* Mutant: every error of the backend is taken for final.
PayErrsForGood(e) ==
    /\ executor[e].at = "paying"
    /\ faults < MaxFaults
    /\ LET r == executor[e].refund
       IN /\ HasDriver(row[r].dest)
          /\ \/ UNCHANGED moneyVars
             \/ /\ uncertain[r] < MaxUncertain
                /\ sent' = [sent EXCEPT ![r] = @ + 1]
                /\ uncertain' = [uncertain EXCEPT ![r] = @ + 1]
          /\ executor' = [executor EXCEPT ![e] = [at |-> "failing", refund |-> r]]
    /\ faults' = faults + 1
    /\ UNCHANGED <<rowVars, client, today, paidVars, answered, crashes>>

\* A retryable error.  The request may have reached the backend all the same:
\* a lost response and a refused payment look alike.
PayErrs(e) ==
    /\ executor[e].at = "paying"
    /\ faults < MaxFaults
    /\ LET r == executor[e].refund
       IN /\ HasDriver(row[r].dest)
          /\ \/ UNCHANGED moneyVars
             \/ /\ uncertain[r] < MaxUncertain
                /\ sent' = [sent EXCEPT ![r] = @ + 1]
                /\ uncertain' = [uncertain EXCEPT ![r] = @ + 1]
          /\ executor' = [executor EXCEPT ![e] = [at |-> "retrying", refund |-> r]]
    /\ faults' = faults + 1
    /\ UNCHANGED <<rowVars, client, today, paidVars, answered, crashes>>

\* The outcome is written, again over whatever the row has become.
Record(e) ==
    /\ LET r == executor[e].refund
       IN \/ /\ executor[e].at = "finalizing"
             /\ UpdateRefundStatus(r, "succeeded", "refund.finalized")
             /\ stamp' = [stamp EXCEPT ![r] = executor[e].day]
          \/ /\ executor[e].at = "failing"
             /\ UpdateRefundStatus(r, "failed", "refund.failed")
             /\ UNCHANGED stamp
          \/ /\ executor[e].at = "retrying"
             /\ UpdateRefundStatus(r, "pending", "refund.retry")
             /\ UNCHANGED stamp
    /\ executor' = [executor EXCEPT ![e] = Resting]
    /\ UNCHANGED <<client, today, paidVars, moneyVars, answered, crashes, faults>>

\* The process stops, or a statement fails and the pass moves on: whatever was
\* not written is lost, and a payment under way may or may not go through.
Crash(e) ==
    /\ executor[e] /= Resting
    /\ crashes < MaxCrashes
    /\ crashes' = crashes + 1
    /\ \/ UNCHANGED sent
       \/ /\ executor[e].at = "paying"
          /\ HasDriver(row[executor[e].refund].dest)
          /\ sent' = [sent EXCEPT ![executor[e].refund] = @ + 1]
    /\ executor' = [executor EXCEPT ![e] = Resting]
    /\ UNCHANGED <<rowVars, client, today, paidVars, uncertain, answered, faults>>

------------------------------------------------------------------------------
(* Time                                                                    *)

\* Mutant: the lease of a refund that was not started does not run out.
LeaseExpiresOnceStarted(r) ==
    /\ leased[r]
    /\ status[r] /= "pending"
    /\ leased' = [leased EXCEPT ![r] = FALSE]
    /\ UNCHANGED <<status, approval, row, stamp, deliveries, client, executor,
                   today, paidVars, moneyVars, answered, crashes, faults>>

\* Five minutes after the claim, whoever holds it.
LeaseExpires(r) ==
    /\ leased[r]
    /\ leased' = [leased EXCEPT ![r] = FALSE]
    /\ UNCHANGED <<status, approval, row, stamp, deliveries, client, executor,
                   today, paidVars, moneyVars, answered, crashes, faults>>

\* The poller finds another sum paid: more has come, or a payment was replaced or
\* orphaned (InvoiceSync).  It writes at any time, and nobody is told.
ObservePayments(i) ==
    \E sats \in Sums \ {paid[i]} :
        /\ paid' = [paid EXCEPT ![i] = sats]
        /\ most' = [most EXCEPT ![i] = IF sats > @ THEN sats ELSE @]
        /\ UNCHANGED <<rowVars, client, executor, today, moneyVars, answered, crashes,
                       faults>>

Midnight ==
    /\ today < MaxDay
    /\ today' = today + 1
    /\ UNCHANGED <<rowVars, client, executor, paidVars, moneyVars, answered, crashes,
                   faults>>

------------------------------------------------------------------------------
ClientStep(c) ==
    \/ CreateRefund(c) \/ ReadRefundable(c) \/ InsertRefund(c)
    \/ ReadForApproval(c) \/ ApproveRefund(c)
    \/ ReadForDecision(c) \/ DecideRefund(c)
    \/ DropRequest(c)

\* The steps of a pass under way, which go on until it is done.
PassStep(e) ==
    \/ Dispatch(e) \/ Start(e)
    \/ PaySucceeds(e) \/ PayRefused(e) \/ PayErrs(e)
    \/ Record(e)

Next ==
    \/ \E c \in Clients : ClientStep(c)
    \/ \E e \in Executors, r \in Refunds : Claim(e, r)
    \/ \E e \in Executors : PassStep(e) \/ Crash(e)
    \/ \E r \in Refunds : LeaseExpires(r)
    \/ \E i \in Invoices : ObservePayments(i)
    \/ Midnight

Spec == Init /\ [][Next]_vars

\* An executor is polled for ever and offers every claimable row in each pass;
\* a pass that has begun is driven to its end; leases run out on their own.
\* Nothing makes a client act, a process stop or a day begin.
Fairness ==
    /\ \A r \in Refunds : SF_vars(\E e \in Executors : Claim(e, r))
    /\ \A e \in Executors : WF_vars(PassStep(e))
    /\ \A r \in Refunds : WF_vars(LeaseExpires(r))

FairSpec == Spec /\ Fairness

------------------------------------------------------------------------------
(* Properties                                                              *)

\* e has moved r to processing and has not written an outcome yet.
Started(e, r) ==
    /\ executor[e].at \in {"paying", "finalizing", "retrying"}
    /\ executor[e].refund = r

\* Two executors never have the same payout under way, although leases run
\* out while payouts are pending, nobody rechecks execution_claimed_by, and
\* requests overwrite the status in between (claim_refund_execution,
\* try_start_refund_execution).
AtMostOnePayer ==
    \A e, f \in Executors, r \in Refunds :
        Started(e, r) /\ Started(f, r) => e = f

\* A refund's money leaves a second time only if the backend reported an
\* earlier sending of it as an error; crashes, retries, expired leases and
\* concurrent decisions never cause it (execute_claimed_refund).
PaidOnceUnlessUncertain ==
    \A r \in Refunds : sent[r] <= uncertain[r] + 1

\* Money above the threshold of the executor's table leaves only after an
\* administrator approved it, whatever path the refund took
\* (refund_requires_manual_approval, claim_refund_execution).
NothingLargePaidUnapproved ==
    \A r \in Refunds :
        sent[r] > 0 /\ RequiresManualApproval(ExecConfig, row[r].dest, row[r].sats)
            => approval[r] = "approved"

\* All the answers an Idempotency-Key ever got, from any request racing or
\* repeating another, name one refund (create_refund_for_invoice).
OneRefundPerKey ==
    \A a, b \in answered : a.key = b.key => a.refund = b.refund

\* What an invoice's refunds promise or have paid back never exceeds the highest
\* sum ever observed for it (create_refund_for_invoice: "refund amount cannot exceed
\* observed paid_sats").  A sum that is observed lower afterwards takes no
\* promise back.
PromisedWithinPaid ==
    \A i \in Invoices : Promised(i) <= most[i]

\* What of a refund was sent and not reported as an error.
SentForGood ==
    [r \in Refunds |-> IF sent[r] > uncertain[r]
                      THEN (sent[r] - uncertain[r]) * SatsSent(row[r].dest, row[r].sats)
                      ELSE 0]

\* What backends sent back for an invoice, and did not report as an error, never
\* exceeds what the invoice received: neither a crash nor a retry makes room
\* for a second refund of money that has left (refund_summary,
\* execute_claimed_refund).
SentWithinPaid ==
    \A i \in Invoices :
        SumFunctionOnSet(SentForGood,
                         {r \in Refunds : sent[r] > 0 /\ row[r].invoice = i}) <= most[i]

FinalizedOn(day) == {r \in Refunds : status[r] = "succeeded" /\ stamp[r] = day}

\* No day sees more than the highest daily limit finalized
\* (try_start_refund_execution).
DailyLimitHolds ==
    \A day \in 0..today : \E x \in Rails :
        /\ ExecConfig[x].enabled
        /\ SumFunctionOnSet(Sats, FinalizedOn(day)) <= ExecConfig[x].daily

\* No payment of one refund is above max_refund_sats.
SentWithinMax ==
    \A r \in Refunds :
        sent[r] > 0 => SatsSent(row[r].dest, row[r].sats)
                          <= ExecutionTable(ExecConfig, row[r].dest).max

EventsFor(new) ==
    CASE new = "pending"    -> {"refund.created", "refund.retry"}
      [] new = "processing" -> {"refund.processing"}
      [] new = "succeeded"  -> {"refund.finalized"}
      [] new = "failed"     -> {"refund.failed"}
      [] new = "canceled"   -> {"refund.canceled"}

\* Every change of a refund's status enqueues a delivery of the matching event
\* in the same transaction (insert_refund, update_refund_status,
\* try_start_refund_execution).
EveryChangeAnnounced ==
    [][\A r \in Refunds : status'[r] /= status[r] =>
          \E type \in EventsFor(status'[r]) :
              deliveries'[r][type] = deliveries[r][type] + 1]_vars

\* What the books of RefundLedger say of the refunds.
LedgerStage(r) ==
    IF status[r] \in {"pending", "processing"} THEN "owed"
    ELSE IF status[r] = "succeeded" THEN "repaid" ELSE "dropped"

LedgerEntry ==
    [r \in Refunds |->
        IF Present(r)
        THEN [stage |-> LedgerStage(r), invoice |-> row[r].invoice, sats |-> row[r].sats]
        ELSE [stage |-> "absent"]]

LedgerLeft == {r \in Refunds : sent[r] > 0}

Ledger == INSTANCE RefundLedger WITH
    received <- most, left <- LedgerLeft, entry <- LedgerEntry

\* Without manual decisions and with one creation at a time, the refunds keep the
\* promise of RefundLedger: what an invoice received is promised once, a refund
\* succeeds only after its money left, fails only if it did not, and is then neither
\* paid nor changed, whatever executors held it, lost it or misjudged
\* (create_refund_for_invoice, execute_claimed_refund,
\* is_terminal_refund_execution_error).
KeepsTheLedger == Ledger!LedgerSpec

Payable(r) ==
    /\ status[r] = "pending"
    /\ AllowsExecution(approval[r])
    /\ row[r].dest /= NoDest

LimitUsedUp(r) ==
    row[r].sats + ReservedSats(r, today)
        > ExecutionTable(ExecConfig, row[r].dest).daily

\* Every refund an executor may pay is taken up, unless the limit of the day
\* is used up: none is forgotten because its claimer died or its lease was
\* lost (refund_execution_once_for_store).
PayableIsTakenUp ==
    \A r \in Refunds : Payable(r) ~> (status[r] /= "pending" \/ LimitUsedUp(r))

------------------------------------------------------------------------------
(* What makes the invariants above inductive.                              *)

\* Requests and executors only hold refunds that exist, and what an executor
\* holds was executable when it was claimed and still is.
HeldRefundsExist ==
    /\ \A c \in Clients :
          client[c].at \in {"approving", "deciding"} => Present(client[c].refund)
    /\ \A e \in Executors : executor[e] /= Resting =>
          LET r == executor[e].refund
          IN Present(r) /\ AllowsExecution(approval[r]) /\ row[r].dest /= NoDest

\* Nothing writes pending over a payout under way except its own payer.
StartedNotPending ==
    \A e \in Executors, r \in Refunds : Started(e, r) => status[r] /= "pending"

\* Once the money has left for good, no path leads to a further payment.
Settled(r) == sent[r] > uncertain[r]

SettledStaysOut ==
    \A r \in Refunds :
        /\ ~Present(r) => sent[r] = 0
        /\ Settled(r) =>
             /\ status[r] /= "pending"
             /\ \A e \in Executors :
                   Started(e, r) => executor[e].at = "finalizing"

\* The approval a row starts with is the one its amount requires.
ApprovalFits ==
    /\ \A c \in Clients : client[c].at = "inserting" =>
          /\ client[c].approval = "not_required" =>
                ~RequiresManualApproval(ApiConfig, client[c].new.dest,
                                        client[c].new.sats)
    /\ \A r \in Refunds :
          /\ Present(r) /\ approval[r] = "not_required" =>
                ~RequiresManualApproval(ApiConfig, row[r].dest, row[r].sats)
          /\ sent[r] > 0 => Present(r) /\ AllowsExecution(approval[r])

\* No two rows share a key, and every answer named the row that has it.
KeysUnique ==
    /\ \A q, r \in Refunds :
          /\ Present(q) /\ Present(r)
          /\ row[q].key = row[r].key /\ row[q].key /= NoKey
          => q = r
    /\ \A a \in answered : Present(a.refund) /\ row[a.refund].key = a.key
==============================================================================
