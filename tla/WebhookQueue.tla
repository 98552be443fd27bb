---------------------------- MODULE WebhookQueue ----------------------------
(***************************************************************************)
(* The retry queue of webhook deliveries.  The transaction that records an *)
(* event inserts a delivery row (src/storage.rs), and an administrator may *)
(* ask for another (replay_event in src/api.rs).  Every five seconds a     *)
(* delivery loop takes the oldest due rows and posts them one by one       *)
(* (deliver_due_webhooks in src/main.rs); each process that serves runs a  *)
(* loop of its own over the same rows.                                     *)
(*                                                                         *)
(* next_attempt_at is kept as the time left until it (wait) and, once that *)
(* is over, as the place of the row in the order of due rows.              *)
(***************************************************************************)
EXTENDS Naturals, Sequences, FiniteSets, SequencesExt

CONSTANTS
    Stores,
    Events, StoreOf,  \* the events that may be recorded, and whose they are
    Configurations,   \* what the processes may be configured with
    Loops,            \* delivery loops, one per serving process
    BatchSize,        \* rows a pass takes (25)
    MaxExponent,      \* the exponent the retry delay stops growing at (8)
    Reliable,         \* stores whose receiver accepts if it is tried for ever
    MaxReplays,       \* bound: replays
    MaxStops,         \* bound: passes cut short
    MaxRestarts       \* bound: changes of the configuration

\* What a configuration says of a store: whether events are sent anywhere, and
\* whether the secret they are signed with is in the environment, or is not, or is
\* not even named.  A store that is gone has neither.
Setups == {s \in [url : BOOLEAN, secret : {"set", "missing", "unnamed"}] :
              s.url => s.secret /= "unnamed"}
Served == [url |-> TRUE, secret |-> "set"]

ASSUME QueueAssumption ==
    /\ StoreOf \in [Events -> Stores]
    /\ Configurations \subseteq [Stores -> Setups]
    /\ BatchSize \in Nat \ {0}
    /\ Reliable \subseteq Stores
    /\ IsFiniteSet(Events) /\ IsFiniteSet(Loops)
    /\ {MaxExponent, MaxReplays, MaxStops, MaxRestarts} \subseteq Nat
    /\ \A n \in 0..MaxExponent : 2 ^ n > 0

VARIABLES
    event,      \* webhook_deliveries.event_id, by row id
    status,     \* webhook_deliveries.status
    attempts,   \* webhook_deliveries.attempts, see CountedAttempts
    wait,       \* time left until next_attempt_at
    due,        \* ids of the due rows, by next_attempt_at and id
    config,
    loop,       \* what each loop is working on
    accepted,   \* times the receiver accepted a row
    unrecorded, \* those of them the loop never learned of, or did not store
    stops, restarts

rowVars == <<event, status, attempts, wait, due>>
vars == <<rowVars, config, loop, accepted, unrecorded, stops, restarts>>

Rows == DOMAIN event
StoreOfRow(d) == StoreOf[event[d]]
MaxRows == Cardinality(Events) + MaxReplays

Jobs == [id : Rows, attempts : Nat]
Resting == [at |-> "resting"]
Posting(l) == loop[l].at = "posting" /\ loop[l].batch /= <<>>
Job1(l) == Head(loop[l].batch)
SecretOf(d) == config[StoreOfRow(d)].secret
Secret(l) == SecretOf(Job1(l).id)

TypeOK ==
    /\ event \in Seq(Events) /\ Len(event) <= MaxRows
    /\ status \in [Rows -> {"pending", "delivered"}]
    /\ attempts \in [Rows -> Nat]
    /\ wait \in [Rows -> Nat]
    /\ due \in Seq(Rows)
    /\ \A i, j \in DOMAIN due : due[i] = due[j] => i = j
    /\ \A d \in Rows : (status[d] = "pending" /\ wait[d] = 0) <=> Contains(due, d)
    /\ config \in Configurations
    /\ loop \in [Loops -> {Resting} \cup
                 [at : {"posting", "accepted", "refused"}, batch : Seq(Jobs)]]
    /\ accepted \in [Rows -> Nat]
    /\ unrecorded \in [Rows -> Nat]
    /\ {stops, restarts} \subseteq Nat

Init ==
    /\ event = <<>>
    /\ status = <<>>
    /\ attempts = <<>>
    /\ wait = <<>>
    /\ due = <<>>
    /\ config \in {c \in Configurations : \A s \in Stores : c[s] = Served}
    /\ loop = [l \in Loops |-> Resting]
    /\ accepted = <<>>
    /\ unrecorded = <<>>
    /\ stops = 0
    /\ restarts = 0

------------------------------------------------------------------------------
(* The queue                                                               *)

\* A new row is due at once.
Enqueue(e) ==
    /\ event' = Append(event, e)
    /\ status' = Append(status, "pending")
    /\ attempts' = Append(attempts, 0)
    /\ wait' = Append(wait, 0)
    /\ due' = Append(due, Len(event) + 1)
    /\ accepted' = Append(accepted, 0)
    /\ unrecorded' = Append(unrecorded, 0)

Occurrences(e) == Cardinality({d \in Rows : event[d] = e})

\* An event is recorded and enqueued for a store with a webhook.
RecordEvent(e) ==
    /\ Occurrences(e) = 0
    /\ config[StoreOf[e]].url
    /\ Enqueue(e)
    /\ UNCHANGED <<config, loop, stops, restarts>>

\* A recorded event is enqueued once more, delivered or not.
ReplayEvent(e) ==
    /\ Occurrences(e) > 0
    /\ Len(event) < Cardinality({event[d] : d \in Rows}) + MaxReplays
    /\ config[StoreOf[e]].url
    /\ Enqueue(e)
    /\ UNCHANGED <<config, loop, stops, restarts>>

\* 30 seconds, doubled with each attempt, up to a limit; here in units of 30.
RetryDelay(n) ==
    LET exponent == IF n = 0 THEN 0 ELSE n - 1
    IN 2 ^ (IF exponent > MaxExponent THEN MaxExponent ELSE exponent)

\* Bound: attempts are not told apart once the delay has stopped growing.
CountedAttempts(n) == IF n > MaxExponent + 1 THEN MaxExponent + 1 ELSE n

\* A row that is delivered or has to wait is not due any more.
LeaveLine(d) ==
    \/ ~Contains(due, d) /\ due' = due
    \/ \E i \in DOMAIN due : due[i] = d /\ due' = RemoveAt(due, i)

\* Mutant: a delivered row is still selected.
MarkDeliveredStaysDue(d) ==
    /\ status' = [status EXCEPT ![d] = "delivered"]
    /\ UNCHANGED <<event, attempts, wait, due>>

MarkDelivered(d) ==
    /\ status' = [status EXCEPT ![d] = "delivered"]
    /\ LeaveLine(d)
    /\ UNCHANGED <<event, attempts, wait>>

\* Mutant: a failed row is made pending again.
MarkFailedPending(d, n) ==
    /\ status' = [status EXCEPT ![d] = "pending"]
    /\ attempts' = [attempts EXCEPT ![d] = CountedAttempts(n)]
    /\ wait' = [wait EXCEPT ![d] = RetryDelay(n)]
    /\ LeaveLine(d)
    /\ UNCHANGED event

\* The count is the one read with the batch plus one; the status is not written.
MarkFailed(d, n) ==
    /\ attempts' = [attempts EXCEPT ![d] = CountedAttempts(n)]
    /\ wait' = [wait EXCEPT ![d] = RetryDelay(n)]
    /\ LeaveLine(d)
    /\ UNCHANGED <<event, status>>

\* Time passes; rows that fall due line up behind those that already are, and those
\* that fall due at one time in any order.
Tick ==
    /\ \E d \in Rows : wait[d] > 0
    /\ wait' = [d \in Rows |-> IF wait[d] > 0 THEN wait[d] - 1 ELSE 0]
    /\ LET falling == {d \in Rows : wait[d] = 1 /\ status[d] = "pending"}
       IN \E line \in Bijection(1..Cardinality(falling), falling) : due' = due \o line
    /\ UNCHANGED <<event, status, attempts, config, loop, accepted, unrecorded,
                   stops, restarts>>

------------------------------------------------------------------------------
(* The delivery loops                                                      *)

NextJob(l, batch) ==
    loop' = [loop EXCEPT ![l] =
        IF batch = <<>> THEN Resting ELSE [at |-> "posting", batch |-> batch]]

\* due_webhook_deliveries: the first rows, with the attempts they have now.
BeginPass(l) ==
    /\ loop[l] = Resting
    /\ due /= <<>>
    /\ LET ids == SubSeq(due, 1, IF Len(due) < BatchSize THEN Len(due) ELSE BatchSize)
       IN NextJob(l, [i \in DOMAIN ids |->
                        [id |-> ids[i], attempts |-> attempts[ids[i]]]])
    /\ UNCHANGED <<rowVars, config, accepted, unrecorded, stops, restarts>>

\* Mutant: a row of a store without a secret ends the pass.
SkipEndsPass(l) ==
    /\ Posting(l)
    /\ Secret(l) = "unnamed"
    /\ loop' = [loop EXCEPT ![l] = Resting]
    /\ UNCHANGED <<rowVars, config, accepted, unrecorded, stops, restarts>>

\* A row of a store without a secret is passed over, and stays where it is.  A row
\* keeps its url: one that was taken out of the configuration is still posted to.
Skip(l) ==
    /\ Posting(l)
    /\ Secret(l) = "unnamed"
    /\ NextJob(l, Tail(loop[l].batch))
    /\ UNCHANGED <<rowVars, config, accepted, unrecorded, stops, restarts>>

\* A secret that is not in the environment ends the pass.
GiveUp(l) ==
    /\ Posting(l)
    /\ Secret(l) = "missing"
    /\ loop' = [loop EXCEPT ![l] = Resting]
    /\ UNCHANGED <<rowVars, config, accepted, unrecorded, stops, restarts>>

Answer(l, answer) == loop' = [loop EXCEPT ![l].at = answer]

\* The receiver accepts the event ...
Accept(l) ==
    /\ Posting(l)
    /\ Secret(l) = "set"
    /\ accepted' = [accepted EXCEPT ![Job1(l).id] = @ + 1]
    /\ Answer(l, "accepted")
    /\ UNCHANGED <<rowVars, config, unrecorded, stops, restarts>>

\* ... or refuses it, or cannot be reached ...
Refuse(l) ==
    /\ Posting(l)
    /\ Secret(l) = "set"
    /\ Answer(l, "refused")
    /\ UNCHANGED <<rowVars, config, accepted, unrecorded, stops, restarts>>

\* ... or accepts it and its answer is lost or late.
LoseAnswer(l) ==
    /\ Posting(l)
    /\ Secret(l) = "set"
    /\ stops < MaxStops
    /\ stops' = stops + 1
    /\ accepted' = [accepted EXCEPT ![Job1(l).id] = @ + 1]
    /\ unrecorded' = [unrecorded EXCEPT ![Job1(l).id] = @ + 1]
    /\ Answer(l, "refused")
    /\ UNCHANGED <<rowVars, config, restarts>>

\* The outcome is stored with the row, and the pass goes on.
Mark(l) ==
    /\ \/ /\ loop[l].at = "accepted"
          /\ MarkDelivered(Job1(l).id)
       \/ /\ loop[l].at = "refused"
          /\ MarkFailed(Job1(l).id, Job1(l).attempts + 1)
    /\ NextJob(l, Tail(loop[l].batch))
    /\ UNCHANGED <<config, accepted, unrecorded, stops, restarts>>

\* The process stops, or a statement fails, and the pass is over.
Stop(l) ==
    /\ loop[l] /= Resting
    /\ stops < MaxStops
    /\ stops' = stops + 1
    /\ unrecorded' = IF loop[l].at = "accepted"
                     THEN [unrecorded EXCEPT ![Job1(l).id] = @ + 1]
                     ELSE unrecorded
    /\ loop' = [loop EXCEPT ![l] = Resting]
    /\ UNCHANGED <<rowVars, config, accepted, restarts>>

\* The processes are started again with another configuration; the rows stay.
Restart ==
    /\ \A l \in Loops : loop[l] = Resting
    /\ restarts < MaxRestarts
    /\ restarts' = restarts + 1
    /\ config' \in Configurations \ {config}
    /\ UNCHANGED <<rowVars, loop, accepted, unrecorded, stops>>

LoopStep(l) ==
    \/ BeginPass(l) \/ Skip(l) \/ GiveUp(l)
    \/ Accept(l) \/ Refuse(l) \/ LoseAnswer(l)
    \/ Mark(l)

Next ==
    \/ \E e \in Events : RecordEvent(e) \/ ReplayEvent(e)
    \/ \E l \in Loops : LoopStep(l) \/ Stop(l)
    \/ Tick
    \/ Restart

Spec == Init /\ [][Next]_vars

\* The loops are polled for ever and drive a pass to its end, and time passes.
\* The receivers of reliable stores accept a row that is posted again and again.
AcceptRow(d) ==
    /\ d \in Rows
    /\ StoreOfRow(d) \in Reliable
    /\ \E l \in Loops : Posting(l) /\ Job1(l).id = d /\ Accept(l)

Fairness ==
    /\ \A l \in Loops : WF_vars(LoopStep(l))
    /\ WF_vars(Tick)
    /\ \A d \in 1..MaxRows : SF_vars(AcceptRow(d))

FairSpec == Spec /\ Fairness

------------------------------------------------------------------------------
(* Properties                                                              *)

\* How far the delivery of a row has come, for Delivery.
Stage(d) ==
    CASE d \notin Rows -> "absent"
      [] d \in Rows /\ status[d] = "delivered" -> "done"
      [] d \in Rows /\ status[d] = "pending" /\ accepted[d] > 0 -> "received"
      [] OTHER -> "owed"

StageOf == [d \in 1..MaxRows |-> Stage(d)]

Promise == INSTANCE Delivery WITH Most <- MaxRows, stage <- StageOf

\* The queue keeps the promise of Delivery: a row is marked delivered only after the
\* receiver accepted it, although loops of two processes may post one row at once
\* and see different outcomes, and stays delivered when the other loop reports that
\* its own attempt, of the row as read earlier, has failed
\* (mark_webhook_delivered, mark_webhook_failed).
KeepsThePromise == Promise!DeliverySpec

\* The receiver gets an event from one row no more often than there are loops,
\* unless the outcome of an earlier acceptance was lost on its way to the row:
\* retries, restarts and overlapping passes add no other duplicates
\* (deliver_due_webhooks).
AcceptedOncePerLoop ==
    \A d \in Rows : accepted[d] <= unrecorded[d] + Cardinality(Loops)

\* The due rows a pass comes to before d.
Ahead(d) == {due[i] : i \in {n \in DOMAIN due : \E m \in DOMAIN due : n < m /\ due[m] = d}}

\* No pass gets as far as d: one before it ends every pass, or those before it
\* that are passed over are a batch, and neither kind is ever moved.
HeldUp(d) ==
    \/ \E q \in Ahead(d) : SecretOf(q) = "missing"
    \/ Cardinality({q \in Ahead(d) : SecretOf(q) = "unnamed"}) >= BatchSize

\* A delivery of a reliable store that has its secret stays pending for ever only if
\* it is held up again and again.  Rows that are refused for ever never hold it
\* up, nor do fewer rows that are passed over than a pass takes, and
\* once the configuration serves the rows before it, it is made
\* (due_webhook_deliveries, deliver_due_webhooks).
NoDeliveryForgotten ==
    \A d \in 1..MaxRows :
        []<>(d \in Rows /\ StoreOfRow(d) \in Reliable /\ SecretOf(d) = "set"
             => status[d] = "delivered" \/ HeldUp(d))
==============================================================================
