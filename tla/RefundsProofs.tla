---------------------------- MODULE RefundsProofs ----------------------------
(***************************************************************************)
(* Proofs about Refunds, for any set of refunds, requests and executors    *)
(* and any payout tables.                                                  *)
(***************************************************************************)
EXTENDS Refunds, SumTheorems

------------------------------------------------------------------------------
(* Type correctness                                                        *)

\* What requests and executors hold has the type of the phase they are in.
LEMMA HeldTypes ==
    ASSUME TypeOK
    PROVE  /\ \A c \in Clients :
                /\ client[c].at = "reading" => client[c] \in Request
                /\ client[c].at = "inserting" => client[c] \in Insertion
                /\ client[c].at = "approving" => client[c] \in Approving
                /\ client[c].at = "deciding" => client[c] \in Deciding
           /\ \A e \in Executors :
                /\ executor[e] /= Resting =>
                     /\ executor[e].refund \in Refunds
                     /\ executor[e].at \in {"dispatching", "failing", "paying",
                                            "retrying", "starting", "finalizing"}
                /\ executor[e].at \in {"starting", "finalizing"} =>
                     executor[e].day \in Nat
  BY DEF TypeOK, Idle, Request, Insertion, Approving, Deciding, Resting, Pass

\* What the shared statements leave behind.
LEMMA EnqueueTypes ==
    ASSUME TypeOK, NEW r \in Refunds, NEW type \in EventTypes, Enqueue(r, type)
    PROVE  deliveries' \in [Refunds -> [EventTypes -> Nat]]
<1> DEFINE row1 == [deliveries[r] EXCEPT ![type] = @ + 1]
<1>1. deliveries[r] \in [EventTypes -> Nat]
  BY DEF TypeOK
<1>2. row1 \in [EventTypes -> Nat]
  BY <1>1
<1>3. deliveries' = [deliveries EXCEPT ![r] = row1]
  BY DEF Enqueue
<1> HIDE DEF row1
<1> QED
  BY <1>2, <1>3 DEF TypeOK

\* update_refund_status keeps the types of the columns it writes.
LEMMA UpdateTypes ==
    ASSUME TypeOK, NEW r \in Refunds, Present(r), NEW new \in Statuses,
           NEW type \in EventTypes, UpdateRefundStatus(r, new, type)
    PROVE  /\ status' \in [Refunds -> Statuses \cup {"absent"}]
           /\ \A q \in Refunds : Present(q)' => Present(q)
           /\ \A q \in Refunds : Present(q) => Present(q)'
           /\ deliveries' \in [Refunds -> [EventTypes -> Nat]]
           /\ UNCHANGED <<approval, row, leased>>
<1>1. Enqueue(r, type)
  BY DEF UpdateRefundStatus
<1>2. deliveries' \in [Refunds -> [EventTypes -> Nat]]
  BY <1>1, EnqueueTypes
<1> QED
  BY <1>2 DEF UpdateRefundStatus, TypeOK, Present, Statuses

\* Sums over refunds are numbers.
LEMMA SumTypes ==
    ASSUME TypeOK
    PROVE  /\ Sats \in [Refunds -> Nat]
           /\ \A S \in SUBSET Refunds : SumFunctionOnSet(Sats, S) \in Nat
           /\ \A i \in Invoices : Promised(i) \in Nat
           /\ \A i \in Invoices, total \in Nat : RefundableSats(total, i) \in Nat
<1>1. Sats \in [Refunds -> Nat]
  BY DEF TypeOK, Sats, Row, Present
<1>2. ASSUME NEW S \in SUBSET Refunds
      PROVE  SumFunctionOnSet(Sats, S) \in Nat
  <2>1. IsFiniteSet(S) /\ \A r \in S : Sats[r] \in Nat
    BY <1>1, RefundsAssumption, FS_Subset
  <2> QED
    BY <2>1, SumIsNat
<1>3. ASSUME NEW i \in Invoices
      PROVE  Promised(i) \in Nat /\ \A total \in Nat : RefundableSats(total, i) \in Nat
  <2>1. Promised(i) \in Nat
    BY <1>2 DEF Promised, Counted
  <2> QED
    BY <2>1 DEF RefundableSats, Minus
<1> QED
  BY <1>1, <1>2, <1>3

\* The initial state has the types, and nobody holds a refund in it.
THEOREM TypingInit == Init => TypeOK /\ HeldRefundsExist
<1> SUFFICES ASSUME Init PROVE TypeOK /\ HeldRefundsExist
  OBVIOUS
<1>1. paid \in [Invoices -> Nat] /\ most \in [Invoices -> Nat]
  BY RefundsAssumption DEF Init
<1>2. client \in [Clients -> {Idle}] /\ executor \in [Executors -> {Resting}]
  BY DEF Init
<1>3. deliveries \in [Refunds -> [EventTypes -> Nat]]
  BY DEF Init
<1>4. TypeOK
  BY <1>1, <1>2, <1>3 DEF Init, TypeOK, Present, Approvals
<1>5. HeldRefundsExist
  BY DEF Init, HeldRefundsExist, Idle, Resting
<1> QED
  BY <1>4, <1>5

\* Every step keeps the types, given that held refunds exist.
LEMMA TypingStep ==
    ASSUME TypeOK, HeldRefundsExist, [Next]_vars
    PROVE  TypeOK'
<1> USE DEF TypeOK, Present, rowVars, paidVars, moneyVars
<1>1. ASSUME NEW c \in Clients, CreateRefund(c) PROVE TypeOK'
  <2>1. PICK invoice \in Invoices, asked \in Asked,
             dest \in Destinations \cup {NoDest}, key \in Keys \cup {NoKey} :
          IF RefundsWithKey(key) /= {}
          THEN AnswerExisting(key, invoice) /\ UNCHANGED client
          ELSE /\ client' = [client EXCEPT ![c] =
                      [at |-> "reading", invoice |-> invoice, asked |-> asked,
                       dest |-> dest, key |-> key, paid |-> paid[invoice]]]
               /\ UNCHANGED answered
    BY <1>1 DEF CreateRefund
  <2>2. answered' \subseteq [key : Keys, refund : Refunds]
    BY <2>1 DEF AnswerExisting, RefundsWithKey
  <2>3. asked \in Nat /\ paid[invoice] \in Nat
    BY RefundsAssumption
  <2>4. client' \in [Clients -> {Idle} \cup Request \cup Insertion
                               \cup Approving \cup Deciding]
    BY <2>1, <2>3 DEF Request
  <2> QED
    BY <1>1, <2>2, <2>4 DEF CreateRefund
<1>2. ASSUME NEW c \in Clients, ReadRefundable(c) PROVE TypeOK'
  <2>1. client[c] \in Request
    BY <1>2, HeldTypes DEF ReadRefundable
  <2>2. RefundableSats(client[c].paid, client[c].invoice) \in Nat
    BY <2>1, SumTypes DEF Request
  <2>3. client' \in [Clients -> {Idle} \cup Request \cup Insertion
                               \cup Approving \cup Deciding]
    BY <1>2, <2>1, <2>2 DEF ReadRefundable, Request, Insertion, Row, Approvals
  <2> QED
    BY <1>2, <2>3 DEF ReadRefundable
<1>3. ASSUME NEW c \in Clients, InsertRefund(c) PROVE TypeOK'
  <2> DEFINE new == client[c].new
  <2>1. /\ client[c] \in Insertion
        /\ client' = [client EXCEPT ![c] = Idle]
        /\ UNCHANGED <<executor, today, paid, most, sent, uncertain, crashes, faults>>
    BY <1>3, HeldTypes DEF InsertRefund
  <2>2. new \in Row /\ client[c].approval \in Approvals
    BY <2>1 DEF Insertion
  <2>3. CASE RefundsWithKey(new.key) /= {}
    BY <1>3, <2>1, <2>2, <2>3
       DEF InsertRefund, AnswerExisting, RefundsWithKey, Row
  <2>4. CASE RefundsWithKey(new.key) = {}
    <3>1. PICK r \in Refunds :
            /\ status' = [status EXCEPT ![r] = "pending"]
            /\ approval' = [approval EXCEPT ![r] = client[c].approval]
            /\ row' = [row EXCEPT ![r] = new]
            /\ Enqueue(r, "refund.created")
            /\ answered' = IF new.key = NoKey THEN answered
                           ELSE answered \cup {[key |-> new.key, refund |-> r]}
            /\ UNCHANGED <<leased, stamp>>
      BY <1>3, <2>4 DEF InsertRefund
    <3>2. deliveries' \in [Refunds -> [EventTypes -> Nat]]
      BY <3>1, EnqueueTypes DEF EventTypes
    <3>3. answered' \subseteq [key : Keys, refund : Refunds]
      BY <2>2, <3>1 DEF Row
    <3> HIDE DEF new
    <3> QED
      BY <2>1, <2>2, <3>1, <3>2, <3>3 DEF Statuses
  <2> QED
    BY <2>3, <2>4
<1>4. ASSUME NEW c \in Clients, ReadForApproval(c) PROVE TypeOK'
  BY <1>4 DEF ReadForApproval, Approving
<1>5. ASSUME NEW c \in Clients, ApproveRefund(c) PROVE TypeOK'
  <2>1. client[c].refund \in Refunds
    BY <1>5, HeldTypes DEF ApproveRefund, Approving
  <2>2. deliveries' \in [Refunds -> [EventTypes -> Nat]]
    BY <1>5, <2>1, EnqueueTypes DEF ApproveRefund, EventTypes
  <2> QED
    BY <1>5, <2>1, <2>2 DEF ApproveRefund, Approvals
<1>6. ASSUME NEW c \in Clients, ReadForDecision(c) PROVE TypeOK'
  BY <1>6 DEF ReadForDecision, Deciding
<1>7. ASSUME NEW c \in Clients, DecideRefund(c) PROVE TypeOK'
  <2>1. client[c].refund \in Refunds /\ Present(client[c].refund)
    BY <1>7, HeldTypes DEF DecideRefund, Deciding, HeldRefundsExist
  <2>2. \E new \in Statuses, type \in EventTypes :
            UpdateRefundStatus(client[c].refund, new, type)
    BY <1>7 DEF DecideRefund, Statuses, EventTypes
  <2>3. stamp' \in [Refunds -> Nat]
    BY <1>7, <2>1 DEF DecideRefund
  <2> QED
    BY <1>7, <2>1, <2>2, <2>3, UpdateTypes DEF DecideRefund
<1>8. ASSUME NEW c \in Clients, DropRequest(c) PROVE TypeOK'
  BY <1>8 DEF DropRequest
<1>9. ASSUME NEW e \in Executors, NEW r \in Refunds, Claim(e, r) PROVE TypeOK'
  BY <1>9 DEF Claim, Pass
<1>10. ASSUME NEW e \in Executors, Dispatch(e) PROVE TypeOK'
  BY <1>10, HeldTypes DEF Dispatch, Pass, Resting
<1>11. ASSUME NEW e \in Executors, Start(e) PROVE TypeOK'
  <2> DEFINE r == executor[e].refund
  <2>1. r \in Refunds /\ executor[e].day \in Nat
    BY <1>11, HeldTypes DEF Start, Resting
  <2>2. CASE MayStart(r, executor[e].day)
    <3>1. /\ UpdateRefundStatus(r, "processing", "refund.processing")
          /\ stamp' = [stamp EXCEPT ![r] = executor[e].day]
          /\ executor' = [executor EXCEPT ![e] = [at |-> "paying", refund |-> r]]
          /\ UNCHANGED <<client, today, paid, most, sent, uncertain, answered, crashes,
                         faults>>
      BY <1>11, <2>2 DEF Start
    <3>2. Present(r)
      BY <2>2 DEF MayStart, Present
    <3> HIDE DEF r
    <3> QED
      BY <2>1, <3>1, <3>2, UpdateTypes DEF Statuses, EventTypes, Pass
  <2>3. CASE ~MayStart(r, executor[e].day)
    BY <1>11, <2>3 DEF Start
  <2> QED
    BY <2>2, <2>3
<1>12. ASSUME NEW e \in Executors, PaySucceeds(e) PROVE TypeOK'
  BY <1>12, HeldTypes DEF PaySucceeds, Pass, Resting
<1>13. ASSUME NEW e \in Executors, PayRefused(e) PROVE TypeOK'
  BY <1>13, HeldTypes DEF PayRefused, Pass, Resting
<1>14. ASSUME NEW e \in Executors, PayErrs(e) PROVE TypeOK'
  <2>1. executor[e].refund \in Refunds
    <3>1. executor[e] /= Resting
      BY <1>14 DEF PayErrs, Resting
    <3> QED
      BY <3>1, HeldTypes
  <2>2. executor' \in [Executors -> {Resting} \cup Pass]
    BY <1>14, <2>1 DEF PayErrs, Pass
  <2>3. sent' \in [Refunds -> Nat] /\ uncertain' \in [Refunds -> Nat]
    <3> HIDE DEF TypeOK
    <3>1. sent \in [Refunds -> Nat] /\ uncertain \in [Refunds -> Nat]
      BY DEF TypeOK
    <3>2. CASE UNCHANGED <<sent, uncertain>>
      BY <3>1, <3>2
    <3>3. CASE /\ sent' = [sent EXCEPT ![executor[e].refund] = @ + 1]
               /\ uncertain' = [uncertain EXCEPT ![executor[e].refund] = @ + 1]
      BY <2>1, <3>1, <3>3
    <3> QED
      BY <1>14, <3>2, <3>3 DEF PayErrs
  <2> QED
    BY <1>14, <2>2, <2>3 DEF PayErrs
<1>15. ASSUME NEW e \in Executors, Record(e) PROVE TypeOK'
  <2>1. executor[e].refund \in Refunds /\ Present(executor[e].refund)
    BY <1>15, HeldTypes DEF Record, Resting, HeldRefundsExist
  <2>2. \E new \in Statuses, type \in EventTypes :
            UpdateRefundStatus(executor[e].refund, new, type)
    BY <1>15 DEF Record, Statuses, EventTypes
  <2>3. stamp' \in [Refunds -> Nat]
    BY <1>15, <2>1, HeldTypes DEF Record
  <2> QED
    BY <1>15, <2>1, <2>2, <2>3, UpdateTypes DEF Record
<1>16. ASSUME NEW e \in Executors, Crash(e) PROVE TypeOK'
  <2>1. executor[e].refund \in Refunds
    BY <1>16, HeldTypes DEF Crash
  <2>2. executor' \in [Executors -> {Resting} \cup Pass]
    BY <1>16 DEF Crash
  <2>3. sent' \in [Refunds -> Nat]
    <3>1. \/ UNCHANGED sent
          \/ sent' = [sent EXCEPT ![executor[e].refund] = @ + 1]
      BY <1>16 DEF Crash
    <3>2. sent \in [Refunds -> Nat]
      OBVIOUS
    <3> QED
      <4> HIDE DEF TypeOK
      <4> QED
        BY <2>1, <3>1, <3>2
  <2> QED
    BY <1>16, <2>2, <2>3 DEF Crash
<1>17. ASSUME NEW r \in Refunds, LeaseExpires(r) PROVE TypeOK'
  BY <1>17 DEF LeaseExpires
<1>18. ASSUME NEW i \in Invoices, ObservePayments(i) PROVE TypeOK'
  <2>1. PICK sats \in Sums :
          /\ paid' = [paid EXCEPT ![i] = sats]
          /\ most' = [most EXCEPT ![i] = IF sats > @ THEN sats ELSE @]
    BY <1>18 DEF ObservePayments
  <2>2. sats \in Nat
    BY RefundsAssumption
  <2> QED
    BY <1>18, <2>1, <2>2 DEF ObservePayments
<1>19. CASE Midnight
  BY <1>19 DEF Midnight
<1>20. CASE UNCHANGED vars
  BY <1>20 DEF vars
<1> QED
  BY <1>1, <1>2, <1>3, <1>4, <1>5, <1>6, <1>7, <1>8, <1>9, <1>10, <1>11, <1>12,
     <1>13, <1>14, <1>15, <1>16, <1>17, <1>18, <1>19, <1>20
     DEF Next, ClientStep, PassStep

------------------------------------------------------------------------------
(* Held refunds                                                            *)

\* No step removes a row, changes what was inserted, or takes an approval back.
LEMMA RowsArePermanent ==
    ASSUME TypeOK, HeldRefundsExist, [Next]_vars, NEW r \in Refunds, Present(r)
    PROVE  /\ Present(r)'
           /\ row'[r] = row[r]
           /\ AllowsExecution(approval[r]) => AllowsExecution(approval'[r])
<1> USE DEF Present, rowVars, moneyVars
<1>1. ASSUME NEW c \in Clients, InsertRefund(c)
      PROVE  Present(r)' /\ row'[r] = row[r] /\ approval'[r] = approval[r]
  BY <1>1 DEF InsertRefund, TypeOK
<1>2. ASSUME NEW c \in Clients, ApproveRefund(c)
      PROVE  /\ Present(r)' /\ row'[r] = row[r]
             /\ AllowsExecution(approval[r]) => AllowsExecution(approval'[r])
  BY <1>2, HeldTypes DEF ApproveRefund, TypeOK, AllowsExecution
<1>3. ASSUME NEW q \in Refunds, Present(q), NEW new \in Statuses,
             NEW type \in EventTypes, UpdateRefundStatus(q, new, type)
      PROVE  Present(r)' /\ row'[r] = row[r] /\ approval'[r] = approval[r]
  BY <1>3, UpdateTypes
<1>4. ASSUME NEW c \in Clients, DecideRefund(c)
      PROVE  Present(r)' /\ row'[r] = row[r] /\ approval'[r] = approval[r]
  <2>1. client[c].refund \in Refunds /\ Present(client[c].refund)
    BY <1>4, HeldTypes DEF DecideRefund, Deciding, HeldRefundsExist
  <2>2. \E new \in Statuses, type \in EventTypes :
            UpdateRefundStatus(client[c].refund, new, type)
    BY <1>4 DEF DecideRefund, Statuses, EventTypes
  <2> QED
    BY <1>3, <2>1, <2>2
<1>5. ASSUME NEW e \in Executors, Start(e)
      PROVE  Present(r)' /\ row'[r] = row[r] /\ approval'[r] = approval[r]
  <2>1. executor[e].refund \in Refunds /\ Present(executor[e].refund)
    BY <1>5, HeldTypes DEF Start, Resting, HeldRefundsExist
  <2>2. \/ UpdateRefundStatus(executor[e].refund, "processing", "refund.processing")
        \/ UNCHANGED rowVars
    BY <1>5 DEF Start
  <2> QED
    BY <1>3, <2>1, <2>2 DEF Statuses, EventTypes
<1>6. ASSUME NEW e \in Executors, Record(e)
      PROVE  Present(r)' /\ row'[r] = row[r] /\ approval'[r] = approval[r]
  <2>1. executor[e].refund \in Refunds /\ Present(executor[e].refund)
    BY <1>6, HeldTypes DEF Record, Resting, HeldRefundsExist
  <2>2. \E new \in Statuses, type \in EventTypes :
            UpdateRefundStatus(executor[e].refund, new, type)
    BY <1>6 DEF Record, Statuses, EventTypes
  <2> QED
    BY <1>3, <2>1, <2>2
<1>7. ASSUME UNCHANGED <<status, approval, row>>
      PROVE  Present(r)' /\ row'[r] = row[r] /\ approval'[r] = approval[r]
  BY <1>7
<1> QED
  BY <1>1, <1>2, <1>4, <1>5, <1>6, <1>7
     DEF Next, ClientStep, PassStep, vars, CreateRefund, ReadRefundable,
         ReadForApproval, ReadForDecision, DropRequest, Claim, Dispatch,
         PaySucceeds, PayRefused, PayErrs, Crash, LeaseExpires, ObservePayments, Midnight

\* How an executor comes to hold a refund: by claiming it.
LEMMA ExecutorMoves ==
    ASSUME TypeOK, [Next]_vars, NEW e \in Executors, executor'[e] /= Resting,
           executor'[e] /= executor[e]
    PROVE  \/ /\ executor[e] /= Resting
              /\ executor'[e].refund = executor[e].refund
           \/ \E r \in Refunds : Claim(e, r)
<1>1. ASSUME NEW f \in Executors,
             \/ Dispatch(f) \/ Start(f) \/ PaySucceeds(f) \/ PayRefused(f)
             \/ PayErrs(f) \/ Record(f) \/ Crash(f)
      PROVE  executor[e] /= Resting /\ executor'[e].refund = executor[e].refund
  BY <1>1
     DEF TypeOK, Resting, Dispatch, Start, PaySucceeds, PayRefused, PayErrs,
         Record, Crash
<1>2. ASSUME NEW f \in Executors, NEW r \in Refunds, Claim(f, r)
      PROVE  Claim(e, r)
  BY <1>2 DEF TypeOK, Claim
<1>3. ASSUME UNCHANGED executor PROVE FALSE
  BY <1>3
<1> QED
  BY <1>1, <1>2, <1>3
     DEF Next, ClientStep, PassStep, vars, CreateRefund, ReadRefundable,
         InsertRefund, ReadForApproval, ApproveRefund, ReadForDecision,
         DecideRefund, DropRequest, LeaseExpires, ObservePayments, Midnight

\* How a request comes to hold a refund: by reading a pending one.
LEMMA RequestMoves ==
    ASSUME TypeOK, [Next]_vars, NEW c \in Clients,
           client'[c].at \in {"approving", "deciding"}
    PROVE  \/ client'[c] = client[c]
           \/ client'[c].refund \in Refunds /\ Present(client'[c].refund)
<1>1. ASSUME NEW d \in Clients, ReadForApproval(d) \/ ReadForDecision(d)
      PROVE  \/ client'[c] = client[c]
             \/ client'[c].refund \in Refunds /\ Present(client'[c].refund)
  BY <1>1 DEF TypeOK, ReadForApproval, ReadForDecision, Present
<1>2. ASSUME NEW d \in Clients,
             \/ CreateRefund(d) \/ ReadRefundable(d) \/ InsertRefund(d)
             \/ ApproveRefund(d) \/ DecideRefund(d) \/ DropRequest(d)
      PROVE  client'[c] = client[c]
  BY <1>2
     DEF TypeOK, Idle, CreateRefund, ReadRefundable, InsertRefund, ApproveRefund,
         DecideRefund, DropRequest
<1>3. CASE UNCHANGED client
  BY <1>3
<1> QED
  BY <1>1, <1>2, <1>3
     DEF Next, ClientStep, PassStep, vars, Claim, Dispatch, Start, PaySucceeds,
         PayRefused, PayErrs, Record, Crash, LeaseExpires, ObservePayments, Midnight

\* No step leaves a request or an executor with a refund that does not exist or
\* may not be executed.
LEMMA HeldStep ==
    ASSUME TypeOK, HeldRefundsExist, [Next]_vars
    PROVE  HeldRefundsExist'
<1>1. ASSUME NEW c \in Clients, client'[c].at \in {"approving", "deciding"}
      PROVE  status'[client'[c].refund] /= "absent"
  <2>1. client'[c].refund \in Refunds /\ Present(client'[c].refund)
    <3>1. CASE client'[c] = client[c]
      BY <1>1, <3>1, HeldTypes DEF HeldRefundsExist, Approving, Deciding
    <3> QED
      BY <1>1, <3>1, RequestMoves
  <2>2. PICK r \in Refunds : r = client'[c].refund
    BY <2>1
  <2>3. Present(r)'
    BY <2>1, <2>2, RowsArePermanent
  <2> QED
    BY <2>2, <2>3 DEF Present
<1>2. ASSUME NEW e \in Executors, executor'[e] /= Resting
      PROVE  LET r == executor'[e].refund
             IN /\ status'[r] /= "absent"
                /\ AllowsExecution(approval'[r])
                /\ row'[r].dest /= NoDest
  <2>1. PICK r \in Refunds :
          /\ r = executor'[e].refund
          /\ Present(r) /\ AllowsExecution(approval[r]) /\ row[r].dest /= NoDest
    <3>1. CASE executor[e] /= Resting /\ executor'[e].refund = executor[e].refund
      BY <3>1, HeldTypes DEF HeldRefundsExist
    <3>2. CASE \E q \in Refunds : Claim(e, q)
      BY <3>2 DEF Claim, Present, TypeOK
    <3> QED
      BY <1>2, <3>1, <3>2, ExecutorMoves
  <2>2. Present(r)' /\ AllowsExecution(approval'[r]) /\ row'[r] = row[r]
    BY <2>1, RowsArePermanent
  <2> QED
    BY <2>1, <2>2 DEF Present
<1> QED
  BY <1>1, <1>2 DEF HeldRefundsExist, Present, AllowsExecution

\* Every variable keeps its type, whatever the interleaving of requests,
\* executors, expiring leases and crashes.
THEOREM Typing == Spec => [](TypeOK /\ HeldRefundsExist)
<1>1. TypeOK /\ HeldRefundsExist /\ [Next]_vars => (TypeOK /\ HeldRefundsExist)'
  BY TypingStep, HeldStep
<1> QED
  BY TypingInit, <1>1, PTL DEF Spec

------------------------------------------------------------------------------
(* One payer                                                               *)

\* A payout gets under way by Start alone, out of a pending refund.
LEMMA StartedMoves ==
    ASSUME TypeOK, [Next]_vars, NEW e \in Executors, NEW r \in Refunds,
           Started(e, r)'
    PROVE  \/ Started(e, r)
           \/ /\ Start(e)
              /\ status[r] = "pending"
              /\ status' = [status EXCEPT ![r] = "processing"]
<1>1. ASSUME NEW f \in Executors,
             \/ Dispatch(f) \/ PaySucceeds(f) \/ PayRefused(f) \/ PayErrs(f)
             \/ Record(f) \/ Crash(f)
      PROVE  Started(e, r)
  <2>1. ASSUME Dispatch(f) \/ PayRefused(f) \/ Record(f)
        PROVE  Started(e, r)
    BY <2>1 DEF TypeOK, Started, Resting, Dispatch, PayRefused, Record
  <2>2. ASSUME PaySucceeds(f) \/ PayErrs(f)
        PROVE  Started(e, r)
    <3>1. /\ executor[f].at = "paying" /\ f \in DOMAIN executor
          /\ \E next : /\ executor' = [executor EXCEPT ![f] = next]
                       /\ next.refund = executor[f].refund
      BY <2>2 DEF TypeOK, PaySucceeds, PayErrs
    <3> QED
      BY <3>1 DEF TypeOK, Started
  <2>3. ASSUME Crash(f)
        PROVE  Started(e, r)
    <3>1. executor' = [executor EXCEPT ![f] = Resting] /\ f \in DOMAIN executor
      BY <2>3 DEF TypeOK, Crash
    <3> QED
      BY <3>1 DEF TypeOK, Started, Resting
  <2> QED
    BY <1>1, <2>1, <2>2, <2>3
<1>2. ASSUME NEW f \in Executors, NEW q \in Refunds, Claim(f, q)
      PROVE  Started(e, r)
  BY <1>2 DEF TypeOK, Started, Claim
<1>3. ASSUME NEW f \in Executors, Start(f), f /= e
      PROVE  Started(e, r)
  BY <1>3 DEF TypeOK, Started, Start
<1>4. ASSUME Start(e)
      PROVE  status[r] = "pending" /\ status' = [status EXCEPT ![r] = "processing"]
  BY <1>4 DEF TypeOK, Started, Start, MayStart, Resting, UpdateRefundStatus
<1>5. CASE UNCHANGED executor
  BY <1>5 DEF Started
<1> QED
  BY <1>1, <1>2, <1>3, <1>4, <1>5
     DEF Next, ClientStep, PassStep, vars, CreateRefund, ReadRefundable,
         InsertRefund, ReadForApproval, ApproveRefund, ReadForDecision,
         DecideRefund, DropRequest, LeaseExpires, ObservePayments, Midnight

\* A refund becomes pending by being inserted, or by its own payer's retry.
LEMMA BecomesPending ==
    ASSUME TypeOK, [Next]_vars, NEW r \in Refunds,
           status'[r] = "pending", status[r] /= "pending"
    PROVE  \/ ~Present(r) /\ UNCHANGED executor
           \/ \E e \in Executors : /\ executor[e].at = "retrying"
                                    /\ executor[e].refund = r
                                    /\ executor' = [executor EXCEPT ![e] = Resting]
<1>1. ASSUME NEW c \in Clients, InsertRefund(c)
      PROVE  ~Present(r) /\ UNCHANGED executor
  BY <1>1 DEF TypeOK, InsertRefund, Present, rowVars
<1>2. ASSUME NEW c \in Clients, DecideRefund(c)
      PROVE  FALSE
  BY <1>2 DEF TypeOK, DecideRefund, UpdateRefundStatus
<1>3. ASSUME NEW e \in Executors, Start(e)
      PROVE  FALSE
  BY <1>3 DEF TypeOK, Start, UpdateRefundStatus, rowVars
<1>4. ASSUME NEW e \in Executors, Record(e)
      PROVE  /\ executor[e].at = "retrying"
             /\ executor[e].refund = r
             /\ executor' = [executor EXCEPT ![e] = Resting]
  BY <1>4 DEF TypeOK, Record, UpdateRefundStatus
<1>5. CASE UNCHANGED status
  BY <1>5
<1> QED
  BY <1>1, <1>2, <1>3, <1>4, <1>5
     DEF Next, ClientStep, PassStep, vars, rowVars, CreateRefund, ReadRefundable,
         ReadForApproval, ApproveRefund, ReadForDecision, DropRequest, Claim,
         Dispatch, PaySucceeds, PayRefused, PayErrs, Crash, LeaseExpires,
         ObservePayments, Midnight

\* No step puts a second payer beside the first, or a payer on a pending refund.
LEMMA OnePayerStep ==
    ASSUME TypeOK, HeldRefundsExist, StartedNotPending, AtMostOnePayer, [Next]_vars
    PROVE  StartedNotPending' /\ AtMostOnePayer'
<1>1. ASSUME NEW e \in Executors, NEW r \in Refunds, Started(e, r)'
      PROVE  status'[r] /= "pending"
  <2>1. CASE Started(e, r)
    <3>1. status[r] /= "pending" /\ Present(r)
      BY <2>1, HeldTypes
         DEF StartedNotPending, Started, HeldRefundsExist, Resting
    <3>2. SUFFICES ASSUME status'[r] = "pending" PROVE FALSE
      OBVIOUS
    <3>3. PICK f \in Executors : /\ executor[f].at = "retrying"
                                 /\ executor[f].refund = r
                                 /\ executor' = [executor EXCEPT ![f] = Resting]
      BY <3>1, <3>2, BecomesPending
    <3>4. f = e
      BY <2>1, <3>3 DEF AtMostOnePayer, Started
    <3> QED
      BY <1>1, <3>3, <3>4 DEF TypeOK, Started, Resting
  <2> QED
    BY <1>1, <2>1, StartedMoves DEF TypeOK
<1>2. ASSUME NEW e \in Executors, NEW f \in Executors, NEW r \in Refunds,
             Started(e, r)', Started(f, r)'
      PROVE  e = f
  <2>1. CASE Started(e, r) /\ Started(f, r)
    BY <2>1 DEF AtMostOnePayer
  <2>2. CASE status[r] = "pending"
    <3>1. ~Started(e, r) /\ ~Started(f, r)
      BY <2>2 DEF StartedNotPending
    <3>2. Start(e) /\ Start(f)
      BY <1>2, <3>1, StartedMoves
    <3> QED
      BY <1>2, <3>1, <3>2 DEF Start, TypeOK, Started, Resting
  <2> QED
    BY <1>2, <2>1, <2>2, StartedMoves
<1> QED
  BY <1>1, <1>2 DEF StartedNotPending, AtMostOnePayer, Started

\* At most one executor has a refund's payout under way.
THEOREM OnePayer == Spec => []AtMostOnePayer
<1> DEFINE Inv == /\ TypeOK /\ HeldRefundsExist
                  /\ StartedNotPending /\ AtMostOnePayer
<1>1. Init => Inv
  BY TypingInit DEF Init, StartedNotPending, AtMostOnePayer, Started, Resting
<1>2. Inv /\ [Next]_vars => Inv'
  BY TypingStep, HeldStep, OnePayerStep
<1> QED
  BY <1>1, <1>2, PTL DEF Spec

------------------------------------------------------------------------------
(* The money leaves once                                                   *)

\* What a step does to the counts of a refund: only its payer changes them,
\* and every sending that is not reported as an error ends the payments.
LEMMA SentMoves ==
    ASSUME TypeOK, [Next]_vars, NEW r \in Refunds
    PROVE  \/ sent'[r] = sent[r] /\ uncertain'[r] = uncertain[r]
           \/ /\ sent'[r] = sent[r] + 1 /\ uncertain'[r] = uncertain[r] + 1
              /\ UNCHANGED status
              /\ \E e \in Executors :
                    executor[e].at = "paying" /\ executor[e].refund = r
           \/ /\ sent'[r] = sent[r] + 1 /\ uncertain'[r] = uncertain[r]
              /\ UNCHANGED status
              /\ \E e \in Executors, step \in {"finalizing", "resting"} :
                    /\ executor[e].at = "paying" /\ executor[e].refund = r
                    /\ executor'[e].at = step
                    /\ \A f \in Executors \ {e} : executor'[f] = executor[f]
<1>1. ASSUME NEW e \in Executors, PaySucceeds(e), executor[e].refund = r
      PROVE  /\ sent'[r] = sent[r] + 1 /\ uncertain'[r] = uncertain[r]
             /\ UNCHANGED status
             /\ executor[e].at = "paying"
             /\ executor'[e].at = "finalizing"
             /\ \A f \in Executors \ {e} : executor'[f] = executor[f]
  BY <1>1 DEF TypeOK, PaySucceeds, rowVars
<1>2. ASSUME NEW e \in Executors, PaySucceeds(e), executor[e].refund /= r
      PROVE  sent'[r] = sent[r] /\ uncertain'[r] = uncertain[r]
  BY <1>2 DEF TypeOK, PaySucceeds
<1>3. ASSUME NEW e \in Executors, PayErrs(e)
      PROVE  \/ sent'[r] = sent[r] /\ uncertain'[r] = uncertain[r]
             \/ /\ sent'[r] = sent[r] + 1 /\ uncertain'[r] = uncertain[r] + 1
                /\ UNCHANGED status
                /\ executor[e].at = "paying" /\ executor[e].refund = r
  BY <1>3 DEF TypeOK, PayErrs, moneyVars, rowVars
<1>4. ASSUME NEW e \in Executors, Crash(e)
      PROVE  \/ sent'[r] = sent[r] /\ uncertain'[r] = uncertain[r]
             \/ /\ sent'[r] = sent[r] + 1 /\ uncertain'[r] = uncertain[r]
                /\ UNCHANGED status
                /\ executor[e].at = "paying" /\ executor[e].refund = r
                /\ executor'[e].at = "resting"
                /\ \A f \in Executors \ {e} : executor'[f] = executor[f]
  BY <1>4 DEF TypeOK, Crash, Resting, rowVars
<1>5. \/ UNCHANGED <<sent, uncertain>>
      \/ \E e \in Executors : PaySucceeds(e) \/ PayErrs(e) \/ Crash(e)
  BY DEF Next, ClientStep, PassStep, vars, CreateRefund, ReadRefundable,
         InsertRefund, ReadForApproval, ApproveRefund, ReadForDecision,
         DecideRefund, DropRequest, Claim, Dispatch, Start, PayRefused, Record,
         LeaseExpires, ObservePayments, Midnight, moneyVars
<1> QED
  BY <1>1, <1>2, <1>3, <1>4, <1>5

\* An executor about to record a success does nothing else.
LEMMA FinalizingMoves ==
    ASSUME TypeOK, [Next]_vars, NEW e \in Executors, executor[e].at = "finalizing"
    PROVE  executor'[e] = executor[e] \/ executor'[e] = Resting
<1>1. ASSUME NEW f \in Executors, f /= e,
             \/ Dispatch(f) \/ Start(f) \/ PaySucceeds(f) \/ PayRefused(f)
             \/ PayErrs(f) \/ Record(f) \/ Crash(f)
      PROVE  executor'[e] = executor[e]
  BY <1>1 DEF TypeOK, Dispatch, Start, PaySucceeds, PayRefused, PayErrs, Record, Crash
<1>2. ASSUME \/ Dispatch(e) \/ Start(e) \/ PaySucceeds(e) \/ PayRefused(e)
             \/ PayErrs(e) \/ Record(e) \/ Crash(e)
      PROVE  executor'[e] = Resting
  BY <1>2 DEF TypeOK, Dispatch, Start, PaySucceeds, PayRefused, PayErrs, Record, Crash
<1>3. ASSUME NEW f \in Executors, NEW r \in Refunds, Claim(f, r)
      PROVE  executor'[e] = executor[e]
  BY <1>3 DEF TypeOK, Claim, Resting
<1>4. CASE UNCHANGED executor
  BY <1>4
<1> QED
  BY <1>1, <1>2, <1>3, <1>4
     DEF Next, ClientStep, PassStep, vars, CreateRefund, ReadRefundable,
         InsertRefund, ReadForApproval, ApproveRefund, ReadForDecision,
         DecideRefund, DropRequest, LeaseExpires, ObservePayments, Midnight

\* No step brings a settled refund back to where it may be paid.
LEMMA SettledStep ==
    ASSUME TypeOK, HeldRefundsExist, StartedNotPending, AtMostOnePayer,
           SettledStaysOut, PaidOnceUnlessUncertain, [Next]_vars
    PROVE  SettledStaysOut' /\ PaidOnceUnlessUncertain'
<1> SUFFICES ASSUME NEW r \in Refunds
             PROVE  /\ status'[r] = "absent" => sent'[r] = 0
                    /\ sent'[r] > uncertain'[r] =>
                         /\ status'[r] /= "pending"
                         /\ \A e \in Executors :
                               Started(e, r)' => executor'[e].at = "finalizing"
                    /\ sent'[r] <= uncertain'[r] + 1
  BY DEF SettledStaysOut, PaidOnceUnlessUncertain, Settled, Present
<1> USE DEF Settled, Present
<1>0. /\ sent \in [Refunds -> Nat] /\ uncertain \in [Refunds -> Nat]
      /\ sent[r] \in Nat /\ uncertain[r] \in Nat
  BY DEF TypeOK
<1>1. CASE sent'[r] = sent[r] /\ uncertain'[r] = uncertain[r]
  <2>1. sent'[r] <= uncertain'[r] + 1
    BY <1>1 DEF PaidOnceUnlessUncertain
  <2>2. status'[r] = "absent" => sent'[r] = 0
    BY <1>1, RowsArePermanent DEF SettledStaysOut
  <2>3. ASSUME sent[r] > uncertain[r], status'[r] = "pending"
        PROVE  FALSE
    <3>1. status[r] /= "pending" /\ status[r] /= "absent"
      BY <1>0, <2>3 DEF SettledStaysOut
    <3>2. PICK e \in Executors : executor[e].at = "retrying" /\ executor[e].refund = r
      BY <2>3, <3>1, BecomesPending
    <3> QED
      BY <2>3, <3>2 DEF SettledStaysOut, Started
  <2>4. ASSUME sent[r] > uncertain[r], NEW e \in Executors, Started(e, r)'
        PROVE  executor'[e].at = "finalizing"
    <3>1. Started(e, r)
      BY <2>4, StartedMoves DEF SettledStaysOut
    <3>2. executor[e].at = "finalizing" /\ executor[e].refund = r
      BY <2>4, <3>1 DEF SettledStaysOut, Started
    <3>3. executor'[e] = executor[e] \/ executor'[e] = Resting
      BY <3>2, FinalizingMoves
    <3> QED
      BY <2>4, <3>2, <3>3 DEF Started, Resting
  <2> QED
    BY <1>1, <2>1, <2>2, <2>3, <2>4
<1>2. CASE sent'[r] = sent[r] + 1 /\ uncertain'[r] = uncertain[r] + 1
  <2>1. PICK e \in Executors : /\ executor[e].at = "paying"
                               /\ executor[e].refund = r
                               /\ UNCHANGED status
    BY <1>0, <1>2, SentMoves
  <2>2. Started(e, r) /\ status[r] /= "absent"
    BY <2>1 DEF Started, HeldRefundsExist, Resting
  <2>3. ~(sent[r] > uncertain[r])
    BY <2>1, <2>2 DEF SettledStaysOut
  <2> QED
    BY <1>0, <1>2, <2>1, <2>2, <2>3
<1>3. ASSUME sent'[r] = sent[r] + 1, uncertain'[r] = uncertain[r], UNCHANGED status,
             NEW e \in Executors,
             executor[e].at = "paying", executor[e].refund = r,
             executor'[e].at \in {"finalizing", "resting"},
             \A f \in Executors \ {e} : executor'[f] = executor[f]
      PROVE  /\ status'[r] \notin {"absent", "pending"}
             /\ sent'[r] <= uncertain'[r] + 1
             /\ \A f \in Executors :
                   Started(f, r)' => executor'[f].at = "finalizing"
  <2>1. Started(e, r) /\ status[r] /= "absent"
    BY <1>3 DEF Started, HeldRefundsExist, Resting
  <2>2. status[r] /= "pending"
    BY <2>1 DEF StartedNotPending
  <2>3. ~(sent[r] > uncertain[r])
    BY <1>3, <2>1 DEF SettledStaysOut
  <2>4. ASSUME NEW f \in Executors, Started(f, r)'
        PROVE  executor'[f].at = "finalizing"
    <3>1. CASE f = e
      BY <1>3, <2>4, <3>1 DEF Started
    <3>2. CASE f /= e
      BY <1>3, <2>1, <2>4, <3>2 DEF Started, AtMostOnePayer
    <3> QED
      BY <3>1, <3>2
  <2> QED
    BY <1>0, <1>3, <2>1, <2>2, <2>3, <2>4
<1> QED
  BY <1>1, <1>2, <1>3, SentMoves

\* The money of a refund leaves at most once more than the backend reported an
\* actual sending as an error.
THEOREM PaidOnce == Spec => []PaidOnceUnlessUncertain
<1> DEFINE Inv == /\ TypeOK /\ HeldRefundsExist
                  /\ StartedNotPending /\ AtMostOnePayer
                  /\ SettledStaysOut /\ PaidOnceUnlessUncertain
<1>1. Init => Inv
  BY TypingInit
     DEF Init, StartedNotPending, AtMostOnePayer, Started, Resting,
         SettledStaysOut, Settled, PaidOnceUnlessUncertain
<1>2. Inv /\ [Next]_vars => Inv'
  BY TypingStep, HeldStep, OnePayerStep, SettledStep
<1> QED
  BY <1>1, <1>2, PTL DEF Spec

------------------------------------------------------------------------------
(* Approval                                                                *)

\* A row appears by being inserted.
LEMMA RowsAppear ==
    ASSUME TypeOK, HeldRefundsExist, [Next]_vars, NEW r \in Refunds,
           ~Present(r), Present(r)'
    PROVE  \E c \in Clients : InsertRefund(c)
<1>1. ASSUME NEW c \in Clients, DecideRefund(c) PROVE FALSE
  BY <1>1, HeldTypes
     DEF DecideRefund, UpdateRefundStatus, Deciding, HeldRefundsExist, TypeOK, Present
<1>2. ASSUME NEW e \in Executors, Start(e) \/ Record(e) PROVE FALSE
  BY <1>2, HeldTypes
     DEF Start, Record, UpdateRefundStatus, Resting, HeldRefundsExist, TypeOK,
         Present, rowVars
<1>3. ASSUME NEW c \in Clients, ApproveRefund(c) PROVE UNCHANGED status
  BY <1>3 DEF ApproveRefund, rowVars
<1>4. ~UNCHANGED status
  BY DEF Present
<1> QED
  BY <1>1, <1>2, <1>3, <1>4
     DEF Next, ClientStep, PassStep, vars, rowVars, CreateRefund, ReadRefundable,
         ReadForApproval, ReadForDecision, DropRequest, Claim, Dispatch,
         PaySucceeds, PayRefused, PayErrs, Crash, LeaseExpires, ObservePayments, Midnight

\* How a row appears or has its approval changed.
LEMMA ApprovalMoves ==
    ASSUME TypeOK, HeldRefundsExist, [Next]_vars, NEW r \in Refunds
    PROVE  \/ ~Present(r)'
           \/ /\ Present(r) /\ row'[r] = row[r]
              /\ approval'[r] \in {approval[r], "approved"}
           \/ \E c \in Clients : /\ client[c].at = "inserting"
                                  /\ row'[r] = client[c].new
                                  /\ approval'[r] = client[c].approval
<1>1. ASSUME NEW c \in Clients, InsertRefund(c)
      PROVE  \/ /\ status'[r] = status[r] /\ row'[r] = row[r]
                /\ approval'[r] = approval[r]
             \/ /\ client[c].at = "inserting"
                /\ row'[r] = client[c].new
                /\ approval'[r] = client[c].approval
  BY <1>1 DEF InsertRefund, TypeOK, rowVars
<1>2. ASSUME NEW c \in Clients, ApproveRefund(c)
      PROVE  /\ status'[r] = status[r] /\ row'[r] = row[r]
             /\ approval'[r] \in {approval[r], "approved"}
  BY <1>2 DEF ApproveRefund, TypeOK, rowVars
<1>3. ASSUME ~Present(r), Present(r)'
      PROVE  \E c \in Clients : InsertRefund(c)
  BY <1>3, RowsAppear
<1>4. ASSUME Present(r), Present(r)'
      PROVE  row'[r] = row[r] /\ approval'[r] \in {approval[r], "approved"}
  <2>1. row'[r] = row[r]
    BY <1>4, RowsArePermanent
  <2>2. ASSUME NEW c \in Clients, InsertRefund(c)
        PROVE  approval'[r] = approval[r]
    BY <1>4, <2>2 DEF InsertRefund, Present, TypeOK, rowVars
  <2>3. CASE UNCHANGED approval
    BY <2>1, <2>3
  <2>4. ASSUME NEW e \in Executors, Start(e) PROVE UNCHANGED approval
    BY <2>4 DEF Start, UpdateRefundStatus, rowVars
  <2> QED
    BY <1>2, <2>1, <2>2, <2>3, <2>4
       DEF Next, ClientStep, PassStep, vars, rowVars, CreateRefund,
           ReadRefundable, ReadForApproval, ReadForDecision, DecideRefund,
           UpdateRefundStatus, DropRequest, Claim, Dispatch, PaySucceeds,
           PayRefused, PayErrs, Record, Crash, LeaseExpires, ObservePayments, Midnight
<1> QED
  BY <1>1, <1>3, <1>4 DEF Present

\* An insertion is prepared by ReadRefundable alone, out of what is refundable.
LEMMA ReadingMoves ==
    ASSUME TypeOK, NEW c \in Clients, ReadRefundable(c), client'[c].at = "inserting"
    PROVE  /\ client'[c].approval = "not_required" =>
                 ~RequiresManualApproval(ApiConfig, client'[c].new.dest,
                                         client'[c].new.sats)
           /\ client[c] \in Request /\ client'[c].new.invoice = client[c].invoice
           /\ client'[c].new.sats \in
                 1..RefundableSats(client[c].paid, client[c].invoice)
  BY HeldTypes DEF TypeOK, ReadRefundable, Idle

LEMMA InsertionMoves ==
    ASSUME TypeOK, [Next]_vars, NEW c \in Clients, client'[c].at = "inserting"
    PROVE  client'[c] = client[c] \/ ReadRefundable(c)
<1>1. ASSUME NEW d \in Clients, ReadRefundable(d), d = c
      PROVE  ReadRefundable(c)
  BY <1>1
<1>2. ASSUME NEW d \in Clients, ReadRefundable(d), d /= c
      PROVE  client'[c] = client[c]
  BY <1>2 DEF TypeOK, ReadRefundable
<1>3. ASSUME NEW d \in Clients,
             \/ CreateRefund(d) \/ InsertRefund(d) \/ ReadForApproval(d)
             \/ ApproveRefund(d) \/ ReadForDecision(d) \/ DecideRefund(d)
             \/ DropRequest(d)
      PROVE  client'[c] = client[c]
  BY <1>3
     DEF TypeOK, Idle, CreateRefund, InsertRefund, ReadForApproval,
         ApproveRefund, ReadForDecision, DecideRefund, DropRequest
<1>4. CASE UNCHANGED client
  BY <1>4
<1> QED
  BY <1>1, <1>2, <1>3, <1>4
     DEF Next, ClientStep, PassStep, vars, Claim, Dispatch, Start, PaySucceeds,
         PayRefused, PayErrs, Record, Crash, LeaseExpires, ObservePayments, Midnight

\* No step leaves a row or an insertion with an approval its amount does not fit.
LEMMA ApprovalStep ==
    ASSUME TypeOK, HeldRefundsExist, ApprovalFits, [Next]_vars
    PROVE  ApprovalFits'
<1>1. ASSUME NEW c \in Clients, client'[c].at = "inserting",
             client'[c].approval = "not_required"
      PROVE  ~RequiresManualApproval(ApiConfig, client'[c].new.dest,
                                     client'[c].new.sats)
  BY <1>1, InsertionMoves, ReadingMoves DEF ApprovalFits
<1>2. ASSUME NEW r \in Refunds, Present(r)', approval'[r] = "not_required"
      PROVE  ~RequiresManualApproval(ApiConfig, row'[r].dest, row'[r].sats)
  BY <1>2, ApprovalMoves DEF ApprovalFits
<1>3. ASSUME NEW r \in Refunds, sent'[r] > 0
      PROVE  Present(r)' /\ AllowsExecution(approval'[r])
  <2>1. CASE sent[r] > 0
    BY <2>1, RowsArePermanent DEF ApprovalFits
  <2>2. CASE sent'[r] /= sent[r]
    <3>1. PICK e \in Executors :
            executor[e].at = "paying" /\ executor[e].refund = r
      BY <2>2, SentMoves
    <3>2. Present(r) /\ AllowsExecution(approval[r])
      BY <3>1 DEF HeldRefundsExist, Resting
    <3> QED
      BY <3>2, RowsArePermanent
  <2> QED
    BY <1>3, <2>1, <2>2
<1> QED
  BY <1>1, <1>2, <1>3
     DEF ApprovalFits, Present, AllowsExecution, RequiresManualApproval,
         EnabledRailsFor, RailsFor, Rails

\* No money above the threshold leaves unapproved, provided the process that
\* creates refunds has the payout tables of the one that pays them.
THEOREM NothingLargeUnapproved ==
    ASSUME ApiConfig = ExecConfig
    PROVE  Spec => []NothingLargePaidUnapproved
<1> DEFINE Inv == TypeOK /\ HeldRefundsExist /\ ApprovalFits
<1>1. Init => Inv
  BY TypingInit DEF Init, ApprovalFits, Idle, Present
<1>2. Inv /\ [Next]_vars => Inv'
  BY TypingStep, HeldStep, ApprovalStep
<1>3. Inv => NothingLargePaidUnapproved
  BY DEF ApprovalFits, NothingLargePaidUnapproved, AllowsExecution
<1> QED
  BY <1>1, <1>2, <1>3, PTL DEF Spec

------------------------------------------------------------------------------
(* Idempotency                                                             *)

\* No step gives two rows one key, or answers a key with a row of another.
LEMMA KeysStep ==
    ASSUME TypeOK, HeldRefundsExist, KeysUnique, [Next]_vars
    PROVE  KeysUnique'
<1> USE DEF Present
<1>1. ASSUME NEW c \in Clients, InsertRefund(c), RefundsWithKey(client[c].new.key) = {}
      PROVE  KeysUnique'
  <2>1. PICK r \in Refunds :
          /\ ~Present(r)
          /\ status' = [status EXCEPT ![r] = "pending"]
          /\ row' = [row EXCEPT ![r] = client[c].new]
          /\ answered' = IF client[c].new.key = NoKey THEN answered
                         ELSE answered \cup {[key |-> client[c].new.key, refund |-> r]}
    BY <1>1 DEF InsertRefund
  <2>2. \A q \in Refunds : Present(q) /\ client[c].new.key /= NoKey =>
            row[q].key /= client[c].new.key
    BY <1>1 DEF RefundsWithKey
  <2>3. \A q \in Refunds \ {r} : status'[q] = status[q] /\ row'[q] = row[q]
    BY <2>1
  <2>4. status'[r] = "pending" /\ row'[r] = client[c].new
    BY <2>1 DEF TypeOK
  <2>5. \A a \in answered' : status'[a.refund] /= "absent" /\ row'[a.refund].key = a.key
    BY <2>1, <2>3, <2>4 DEF KeysUnique, TypeOK
  <2> QED
    BY <2>1, <2>2, <2>3, <2>4, <2>5 DEF KeysUnique
<1>2. ASSUME NEW key, NEW invoice, AnswerExisting(key, invoice), UNCHANGED rowVars
      PROVE  KeysUnique'
  BY <1>2 DEF AnswerExisting, RefundsWithKey, KeysUnique, TypeOK, rowVars
<1>3. ASSUME UNCHANGED <<answered, row>>,
             \A r \in Refunds : (Present(r)' <=> Present(r))
      PROVE  KeysUnique'
  BY <1>3 DEF KeysUnique, TypeOK
<1>4. ASSUME NEW c \in Clients, CreateRefund(c)
      PROVE  KeysUnique'
  BY <1>2, <1>3, <1>4 DEF CreateRefund, rowVars
<1>5. ASSUME NEW c \in Clients, InsertRefund(c)
      PROVE  KeysUnique'
  BY <1>1, <1>2, <1>5 DEF InsertRefund
<1>6. ASSUME NEW r \in Refunds, Present(r), NEW new \in Statuses,
             NEW type \in EventTypes, UpdateRefundStatus(r, new, type),
             UNCHANGED answered
      PROVE  KeysUnique'
  BY <1>3, <1>6, UpdateTypes
<1>7. ASSUME NEW c \in Clients, DecideRefund(c)
      PROVE  KeysUnique'
  <2>1. client[c].refund \in Refunds /\ Present(client[c].refund)
    BY <1>7, HeldTypes DEF DecideRefund, Deciding, HeldRefundsExist
  <2>2. \E new \in Statuses, type \in EventTypes :
            UpdateRefundStatus(client[c].refund, new, type)
    BY <1>7 DEF DecideRefund, Statuses, EventTypes
  <2> QED
    BY <1>6, <1>7, <2>1, <2>2 DEF DecideRefund
<1>8. ASSUME NEW e \in Executors, Start(e) \/ Record(e)
      PROVE  KeysUnique'
  <2>1. executor[e].refund \in Refunds /\ Present(executor[e].refund)
    BY <1>8, HeldTypes DEF Start, Record, Resting, HeldRefundsExist
  <2>2. \/ UNCHANGED rowVars
        \/ \E new \in Statuses, type \in EventTypes :
              UpdateRefundStatus(executor[e].refund, new, type)
    BY <1>8 DEF Start, Record, Statuses, EventTypes
  <2>3. UNCHANGED answered
    BY <1>8 DEF Start, Record
  <2> QED
    BY <1>3, <1>6, <2>1, <2>2, <2>3 DEF rowVars
<1>9. CASE UNCHANGED <<status, row, answered>>
  BY <1>3, <1>9
<1> QED
  BY <1>4, <1>5, <1>7, <1>8, <1>9
     DEF Next, ClientStep, PassStep, vars, rowVars, ReadRefundable,
         ReadForApproval, ApproveRefund, ReadForDecision, DropRequest, Claim,
         Dispatch, PaySucceeds, PayRefused, PayErrs, Crash, LeaseExpires,
         ObservePayments, Midnight

\* Every answer to one Idempotency-Key names the same refund.
THEOREM KeysAnswerOnce == Spec => []OneRefundPerKey
<1> DEFINE Inv == TypeOK /\ HeldRefundsExist /\ KeysUnique
<1>1. Init => Inv
  BY TypingInit DEF Init, KeysUnique, Present
<1>2. Inv /\ [Next]_vars => Inv'
  BY TypingStep, HeldStep, KeysStep
<1>3. Inv => OneRefundPerKey
  BY RefundsAssumption DEF KeysUnique, OneRefundPerKey, TypeOK, Present
<1> QED
  BY <1>1, <1>2, <1>3, PTL DEF Spec

------------------------------------------------------------------------------
(* Announcements                                                           *)

LEMMA EnqueueCounts ==
    ASSUME TypeOK, NEW r \in Refunds, NEW type \in EventTypes, Enqueue(r, type)
    PROVE  deliveries'[r][type] = deliveries[r][type] + 1
  BY DEF TypeOK, Enqueue

\* The statement every status but the first is written by announces what it writes.
LEMMA UpdateAnnounces ==
    ASSUME TypeOK, NEW q \in Refunds, NEW new \in Statuses,
           NEW type \in EventTypes \cap EventsFor(new),
           UpdateRefundStatus(q, new, type),
           NEW r \in Refunds, status'[r] /= status[r]
    PROVE  \E announced \in EventsFor(status'[r]) :
              deliveries'[r][announced] = deliveries[r][announced] + 1
<1>1. Enqueue(q, type) /\ status' = [status EXCEPT ![q] = new]
  BY DEF UpdateRefundStatus
<1>2. r = q /\ status'[r] = new
  BY <1>1 DEF TypeOK
<1> QED
  BY <1>1, <1>2, EnqueueCounts

\* A status changes by such a statement or by the insertion of the row.
LEMMA ChangeIsAnnounced ==
    ASSUME TypeOK, HeldRefundsExist, [Next]_vars, NEW r \in Refunds,
           status'[r] /= status[r]
    PROVE  \E type \in EventsFor(status'[r]) :
              deliveries'[r][type] = deliveries[r][type] + 1
<1> DEFINE Announced ==
      \E type \in EventsFor(status'[r]) :
         deliveries'[r][type] = deliveries[r][type] + 1
<1>1. ASSUME NEW c \in Clients, InsertRefund(c) PROVE Announced
  <2>1. PICK q \in Refunds : /\ status' = [status EXCEPT ![q] = "pending"]
                             /\ Enqueue(q, "refund.created")
    BY <1>1 DEF InsertRefund, rowVars
  <2>2. r = q /\ status'[r] = "pending"
    BY <2>1 DEF TypeOK
  <2>3. deliveries'[r]["refund.created"] = deliveries[r]["refund.created"] + 1
    BY <2>1, <2>2, EnqueueCounts DEF EventTypes
  <2> QED
    BY <2>2, <2>3 DEF EventsFor
<1>2. ASSUME NEW q \in Refunds, NEW new \in Statuses,
             NEW type \in EventTypes \cap EventsFor(new),
             UpdateRefundStatus(q, new, type)
      PROVE  Announced
  BY <1>2, UpdateAnnounces
<1>3. ASSUME NEW c \in Clients, DecideRefund(c) PROVE Announced
  <2>1. client[c].refund \in Refunds
    BY <1>3, HeldTypes DEF DecideRefund, Deciding
  <2>2. \E new \in Statuses : \E type \in EventTypes \cap EventsFor(new) :
            UpdateRefundStatus(client[c].refund, new, type)
    BY <1>3 DEF DecideRefund, Statuses, EventTypes, EventsFor
  <2> QED
    BY <1>2, <2>1, <2>2
<1>4. ASSUME NEW e \in Executors, Start(e) \/ Record(e) PROVE Announced
  <2>1. executor[e].refund \in Refunds
    BY <1>4, HeldTypes DEF Start, Record, Resting
  <2>2. \E new \in Statuses : \E type \in EventTypes \cap EventsFor(new) :
            UpdateRefundStatus(executor[e].refund, new, type)
    BY <1>4 DEF Start, Record, rowVars, Statuses, EventTypes, EventsFor
  <2> QED
    BY <1>2, <2>1, <2>2
<1>5. ~UNCHANGED status
  OBVIOUS
<1> QED
  BY <1>1, <1>3, <1>4, <1>5
     DEF Next, ClientStep, PassStep, vars, rowVars, CreateRefund, ReadRefundable,
         ReadForApproval, ApproveRefund, ReadForDecision, DropRequest, Claim,
         Dispatch, PaySucceeds, PayRefused, PayErrs, Crash, LeaseExpires,
         ObservePayments, Midnight

\* No refund changes its status without a delivery of the event for it, whoever
\* changes it and however often.
THEOREM ChangesAnnounced == Spec => EveryChangeAnnounced
<1> DEFINE Inv == TypeOK /\ HeldRefundsExist
           Step == \A r \in Refunds : status'[r] /= status[r] =>
                      \E type \in EventsFor(status'[r]) :
                         deliveries'[r][type] = deliveries[r][type] + 1
<1>1. Inv /\ [Next]_vars => Step
  BY ChangeIsAnnounced
<1>2. Spec => []Inv
  BY Typing
<1>3. EveryChangeAnnounced <=> [][Step]_vars
  BY DEF EveryChangeAnnounced
<1> HIDE DEF Inv, Step
<1> QED
  BY <1>1, <1>2, <1>3, PTL DEF Spec

------------------------------------------------------------------------------
(* The limit of one refund                                                 *)

\* The table was consulted before the payout and is that of the row to this day.
FitsMax(r) == row[r].sats <= ExecutionTable(ExecConfig, row[r].dest).max

UnderWay == {"starting", "paying", "retrying", "finalizing"}

MaxFits ==
    /\ \A e \in Executors : executor[e].at \in UnderWay => FitsMax(executor[e].refund)
    /\ \A r \in Refunds : sent[r] > 0 => Present(r) /\ HasDriver(row[r].dest) /\ FitsMax(r)

\* A payout gets under way only past the limit.
LEMMA DispatchFits ==
    ASSUME TypeOK, HeldRefundsExist, [Next]_vars, NEW e \in Executors,
           executor'[e].at \in UnderWay
    PROVE  /\ executor'[e].refund \in Refunds /\ Present(executor'[e].refund)
           /\ \/ executor[e].at \in UnderWay /\ executor'[e].refund = executor[e].refund
              \/ FitsMax(executor'[e].refund)
<1>1. ASSUME NEW f \in Executors, f /= e,
             \/ Dispatch(f) \/ Start(f) \/ PaySucceeds(f) \/ PayRefused(f)
             \/ PayErrs(f) \/ Record(f) \/ Crash(f) \/ \E r \in Refunds : Claim(f, r)
      PROVE  executor'[e] = executor[e]
  BY <1>1 DEF TypeOK, Dispatch, Start, PaySucceeds, PayRefused, PayErrs, Record,
              Crash, Claim
<1>2. CASE Dispatch(e)
  BY <1>2, HeldTypes
     DEF TypeOK, Dispatch, Accepted, HeldRefundsExist, Resting, UnderWay, FitsMax
<1>3. CASE Start(e) \/ PaySucceeds(e) \/ PayErrs(e)
  BY <1>3, HeldTypes DEF TypeOK, Start, PaySucceeds, PayErrs, HeldRefundsExist,
                         Resting, UnderWay
<1>4. ASSUME PayRefused(e) \/ Record(e) \/ Crash(e) \/ \E r \in Refunds : Claim(e, r)
      PROVE  FALSE
  BY <1>4 DEF TypeOK, PayRefused, Record, Crash, Claim, Resting, UnderWay
<1>5. CASE executor'[e] = executor[e]
  BY <1>5, HeldTypes DEF HeldRefundsExist, Resting, UnderWay
<1> QED
  BY <1>1, <1>2, <1>3, <1>4, <1>5
     DEF Next, ClientStep, PassStep, vars, CreateRefund, ReadRefundable,
         InsertRefund, ReadForApproval, ApproveRefund, ReadForDecision,
         DecideRefund, DropRequest, LeaseExpires, ObservePayments, Midnight

\* Money leaves only for a payout under way, of a destination a driver accepts.
LEMMA PaymentFits ==
    ASSUME TypeOK, HeldRefundsExist, MaxFits, [Next]_vars, NEW r \in Refunds,
           sent'[r] /= sent[r]
    PROVE  Present(r) /\ HasDriver(row[r].dest) /\ FitsMax(r)
<1>1. PICK e \in Executors :
          executor[e].at = "paying" /\ executor[e].refund = r /\ HasDriver(row[r].dest)
  <2>1. ASSUME NEW e \in Executors, PaySucceeds(e) \/ PayErrs(e) \/ Crash(e)
        PROVE  executor[e].at = "paying" /\ executor[e].refund = r
                  /\ HasDriver(row[r].dest)
    BY <2>1 DEF TypeOK, PaySucceeds, PayErrs, Crash, moneyVars
  <2>2. ~UNCHANGED sent
    OBVIOUS
  <2> QED
    BY <2>1, <2>2
       DEF Next, ClientStep, PassStep, vars, moneyVars, CreateRefund, ReadRefundable,
           InsertRefund, ReadForApproval, ApproveRefund, ReadForDecision,
           DecideRefund, DropRequest, Claim, Dispatch, Start, PayRefused, Record,
           LeaseExpires, ObservePayments, Midnight
<1> QED
  BY <1>1 DEF MaxFits, HeldRefundsExist, Resting, UnderWay

LEMMA MaxFitsStep ==
    ASSUME TypeOK, HeldRefundsExist, MaxFits, [Next]_vars
    PROVE  MaxFits'
<1>1. \A r \in Refunds : Present(r) => Present(r)' /\ row'[r] = row[r]
  BY RowsArePermanent
<1>2. ASSUME NEW e \in Executors, executor'[e].at \in UnderWay
      PROVE  LET r == executor'[e].refund
             IN row'[r].sats <= ExecutionTable(ExecConfig, row'[r].dest).max
  <2>1. PICK r \in Refunds : /\ r = executor'[e].refund /\ Present(r) /\ FitsMax(r)
    BY <1>2, DispatchFits DEF MaxFits
  <2> QED
    BY <1>1, <2>1 DEF FitsMax
<1>3. ASSUME NEW r \in Refunds, sent'[r] > 0
      PROVE  /\ Present(r)' /\ HasDriver(row'[r].dest)
             /\ row'[r].sats <= ExecutionTable(ExecConfig, row'[r].dest).max
  <2>1. Present(r) /\ HasDriver(row[r].dest) /\ FitsMax(r)
    BY <1>3, PaymentFits DEF MaxFits
  <2> QED
    BY <1>1, <2>1 DEF FitsMax
<1> QED
  BY <1>2, <1>3
     DEF MaxFits, FitsMax, UnderWay, Present, ExecutionTable, EnabledRailsFor,
         RailsFor, Rails, HasDriver

\* No payment is above max_refund_sats, for destinations that are paid in the
\* refund's own amount: a Lightning invoice is paid in the amount written in it.
THEOREM MaxIsKept ==
    ASSUME \A dest \in Destinations : TypeOf[dest] /= "lightning_invoice"
    PROVE  Spec => []SentWithinMax
<1> DEFINE Inv == TypeOK /\ HeldRefundsExist /\ MaxFits
<1>1. Init => Inv
  BY TypingInit DEF Init, MaxFits, Resting, UnderWay
<1>2. Inv /\ [Next]_vars => Inv'
  BY TypingStep, HeldStep, MaxFitsStep
<1>3. Inv => SentWithinMax
  BY DEF MaxFits, FitsMax, SentWithinMax, SatsSent, HasDriver
<1> QED
  BY <1>1, <1>2, <1>3, PTL DEF Spec
------------------------------------------------------------------------------
(* Without manual decisions                                                *)

\* Administrators approve refunds and leave the rest to the executors.
NoDecisions == Operations \cap Decisions = {}

\* A backend would be asked to pay r, and would take it.
Dispatchable(r) == Accepted(r) /\ HasDriver(row[r].dest)

\* e has moved r to processing and is to write an outcome, a failure included.
InHand(e, r) ==
    /\ executor[e].at \in {"paying", "retrying", "finalizing", "failing"}
    /\ executor[e].refund = r
    /\ executor[e].at = "failing" => Accepted(r)

\* One executor has a refund in hand, and nobody else writes its status.
InHandOnce ==
    /\ \A e \in Executors, r \in Refunds : InHand(e, r) => status[r] = "processing"
    /\ \A e, f \in Executors, r \in Refunds : InHand(e, r) /\ InHand(f, r) => e = f

\* Refunds fail that no backend takes, and succeed whose money left.
OutcomesFit ==
    /\ \A c \in Clients : client[c].at /= "deciding"
    /\ \A e \in Executors, r \in Refunds : executor[e] /= Resting /\ executor[e].refund = r =>
          /\ executor[e].at \in UnderWay => Accepted(r)
          /\ executor[e].at \in {"retrying", "finalizing"} => HasDriver(row[r].dest)
          /\ executor[e].at = "finalizing" => sent[r] > 0
          /\ executor[e].at = "failing" => ~Dispatchable(r)
    /\ \A r \in Refunds :
          /\ sent[r] > 0 => Dispatchable(r)
          /\ status[r] = "failed" => ~Dispatchable(r)
          /\ status[r] = "succeeded" => sent[r] > 0
          /\ status[r] /= "canceled"

Orderly == TypeOK /\ HeldRefundsExist /\ MaxFits /\ InHandOnce /\ OutcomesFit

\* What decides about a refund never changes once its row is there.
LEMMA RulingsStay ==
    ASSUME TypeOK, HeldRefundsExist, [Next]_vars, NEW r \in Refunds, Present(r)
    PROVE  /\ Present(r)' /\ row'[r] = row[r]
           /\ Accepted(r)' <=> Accepted(r)
           /\ Dispatchable(r)' <=> Dispatchable(r)
<1>1. Present(r)' /\ row'[r] = row[r]
  BY RowsArePermanent
<1> QED
  BY <1>1 DEF Dispatchable, Accepted, HasExecutionTable, ExecutionTable,
              EnabledRailsFor, RailsFor, Rails, HasDriver

\* How a status changes when nobody decides by hand.
LEMMA StatusMoves ==
    ASSUME TypeOK, OutcomesFit, [Next]_vars, NEW r \in Refunds,
           status'[r] /= status[r]
    PROVE  \/ /\ status[r] = "absent" /\ status'[r] = "pending"
              /\ UNCHANGED <<executor, sent>>
           \/ \E e \in Executors :
                 /\ Start(e) /\ executor[e].refund = r
                 /\ status[r] = "pending" /\ status'[r] = "processing"
                 /\ UNCHANGED <<row, sent>>
           \/ \E e \in Executors :
                 /\ executor[e].refund = r
                 /\ \/ executor[e].at = "finalizing" /\ status'[r] = "succeeded"
                    \/ executor[e].at = "failing" /\ status'[r] = "failed"
                    \/ executor[e].at = "retrying" /\ status'[r] = "pending"
                 /\ executor' = [executor EXCEPT ![e] = Resting]
                 /\ UNCHANGED sent
<1> USE DEF rowVars, moneyVars, UpdateRefundStatus
<1>1. ASSUME NEW c \in Clients, InsertRefund(c)
      PROVE  /\ status[r] = "absent" /\ status'[r] = "pending"
             /\ UNCHANGED <<executor, sent>>
  BY <1>1 DEF TypeOK, InsertRefund, Present
<1>2. ASSUME NEW e \in Executors, Start(e)
      PROVE  /\ executor[e].refund = r
             /\ status[r] = "pending" /\ status'[r] = "processing"
             /\ UNCHANGED <<row, sent>>
  BY <1>2 DEF TypeOK, Start, MayStart
<1>3. ASSUME NEW e \in Executors, Record(e)
      PROVE  /\ executor[e].refund = r
             /\ \/ executor[e].at = "finalizing" /\ status'[r] = "succeeded"
                \/ executor[e].at = "failing" /\ status'[r] = "failed"
                \/ executor[e].at = "retrying" /\ status'[r] = "pending"
             /\ executor' = [executor EXCEPT ![e] = Resting]
             /\ UNCHANGED sent
  BY <1>3 DEF TypeOK, Record
<1>4. ASSUME NEW c \in Clients, DecideRefund(c)
      PROVE  FALSE
  BY <1>4 DEF DecideRefund, OutcomesFit
<1>5. ~UNCHANGED status
  OBVIOUS
<1> QED
  BY <1>1, <1>2, <1>3, <1>4, <1>5
     DEF Next, ClientStep, PassStep, vars, CreateRefund, ReadRefundable,
         ReadForApproval, ApproveRefund, ReadForDecision, DropRequest, Claim,
         Dispatch, PaySucceeds, PayRefused, PayErrs, Crash, LeaseExpires,
         ObservePayments, Midnight

\* How an executor comes to be where it is.
LEMMA PassMoves ==
    ASSUME TypeOK, [Next]_vars, NEW e \in Executors, executor'[e] /= executor[e]
    PROVE  LET r == executor[e].refund
           IN \/ executor'[e] = Resting
              \/ executor'[e].at = "dispatching"
              \/ /\ executor[e] /= Resting /\ executor'[e].refund = r
                 /\ \/ executor'[e].at = "starting" /\ Accepted(r)
                    \/ executor'[e].at = "failing" /\ ~Accepted(r)
                    \/ /\ executor[e].at = "starting" /\ executor'[e].at = "paying"
                       /\ status[r] = "pending" /\ Start(e)
                    \/ /\ executor[e].at = "paying" /\ HasDriver(row[r].dest)
                       /\ \/ executor'[e].at = "retrying"
                          \/ executor'[e].at = "finalizing" /\ sent'[r] = sent[r] + 1
                    \/ /\ executor[e].at = "paying" /\ ~HasDriver(row[r].dest)
                       /\ executor'[e].at = "failing"
<1>1. ASSUME NEW f \in Executors, f /= e,
             \/ Dispatch(f) \/ Start(f) \/ PaySucceeds(f) \/ PayRefused(f)
             \/ PayErrs(f) \/ Record(f) \/ Crash(f) \/ \E r \in Refunds : Claim(f, r)
      PROVE  FALSE
  BY <1>1 DEF TypeOK, Dispatch, Start, PaySucceeds, PayRefused, PayErrs, Record,
              Crash, Claim
<1>2. ASSUME NEW r \in Refunds, Claim(e, r) PROVE executor'[e].at = "dispatching"
  BY <1>2 DEF TypeOK, Claim
<1>3. ASSUME Record(e) \/ Crash(e) PROVE executor'[e] = Resting
  BY <1>3 DEF TypeOK, Record, Crash
<1>4. ASSUME Dispatch(e)
      PROVE  /\ executor[e] /= Resting /\ executor'[e].refund = executor[e].refund
             /\ \/ executor'[e].at = "starting" /\ Accepted(executor[e].refund)
                \/ executor'[e].at = "failing" /\ ~Accepted(executor[e].refund)
  BY <1>4 DEF TypeOK, Dispatch, Resting
<1>5. ASSUME Start(e)
      PROVE  \/ executor'[e] = Resting
             \/ /\ executor[e] /= Resting /\ executor'[e].refund = executor[e].refund
                /\ executor[e].at = "starting" /\ executor'[e].at = "paying"
                /\ status[executor[e].refund] = "pending"
  BY <1>5 DEF TypeOK, Start, MayStart, Resting
<1>6. ASSUME PaySucceeds(e)
      PROVE  /\ executor[e] /= Resting /\ executor'[e].refund = executor[e].refund
             /\ executor[e].at = "paying" /\ HasDriver(row[executor[e].refund].dest)
             /\ executor'[e].at = "finalizing"
             /\ sent'[executor[e].refund] = sent[executor[e].refund] + 1
  BY <1>6, HeldTypes DEF TypeOK, PaySucceeds, Resting
<1>7. ASSUME PayErrs(e)
      PROVE  /\ executor[e] /= Resting /\ executor'[e].refund = executor[e].refund
             /\ executor[e].at = "paying" /\ HasDriver(row[executor[e].refund].dest)
             /\ executor'[e].at = "retrying"
  BY <1>7 DEF TypeOK, PayErrs, Resting
<1>8. ASSUME PayRefused(e)
      PROVE  /\ executor[e] /= Resting /\ executor'[e].refund = executor[e].refund
             /\ executor[e].at = "paying" /\ ~HasDriver(row[executor[e].refund].dest)
             /\ executor'[e].at = "failing"
  BY <1>8 DEF TypeOK, PayRefused, Resting
<1>9. ~UNCHANGED executor
  OBVIOUS
<1> QED
  BY <1>1, <1>2, <1>3, <1>4, <1>5, <1>6, <1>7, <1>8, <1>9
     DEF Next, ClientStep, PassStep, vars, CreateRefund, ReadRefundable,
         InsertRefund, ReadForApproval, ApproveRefund, ReadForDecision,
         DecideRefund, DropRequest, LeaseExpires, ObservePayments, Midnight

\* Nobody prepares a decision.
LEMMA NoDecisionStep ==
    ASSUME NoDecisions, TypeOK, OutcomesFit, [Next]_vars, NEW c \in Clients
    PROVE  client'[c].at /= "deciding"
<1>1. ASSUME NEW d \in Clients, ReadForDecision(d) PROVE FALSE
  BY <1>1 DEF ReadForDecision, NoDecisions, Decisions
<1>2. ASSUME NEW d \in Clients,
             \/ CreateRefund(d) \/ ReadRefundable(d) \/ InsertRefund(d)
             \/ ReadForApproval(d) \/ ApproveRefund(d) \/ DecideRefund(d)
             \/ DropRequest(d)
      PROVE  client'[c] = client[c] \/ client'[c].at /= "deciding"
  BY <1>2
     DEF TypeOK, Idle, CreateRefund, ReadRefundable, InsertRefund, ReadForApproval,
         ApproveRefund, DecideRefund, DropRequest
<1>3. CASE UNCHANGED client
  BY <1>3 DEF OutcomesFit
<1> QED
  BY <1>1, <1>2, <1>3
     DEF Next, ClientStep, PassStep, vars, Claim, Dispatch, Start, PaySucceeds,
         PayRefused, PayErrs, Record, Crash, LeaseExpires, ObservePayments, Midnight,
         OutcomesFit

LEMMA OutcomesStep ==
    ASSUME NoDecisions, Orderly, [Next]_vars
    PROVE  OutcomesFit'
<1> USE DEF Orderly
<1>1. ASSUME NEW e \in Executors, NEW r \in Refunds,
             executor'[e] /= Resting, executor'[e].refund = r
      PROVE  /\ executor'[e].at \in UnderWay => Accepted(r)'
             /\ executor'[e].at \in {"retrying", "finalizing"} => HasDriver(row'[r].dest)
             /\ executor'[e].at = "finalizing" => sent'[r] > 0
             /\ executor'[e].at = "failing" => ~Dispatchable(r)'
  <2>1. CASE executor'[e].at = "dispatching"
    BY <2>1 DEF UnderWay
  <2>2. CASE executor[e] /= Resting /\ executor[e].refund = r
    <3>1. Present(r) /\ sent[r] \in Nat
      BY <2>2 DEF HeldRefundsExist, TypeOK
    <3>2. sent[r] > 0 => sent'[r] > 0
      BY <3>1, SentMoves
    <3>3. /\ executor[e].at \in UnderWay => Accepted(r)
          /\ executor[e].at \in {"retrying", "finalizing"} => HasDriver(row[r].dest)
          /\ executor[e].at = "finalizing" => sent[r] > 0
          /\ executor[e].at = "failing" => ~Dispatchable(r)
      BY <2>2 DEF OutcomesFit
    <3>4. /\ executor'[e].at \in UnderWay => Accepted(r)
          /\ executor'[e].at \in {"retrying", "finalizing"} => HasDriver(row[r].dest)
          /\ executor'[e].at = "finalizing" => sent'[r] > 0
          /\ executor'[e].at = "failing" => ~Dispatchable(r)
      <4>1. CASE executor'[e] = executor[e]
        BY <3>1, <3>2, <3>3, <4>1
      <4>2. CASE executor'[e] /= executor[e]
        BY <1>1, <2>2, <3>1, <3>3, <4>2, PassMoves DEF UnderWay, Dispatchable
      <4> QED
        BY <4>1, <4>2
    <3> QED
      BY <3>1, <3>4, RulingsStay
  <2> QED
    BY <1>1, <2>1, <2>2, PassMoves
<1>2. ASSUME NEW r \in Refunds, sent'[r] > 0
      PROVE  Dispatchable(r)'
  <2>1. Present(r) /\ Dispatchable(r)
    <3>1. CASE sent'[r] = sent[r]
      BY <1>2, <3>1 DEF OutcomesFit, MaxFits
    <3>2. CASE sent'[r] /= sent[r]
      <4>1. Present(r) /\ HasDriver(row[r].dest)
        BY <3>2, PaymentFits
      <4>2. PICK e \in Executors : executor[e].at = "paying" /\ executor[e].refund = r
        BY <3>2, SentMoves
      <4>3. Accepted(r)
        BY <4>2 DEF OutcomesFit, UnderWay, Resting
      <4> QED
        BY <4>1, <4>3 DEF Dispatchable
    <3> QED
      BY <3>1, <3>2
  <2> QED
    BY <2>1, RulingsStay
<1>3. ASSUME NEW r \in Refunds, status'[r] \in {"failed", "succeeded", "canceled"}
      PROVE  /\ status'[r] = "failed" => ~Dispatchable(r)'
             /\ status'[r] = "succeeded" => sent'[r] > 0
             /\ status'[r] /= "canceled"
  <2>1. CASE status'[r] = status[r]
    <3>1. Present(r) /\ sent[r] \in Nat
      BY <1>3, <2>1 DEF TypeOK, Present
    <3>2. sent[r] > 0 => sent'[r] > 0
      BY <3>1, SentMoves
    <3> QED
      BY <1>3, <2>1, <3>1, <3>2, RulingsStay DEF OutcomesFit
  <2>2. CASE status'[r] /= status[r]
    <3>1. PICK e \in Executors :
            /\ executor[e].refund = r
            /\ \/ executor[e].at = "finalizing" /\ status'[r] = "succeeded"
               \/ executor[e].at = "failing" /\ status'[r] = "failed"
            /\ UNCHANGED sent
      BY <1>3, <2>2, StatusMoves
    <3>2. executor[e] /= Resting /\ Present(r)
      BY <3>1 DEF Resting, HeldRefundsExist
    <3> QED
      BY <3>1, <3>2, RulingsStay DEF OutcomesFit
  <2> QED
    BY <2>1, <2>2
<1> QED
  BY <1>1, <1>2, <1>3, NoDecisionStep DEF OutcomesFit

\* A refund that is started is processing from then on.
LEMMA InHandStart ==
    ASSUME TypeOK, NEW e \in Executors, NEW r \in Refunds, Start(e),
           executor[e].refund = r, executor'[e] /= Resting
    PROVE  status'[r] = "processing"
  BY DEF TypeOK, Start, UpdateRefundStatus

\* A refund comes into an executor's hands by Start alone, out of a pending one.
LEMMA InHandMoves ==
    ASSUME Orderly, [Next]_vars, NEW e \in Executors, NEW r \in Refunds, InHand(e, r)'
    PROVE  \/ InHand(e, r)
           \/ /\ Start(e) /\ executor[e].refund = r
              /\ status[r] = "pending" /\ status'[r] = "processing"
<1> USE DEF Orderly
<1>1. executor'[e] /= Resting
  BY DEF InHand, Resting
<1>2. CASE executor'[e] = executor[e]
  <2>1. executor[e] /= Resting /\ executor[e].refund = r /\ Present(r)
    BY <1>1, <1>2 DEF InHand, HeldRefundsExist
  <2>2. Accepted(r)' <=> Accepted(r)
    BY <2>1, RulingsStay
  <2> QED
    BY <1>2, <2>1, <2>2 DEF InHand
<1>3. CASE executor'[e] /= executor[e]
  <2>1. executor[e] /= Resting /\ executor[e].refund = r /\ Present(r)
    BY <1>1, <1>3, PassMoves DEF InHand, HeldRefundsExist
  <2>2. Accepted(r)' <=> Accepted(r)
    BY <2>1, RulingsStay
  <2>3. CASE executor[e].at = "paying"
    BY <2>1, <2>3 DEF InHand
  <2>4. CASE executor[e].at = "starting" /\ status[r] = "pending" /\ Start(e)
    <3>1. status'[r] = "processing"
      BY <1>1, <2>1, <2>4, InHandStart
    <3> QED
      BY <2>1, <2>4, <3>1
  <2> QED
    BY <1>1, <1>3, <2>1, <2>2, <2>3, <2>4, PassMoves DEF InHand
<1> QED
  BY <1>2, <1>3

LEMMA InHandStep ==
    ASSUME NoDecisions, Orderly, [Next]_vars
    PROVE  InHandOnce'
<1> USE DEF Orderly
<1>1. ASSUME NEW e \in Executors, NEW r \in Refunds, InHand(e, r)'
      PROVE  status'[r] = "processing"
  <2>1. CASE InHand(e, r) /\ status'[r] /= status[r]
    <3>1. status[r] = "processing"
      BY <2>1 DEF InHandOnce
    <3>2. PICK f \in Executors :
            /\ executor[f].refund = r
            /\ executor[f].at \in {"finalizing", "failing", "retrying"}
            /\ executor' = [executor EXCEPT ![f] = Resting]
      BY <2>1, <3>1, StatusMoves
    <3>3. InHand(f, r)
      <4>1. executor[f] /= Resting /\ executor[e] /= Resting
        BY <2>1, <3>2 DEF InHand, Resting
      <4>2. CASE executor[f].at = "failing"
        BY <2>1, <3>2, <4>1, <4>2 DEF InHand, OutcomesFit, UnderWay
      <4> QED
        BY <3>2, <4>2 DEF InHand
    <3>4. f = e
      BY <2>1, <3>3 DEF InHandOnce
    <3> QED
      BY <1>1, <3>2, <3>4 DEF InHand, Resting, TypeOK
  <2>2. CASE InHand(e, r) /\ status'[r] = status[r]
    BY <2>2 DEF InHandOnce
  <2> QED
    BY <1>1, <2>1, <2>2, InHandMoves
<1>2. ASSUME NEW e \in Executors, NEW f \in Executors, NEW r \in Refunds,
             InHand(e, r)', InHand(f, r)'
      PROVE  e = f
  <2>1. CASE InHand(e, r) /\ InHand(f, r)
    BY <2>1 DEF InHandOnce
  <2>2. CASE status[r] = "pending"
    <3>1. ~InHand(e, r) /\ ~InHand(f, r)
      BY <2>2 DEF InHandOnce
    <3>2. Start(e) /\ Start(f)
      BY <1>2, <3>1, InHandMoves
    <3>3. CASE e /= f
      BY <1>2, <3>1, <3>2, <3>3 DEF Start, TypeOK, InHand, Resting
    <3> QED
      BY <3>3
  <2> QED
    BY <1>2, <2>1, <2>2, InHandMoves
<1> QED
  BY <1>1, <1>2 DEF InHandOnce

LEMMA OrderlyStep ==
    ASSUME NoDecisions, Orderly, [Next]_vars
    PROVE  Orderly'
  BY TypingStep, HeldStep, MaxFitsStep, InHandStep, OutcomesStep DEF Orderly

LEMMA OrderlyInit == Init => Orderly
  BY TypingInit
     DEF Init, Orderly, MaxFits, UnderWay, InHandOnce, InHand, OutcomesFit, Resting, Idle

------------------------------------------------------------------------------
(* What is promised of an invoice                                          *)

\* Creations come one at a time, as from a client that waits for its answer.
OneRequest == \A c, d \in Clients : c = d

\* What a request is about to insert fits what is left of the payments.
InsertionsFit ==
    \A c \in Clients, i \in Invoices :
        client[c].at = "inserting" /\ client[c].new.invoice = i =>
            /\ client[c].new.sats > 0
            /\ client[c].new.sats + Promised(i) <= most[i]

\* c inserts r: the facts about its row.
Inserts(c, r) ==
    /\ client[c].at = "inserting"
    /\ ~Present(r)
    /\ status' = [status EXCEPT ![r] = "pending"]
    /\ row' = [row EXCEPT ![r] = client[c].new]
    /\ client' = [client EXCEPT ![c] = Idle]
    /\ UNCHANGED <<executor, sent, most>>

\* A step inserts one row, or none.
LEMMA RowMoves ==
    ASSUME Orderly, [Next]_vars
    PROVE  \/ \A r \in Refunds : Present(r)' => Present(r)
           \/ \E c \in Clients, r \in Refunds : Inserts(c, r)
<1> USE DEF Orderly
<1>1. ASSUME NEW r \in Refunds, ~Present(r), Present(r)'
      PROVE  \E c \in Clients, q \in Refunds : Inserts(c, q)
  <2>1. PICK c \in Clients : InsertRefund(c)
    BY <1>1, RowsAppear
  <2>2. CASE UNCHANGED rowVars
    BY <1>1, <2>2 DEF rowVars, Present
  <2> QED
    BY <2>1, <2>2 DEF InsertRefund, Inserts, moneyVars, paidVars
<1> QED
  BY <1>1

\* Executors add nothing to what is promised: a refund counts from its insertion
\* until it fails.
LEMMA NothingPromised ==
    ASSUME Orderly, [Next]_vars, \A r \in Refunds : Present(r)' => Present(r),
           NEW i \in Invoices
    PROVE  /\ Counted(i)' \subseteq Counted(i)
           /\ \A r \in Refunds : Present(r)' => Sats'[r] = Sats[r]
           /\ Promised(i)' <= Promised(i)
           /\ Promised(i) \in Nat /\ Promised(i)' \in Nat
<1> USE DEF Orderly
<1>1. ASSUME NEW r \in Refunds, Present(r)'
      PROVE  Present(r) /\ row'[r] = row[r]
  BY <1>1, RowsArePermanent
<1>2. ASSUME NEW r \in Refunds, status'[r] \in CountedStatuses
      PROVE  status[r] \in CountedStatuses
  <2>1. Present(r)
    BY <1>1, <1>2 DEF CountedStatuses, Present
  <2>2. ASSUME NEW e \in Executors, executor[e].refund = r,
               executor[e].at \in {"finalizing", "retrying"}
        PROVE  status[r] = "processing"
    BY <2>2 DEF InHandOnce, InHand
  <2>3. CASE status'[r] /= status[r]
    BY <1>2, <2>1, <2>2, <2>3, StatusMoves DEF CountedStatuses, Present
  <2> QED
    BY <1>2, <2>3
<1>3. Counted(i)' \subseteq Counted(i)
  <2>1. ASSUME NEW r \in Counted(i)' PROVE r \in Counted(i)
    BY <1>1, <1>2 DEF Counted, CountedStatuses, Present
  <2> QED
    BY <2>1
<1>4. \A r \in Refunds : Present(r)' => Sats'[r] = Sats[r]
  BY <1>1 DEF Sats, Present
<1>5. /\ IsFiniteSet(Counted(i)) /\ IsFiniteSet(Counted(i)')
      /\ \A r \in Counted(i) : Sats[r] \in Nat
      /\ \A r \in Counted(i)' : Sats[r] \in Nat /\ Sats'[r] = Sats[r]
  <2>1. Counted(i) \subseteq Refunds /\ Counted(i)' \subseteq Refunds
    BY DEF Counted
  <2>2. \A r \in Counted(i)' : Present(r)'
    BY DEF Counted, CountedStatuses, Present
  <2> QED
    BY <1>4, <2>1, <2>2, SumTypes, RefundsAssumption, FS_Subset
<1>6. SumFunctionOnSet(Sats, Counted(i)') = SumFunctionOnSet(Sats', Counted(i)')
  BY <1>5, SumIsExtensional
<1>7. SumFunctionOnSet(Sats, Counted(i)') <= SumFunctionOnSet(Sats, Counted(i))
  BY <1>3, <1>5, SumOfPart
<1>8. Promised(i) \in Nat /\ Promised(i)' \in Nat
  <2>1. \A r \in Counted(i)' : Sats'[r] \in Nat
    BY <1>5
  <2> QED
    BY <1>5, <2>1, SumIsNat DEF Promised
<1> QED
  BY <1>3, <1>4, <1>6, <1>7, <1>8 DEF Promised

\* An insertion adds its amount to what is promised of its invoice.
LEMMA OnePromise ==
    ASSUME Orderly, [Next]_vars, NEW c \in Clients, NEW r \in Refunds, Inserts(c, r),
           NEW i \in Invoices
    PROVE  /\ client[c].new \in Row
           /\ row'[r] = client[c].new /\ Sats'[r] = client[c].new.sats
           /\ \A q \in Refunds \ {r} :
                 /\ status'[q] = status[q] /\ row'[q] = row[q]
                 /\ Sats'[q] = Sats[q]
           /\ client[c].new.invoice /= i => Promised(i)' = Promised(i)
           /\ client[c].new.invoice = i =>
                 Promised(i)' = client[c].new.sats + Promised(i)
<1> USE DEF Orderly
<1>1. client[c].new \in Row /\ client[c].new.sats \in Nat
  BY HeldTypes DEF Inserts, Insertion, Row
<1>2. status'[r] = "pending" /\ row'[r] = client[c].new
  BY DEF Inserts, TypeOK
<1>3. \A q \in Refunds \ {r} : status'[q] = status[q] /\ row'[q] = row[q]
  BY DEF Inserts, TypeOK
<1>4. Sats'[r] = client[c].new.sats
  BY <1>2 DEF Sats, Present
<1>5. \A q \in Refunds \ {r} : Sats'[q] = Sats[q]
  BY <1>3 DEF Sats, Present
<1>6. r \notin Counted(i)
  BY DEF Inserts, Counted, CountedStatuses, Present
<1>7. Counted(i)' = IF client[c].new.invoice = i THEN Counted(i) \cup {r} ELSE Counted(i)
  BY <1>2, <1>3, <1>6 DEF Counted, CountedStatuses
<1>8. /\ IsFiniteSet(Counted(i))
      /\ \A q \in Counted(i) : Sats[q] \in Nat /\ Sats'[q] = Sats[q]
  <2>1. Counted(i) \subseteq Refunds
    BY DEF Counted
  <2> QED
    BY <1>5, <1>6, <2>1, SumTypes, RefundsAssumption, FS_Subset
<1>9. SumFunctionOnSet(Sats, Counted(i)) = SumFunctionOnSet(Sats', Counted(i))
  BY <1>8, SumIsExtensional
<1>10. SumFunctionOnSet(Sats', Counted(i) \cup {r}) = Sats'[r] + SumFunctionOnSet(Sats', Counted(i))
  <2>1. \A q \in Counted(i) \cup {r} : Sats'[q] \in Nat
    BY <1>1, <1>4, <1>8
  <2> QED
    BY <1>6, <1>8, <2>1, SumAdds
<1> QED
  BY <1>1, <1>2, <1>3, <1>4, <1>5, <1>7, <1>9, <1>10 DEF Promised

\* The observed sums change by an observation alone, which disturbs nothing else,
\* and the highest of them only grows.
LEMMA SumsMove ==
    ASSUME TypeOK, [Next]_vars
    PROVE  /\ \A i \in Invoices : most[i] <= most'[i]
           /\ \/ UNCHANGED <<paid, most>>
              \/ \E i \in Invoices : ObservePayments(i)
           /\ most' /= most =>
                /\ UNCHANGED rowVars /\ UNCHANGED sent
                /\ \E i \in Invoices : /\ most'[i] \in Nat /\ most'[i] > most[i]
                                        /\ most' = [most EXCEPT ![i] = most'[i]]
<1>1. \/ UNCHANGED <<paid, most>>
      \/ \E i \in Invoices : ObservePayments(i)
  BY DEF Next, ClientStep, PassStep, vars, paidVars, CreateRefund, ReadRefundable,
         InsertRefund, ReadForApproval, ApproveRefund, ReadForDecision,
         DecideRefund, DropRequest, Claim, Dispatch, Start, PaySucceeds,
         PayRefused, PayErrs, Record, Crash, LeaseExpires, Midnight
<1>2. ASSUME NEW i \in Invoices, ObservePayments(i)
      PROVE  /\ \A j \in Invoices : most[j] <= most'[j]
             /\ UNCHANGED rowVars /\ UNCHANGED sent
             /\ \/ most' = most
                \/ /\ most'[i] \in Nat /\ most'[i] > most[i]
                   /\ most' = [most EXCEPT ![i] = most'[i]]
  <2>1. PICK sats \in Sums : most' = [most EXCEPT ![i] = IF sats > @ THEN sats ELSE @]
    BY <1>2 DEF ObservePayments
  <2>2. sats \in Nat /\ most \in [Invoices -> Nat]
    BY RefundsAssumption DEF TypeOK
  <2>3. CASE sats > most[i]
    BY <1>2, <2>1, <2>2, <2>3 DEF ObservePayments, moneyVars
  <2>4. CASE ~(sats > most[i])
    <3>1. most' = most
      BY <2>1, <2>2, <2>4
    <3> QED
      BY <1>2, <2>2, <3>1 DEF ObservePayments, moneyVars
  <2> QED
    BY <2>3, <2>4
<1>3. CASE UNCHANGED <<paid, most>>
  BY <1>3 DEF TypeOK
<1> QED
  BY <1>1, <1>2, <1>3

\* No row says, and no request remembers, more than was ever observed.
ReadingsFit ==
    /\ \A i \in Invoices : paid[i] <= most[i]
    /\ \A c \in Clients : client[c].at = "reading" =>
          client[c].paid <= most[client[c].invoice]

\* What a request remembers it has just read, or has remembered before.
LEMMA RememberedMoves ==
    ASSUME TypeOK, [Next]_vars, NEW c \in Clients, client'[c].at = "reading"
    PROVE  \/ client'[c] = client[c]
           \/ /\ client'[c].invoice \in Invoices
              /\ client'[c].paid = paid[client'[c].invoice]
<1>1. ASSUME NEW d \in Clients, CreateRefund(d)
      PROVE  \/ client'[c] = client[c]
             \/ /\ client'[c].invoice \in Invoices
                /\ client'[c].paid = paid[client'[c].invoice]
  BY <1>1 DEF TypeOK, CreateRefund
<1>2. ASSUME NEW d \in Clients,
             \/ ReadRefundable(d) \/ InsertRefund(d) \/ ReadForApproval(d)
             \/ ApproveRefund(d) \/ ReadForDecision(d) \/ DecideRefund(d)
             \/ DropRequest(d)
      PROVE  client'[c] = client[c]
  BY <1>2
     DEF TypeOK, Idle, ReadRefundable, InsertRefund, ReadForApproval,
         ApproveRefund, ReadForDecision, DecideRefund, DropRequest
<1>3. CASE UNCHANGED client
  BY <1>3
<1> QED
  BY <1>1, <1>2, <1>3
     DEF Next, ClientStep, PassStep, vars, Claim, Dispatch, Start, PaySucceeds,
         PayRefused, PayErrs, Record, Crash, LeaseExpires, ObservePayments, Midnight

\* A sum that is observed lower leaves what was read of it within the highest.
LEMMA ReadingsStep ==
    ASSUME TypeOK, HeldRefundsExist, ReadingsFit, [Next]_vars
    PROVE  ReadingsFit'
<1>1. /\ \A i \in Invoices : /\ most[i] \in Nat /\ most'[i] \in Nat
                              /\ most[i] <= most'[i]
                              /\ paid[i] \in Nat /\ paid'[i] \in Nat
  BY SumsMove, TypingStep DEF TypeOK
<1>2. ASSUME NEW i \in Invoices PROVE paid'[i] <= most'[i]
  <2>1. CASE UNCHANGED <<paid, most>>
    BY <2>1 DEF ReadingsFit
  <2>2. ASSUME NEW j \in Invoices, ObservePayments(j)
        PROVE  paid'[i] <= most'[i]
    <3>1. PICK sats \in Sums :
            /\ paid' = [paid EXCEPT ![j] = sats]
            /\ most' = [most EXCEPT ![j] = IF sats > @ THEN sats ELSE @]
      BY <2>2 DEF ObservePayments
    <3>2. sats \in Nat
      BY RefundsAssumption
    <3> QED
      BY <1>1, <3>1, <3>2 DEF ReadingsFit, TypeOK
  <2> QED
    BY <2>1, <2>2, SumsMove
<1>3. ASSUME NEW c \in Clients, client'[c].at = "reading"
      PROVE  client'[c].paid <= most'[client'[c].invoice]
  <2>1. CASE client'[c] = client[c]
    <3>1. client[c].paid \in Nat /\ client[c].invoice \in Invoices
      BY <1>3, <2>1, HeldTypes DEF Request
    <3>2. client[c].paid <= most[client[c].invoice]
      BY <1>3, <2>1 DEF ReadingsFit
    <3> QED
      BY <1>1, <2>1, <3>1, <3>2
  <2>2. CASE /\ client'[c].invoice \in Invoices
             /\ client'[c].paid = paid[client'[c].invoice]
    <3>1. paid[client'[c].invoice] <= most[client'[c].invoice]
      BY <2>2 DEF ReadingsFit
    <3> QED
      BY <1>1, <2>2, <3>1
  <2> QED
    BY <1>3, <2>1, <2>2, RememberedMoves
<1> QED
  BY <1>2, <1>3 DEF ReadingsFit

\* Neither an insertion about to be made nor the promises outgrow what was observed.
LEMMA InsertionsStep ==
    ASSUME NoDecisions, OneRequest, Orderly, ReadingsFit, InsertionsFit,
           PromisedWithinPaid, [Next]_vars
    PROVE  InsertionsFit' /\ PromisedWithinPaid'
<1> USE DEF Orderly
<1>0. \A i \in Invoices : most[i] \in Nat /\ most'[i] \in Nat /\ most[i] <= most'[i]
  BY SumsMove, TypingStep DEF TypeOK
<1>1. CASE \A r \in Refunds : Present(r)' => Present(r)
  <2>1. ASSUME NEW i \in Invoices
        PROVE  /\ Promised(i)' <= Promised(i)
               /\ Promised(i) \in Nat /\ Promised(i)' \in Nat
    BY <1>1, NothingPromised
  <2>2. ASSUME NEW c \in Clients, NEW i \in Invoices,
               client'[c].at = "inserting", client'[c].new.invoice = i
        PROVE  client'[c].new.sats > 0 /\ client'[c].new.sats + Promised(i)' <= most'[i]
    <3>1. /\ client'[c].new.sats \in Nat \ {0}
          /\ client'[c].new.sats + Promised(i) <= most[i]
      <4>1. CASE client'[c] = client[c]
        <5>1. client[c].new.sats \in Nat
          BY <2>2, <4>1, HeldTypes DEF Insertion, Row
        <5> QED
          BY <2>2, <4>1, <5>1 DEF InsertionsFit
      <4>2. CASE ReadRefundable(c)
        <5>1. /\ client'[c].new.sats \in 1..RefundableSats(client[c].paid, i)
              /\ client[c].paid \in Nat /\ client[c].invoice = i
          BY <2>2, <4>2, ReadingMoves DEF Request
        <5>2. client[c].paid <= most[i]
          BY <4>2, <5>1 DEF ReadRefundable, ReadingsFit
        <5> QED
          BY <1>0, <2>1, <5>1, <5>2 DEF RefundableSats, Minus
      <4> QED
        BY <2>2, <4>1, <4>2, InsertionMoves
    <3> QED
      BY <1>0, <2>1, <3>1
  <2>3. PromisedWithinPaid'
    BY <1>0, <2>1 DEF PromisedWithinPaid
  <2> QED
    BY <2>2, <2>3 DEF InsertionsFit
<1>2. ASSUME NEW c \in Clients, NEW r \in Refunds, Inserts(c, r)
      PROVE  InsertionsFit' /\ PromisedWithinPaid'
  <2>1. ASSUME NEW d \in Clients PROVE client'[d].at /= "inserting"
    BY <1>2, <2>1 DEF OneRequest, Inserts, Idle, TypeOK
  <2>2. ASSUME NEW i \in Invoices PROVE Promised(i)' <= most'[i]
    <3>1. \/ Promised(i)' = Promised(i)
          \/ /\ client[c].new.invoice = i
             /\ Promised(i)' = client[c].new.sats + Promised(i)
      BY <1>2, OnePromise
    <3>2. most'[i] = most[i]
      BY <1>2 DEF Inserts
    <3> QED
      BY <1>2, <3>1, <3>2 DEF InsertionsFit, PromisedWithinPaid, Inserts
  <2> QED
    BY <2>1, <2>2 DEF InsertionsFit, PromisedWithinPaid
<1> QED
  BY <1>1, <1>2, RowMoves

\* A store begins with no promise made.
LEMMA PromisesInit ==
    Init => Orderly /\ ReadingsFit /\ InsertionsFit /\ PromisedWithinPaid
<1> SUFFICES ASSUME Init
             PROVE  Orderly /\ ReadingsFit /\ InsertionsFit /\ PromisedWithinPaid
  OBVIOUS
<1>0. \A i \in Invoices : paid[i] \in Nat /\ most[i] = paid[i]
  BY RefundsAssumption DEF Init
<1>1. Orderly /\ ReadingsFit /\ InsertionsFit
  BY <1>0, OrderlyInit DEF Init, ReadingsFit, InsertionsFit, Idle
<1>2. \A i \in Invoices : Counted(i) = {}
  BY DEF Init, Counted, CountedStatuses
<1>3. \A i \in Invoices : Promised(i) = 0
  BY <1>2, SumOfNone DEF Promised
<1> QED
  BY <1>0, <1>1, <1>3 DEF PromisedWithinPaid

\* What an invoice's refunds promise never exceeds the most its payments were ever
\* observed to be, with one creation at a time and without manual decisions: two at a
\* time promise the same money twice, and an executor may write over a decision.
THEOREM PromisesAreCovered ==
    ASSUME NoDecisions, OneRequest
    PROVE  Spec => []PromisedWithinPaid
<1> DEFINE Inv == Orderly /\ ReadingsFit /\ InsertionsFit /\ PromisedWithinPaid
<1>1. Init => Inv
  BY PromisesInit
<1>2. Inv /\ [Next]_vars => Inv'
  BY OrderlyStep, ReadingsStep, InsertionsStep DEF Orderly
<1> QED
  BY <1>1, <1>2, PTL DEF Spec

------------------------------------------------------------------------------
(* What is sent of an invoice                                              *)

\* Money that left for good left once, for a refund that is still counted.
LEMMA SentIsPromised ==
    ASSUME \A dest \in Destinations : TypeOf[dest] /= "lightning_invoice",
           Orderly, PaidOnceUnlessUncertain, NEW i \in Invoices
    PROVE  LET Gone == {r \in Refunds : sent[r] > 0 /\ row[r].invoice = i}
           IN /\ Gone \subseteq Counted(i)
              /\ \A r \in Gone : SentForGood[r] \in Nat /\ SentForGood[r] <= Sats[r]
<1> USE DEF Orderly
<1> DEFINE Gone == {r \in Refunds : sent[r] > 0 /\ row[r].invoice = i}
<1>1. ASSUME NEW r \in Gone
      PROVE  /\ status[r] \in CountedStatuses
             /\ Present(r) /\ HasDriver(row[r].dest)
  <2>1. Present(r) /\ HasDriver(row[r].dest) /\ Dispatchable(r)
    BY DEF MaxFits, OutcomesFit
  <2>2. status[r] \in Statuses /\ status[r] \notin {"failed", "canceled"}
    BY <2>1 DEF OutcomesFit, TypeOK, Present
  <2> QED
    BY <2>1, <2>2 DEF Statuses, CountedStatuses
<1>2. ASSUME NEW r \in Gone
      PROVE  SentForGood[r] \in Nat /\ SentForGood[r] <= Sats[r]
  <2>1. /\ Sats[r] = row[r].sats /\ row[r].sats \in Nat
        /\ SatsSent(row[r].dest, row[r].sats) = row[r].sats
    BY <1>1 DEF Sats, SatsSent, HasDriver, TypeOK, Row
  <2>2. CASE sent[r] > uncertain[r]
    <3>1. sent[r] - uncertain[r] = 1
      <4>1. sent[r] \in Nat /\ uncertain[r] \in Nat
        BY DEF TypeOK
      <4>2. sent[r] <= uncertain[r] + 1
        BY DEF PaidOnceUnlessUncertain
      <4> QED
        BY <2>2, <4>1, <4>2
    <3>2. SentForGood[r] = 1 * row[r].sats
      BY <2>1, <2>2, <3>1 DEF SentForGood
    <3> QED
      BY <2>1, <3>2
  <2>3. CASE ~(sent[r] > uncertain[r])
    BY <2>1, <2>3 DEF SentForGood
  <2> QED
    BY <2>2, <2>3
<1> QED
  BY <1>1, <1>2 DEF Counted

\* What is sent of an invoice is within what is promised of it.
LEMMA SentWithinPromised ==
    ASSUME \A dest \in Destinations : TypeOf[dest] /= "lightning_invoice",
           Orderly, PaidOnceUnlessUncertain, PromisedWithinPaid
    PROVE  SentWithinPaid
<1> SUFFICES ASSUME NEW i \in Invoices
             PROVE  SumFunctionOnSet(SentForGood,
                        {r \in Refunds : sent[r] > 0 /\ row[r].invoice = i}) <= most[i]
  BY DEF SentWithinPaid
<1> DEFINE Gone == {r \in Refunds : sent[r] > 0 /\ row[r].invoice = i}
<1>1. /\ Gone \subseteq Counted(i)
      /\ \A r \in Gone : SentForGood[r] \in Nat /\ SentForGood[r] <= Sats[r]
  BY SentIsPromised
<1>2. /\ IsFiniteSet(Gone) /\ IsFiniteSet(Counted(i))
      /\ \A r \in Counted(i) : Sats[r] \in Nat
  <2>1. Gone \subseteq Refunds /\ Counted(i) \subseteq Refunds
    BY DEF Counted
  <2> QED
    BY <2>1, SumTypes, RefundsAssumption, FS_Subset DEF Orderly
<1> HIDE DEF Gone
<1>3. SumFunctionOnSet(SentForGood, Gone) <= SumFunctionOnSet(Sats, Gone)
  <2>1. \A r \in Gone : /\ SentForGood[r] \in Nat /\ Sats[r] \in Nat
                        /\ SentForGood[r] <= Sats[r]
    BY <1>1, <1>2
  <2> QED
    BY <1>2, <2>1, SumIsMonotone
<1>4. SumFunctionOnSet(Sats, Gone) <= Promised(i)
  BY <1>1, <1>2, SumOfPart DEF Promised
<1>5. Promised(i) <= most[i]
  BY DEF PromisedWithinPaid
<1>6. /\ SumFunctionOnSet(SentForGood, Gone) \in Nat
      /\ SumFunctionOnSet(Sats, Gone) \in Nat
      /\ Promised(i) \in Nat /\ most[i] \in Nat
  BY <1>1, <1>2, SumIsNat, SumTypes DEF Orderly, TypeOK
<1> QED
  BY <1>3, <1>4, <1>5, <1>6 DEF Gone

\* What was sent of an invoice, and not reported as an error, never exceeds the most
\* its payments were ever observed to be: neither crashes nor retries nor lost leases make room for a second
\* refund.  A Lightning invoice is paid in the amount written in it, which nothing
\* compares with the refund.
THEOREM SentIsCovered ==
    ASSUME NoDecisions, OneRequest,
           \A dest \in Destinations : TypeOf[dest] /= "lightning_invoice"
    PROVE  Spec => []SentWithinPaid
<1>1. Orderly /\ PaidOnceUnlessUncertain /\ PromisedWithinPaid => SentWithinPaid
  BY SentWithinPromised
<1>2. Spec => []Orderly
  <2>1. Init => Orderly
    BY OrderlyInit
  <2>2. Orderly /\ [Next]_vars => Orderly'
    BY OrderlyStep
  <2> QED
    BY <2>1, <2>2, PTL DEF Spec
<1> QED
  BY <1>1, <1>2, PaidOnce, PromisesAreCovered, PTL

------------------------------------------------------------------------------
(* The limit of a day                                                      *)

\* No day begins between the choice of a payout's day and the backend's answer.
QuietMidnights ==
    [][today' /= today =>
          \A e \in Executors : executor[e].at \notin {"starting", "paying"}]_vars

\* The refunds that count against a day.
Reserved(day) ==
    {r \in Refunds : status[r] \in {"processing", "succeeded"} /\ stamp[r] = day}

\* A payout ends on the day it was started for ...
SameDay ==
    \A e \in Executors, r \in Refunds : executor[e] /= Resting /\ executor[e].refund = r =>
        /\ executor[e].at = "starting" => executor[e].day = today
        /\ executor[e].at = "paying" => stamp[r] = today
        /\ executor[e].at = "finalizing" => stamp[r] = executor[e].day

\* ... and what is started for a day is within an enabled table's limit.
DaysAreWithin ==
    \A day \in Nat : \E x \in Rails :
        /\ ExecConfig[x].enabled
        /\ SumFunctionOnSet(Sats, Reserved(day)) <= ExecConfig[x].daily

\* What a Start that starts something does.
LEMMA StartMoves ==
    ASSUME TypeOK, NEW e \in Executors, Start(e), NEW r \in Refunds,
           executor[e].refund = r, executor'[e] /= Resting \/ status'[r] /= status[r]
    PROVE  /\ executor[e].at = "starting" /\ executor[e].day \in Nat
           /\ MayStart(r, executor[e].day)
           /\ status' = [status EXCEPT ![r] = "processing"]
           /\ stamp' = [stamp EXCEPT ![r] = executor[e].day]
           /\ executor' = [executor EXCEPT ![e] = [at |-> "paying", refund |-> r]]
           /\ UNCHANGED <<row, today>>
<1>1. executor[e].at = "starting" /\ executor[e].day \in Nat
  BY HeldTypes DEF Start
<1>2. MayStart(r, executor[e].day)
  BY DEF TypeOK, Start, rowVars
<1> QED
  BY <1>1, <1>2 DEF Start, UpdateRefundStatus

\* A stamp is written by a start or by the record of a success.
LEMMA StampMoves ==
    ASSUME TypeOK, OutcomesFit, [Next]_vars, NEW r \in Refunds, stamp'[r] /= stamp[r]
    PROVE  \/ \E e \in Executors :
                 /\ Start(e) /\ executor[e].refund = r
                 /\ status'[r] = "processing" /\ status[r] = "pending"
           \/ \E e \in Executors :
                 /\ executor[e].refund = r /\ executor[e].at = "finalizing"
                 /\ executor' = [executor EXCEPT ![e] = Resting]
                 /\ stamp'[r] = executor[e].day
<1>1. ASSUME NEW e \in Executors, Start(e)
      PROVE  /\ executor[e].refund = r
             /\ status'[r] = "processing" /\ status[r] = "pending"
  BY <1>1 DEF TypeOK, Start, MayStart, UpdateRefundStatus, rowVars
<1>2. ASSUME NEW e \in Executors, Record(e)
      PROVE  /\ executor[e].refund = r /\ executor[e].at = "finalizing"
             /\ executor' = [executor EXCEPT ![e] = Resting]
             /\ stamp'[r] = executor[e].day
  BY <1>2 DEF TypeOK, Record, UpdateRefundStatus
<1>3. ASSUME NEW c \in Clients, DecideRefund(c)
      PROVE  FALSE
  BY <1>3 DEF DecideRefund, OutcomesFit
<1>4. ASSUME NEW c \in Clients, InsertRefund(c)
      PROVE  FALSE
  BY <1>4 DEF InsertRefund, rowVars
<1>5. ~UNCHANGED stamp
  OBVIOUS
<1> QED
  BY <1>1, <1>2, <1>3, <1>4, <1>5
     DEF Next, ClientStep, PassStep, vars, rowVars, CreateRefund, ReadRefundable,
         ReadForApproval, ApproveRefund, ReadForDecision, DropRequest, Claim,
         Dispatch, PaySucceeds, PayRefused, PayErrs, Crash, LeaseExpires,
         ObservePayments, Midnight

\* What is in hand keeps its stamp, and so does everything that is not started.
LEMMA StampsStay ==
    ASSUME Orderly, SameDay, [Next]_vars, NEW r \in Refunds, status[r] /= "pending"
    PROVE  stamp'[r] = stamp[r]
<1> USE DEF Orderly
<1>1. ASSUME stamp'[r] /= stamp[r] PROVE FALSE
  <2>1. PICK e \in Executors :
          /\ executor[e].refund = r /\ executor[e].at = "finalizing"
          /\ stamp'[r] = executor[e].day
    BY <1>1, StampMoves
  <2> QED
    BY <1>1, <2>1 DEF SameDay, Resting
<1> QED
  BY <1>1

\* The days passes carry, and the day itself.
LEMMA DayMoves ==
    ASSUME TypeOK, [Next]_vars
    PROVE  /\ today' /= today => UNCHANGED <<executor, stamp, status>>
           /\ \A e \in Executors : executor'[e] /= executor[e] =>
                /\ executor'[e].at = "starting" => executor'[e].day = today
                /\ executor'[e].at = "paying" =>
                      /\ Start(e) /\ executor'[e] /= Resting
                      /\ executor'[e].refund = executor[e].refund
                /\ executor'[e].at = "finalizing" =>
                      /\ executor[e].at = "paying" /\ executor'[e].day = today
                      /\ executor'[e].refund = executor[e].refund
                      /\ UNCHANGED stamp
<1>1. ASSUME NEW e \in Executors, executor'[e] /= executor[e]
      PROVE  /\ executor'[e].at = "starting" => executor'[e].day = today
             /\ executor'[e].at = "paying" =>
                   /\ Start(e) /\ executor'[e] /= Resting
                   /\ executor'[e].refund = executor[e].refund
             /\ executor'[e].at = "finalizing" =>
                   /\ executor[e].at = "paying" /\ executor'[e].day = today
                   /\ executor'[e].refund = executor[e].refund
                   /\ UNCHANGED stamp
  <2>1. ASSUME NEW f \in Executors, f /= e,
               \/ Dispatch(f) \/ Start(f) \/ PaySucceeds(f) \/ PayRefused(f)
               \/ PayErrs(f) \/ Record(f) \/ Crash(f) \/ \E r \in Refunds : Claim(f, r)
        PROVE  FALSE
    BY <1>1, <2>1
       DEF TypeOK, Dispatch, Start, PaySucceeds, PayRefused, PayErrs, Record,
           Crash, Claim
  <2>2. ASSUME \/ Record(e) \/ Crash(e) \/ PayErrs(e) \/ PayRefused(e)
               \/ \E r \in Refunds : Claim(e, r)
        PROVE  executor'[e].at \notin {"starting", "paying", "finalizing"}
    BY <2>2 DEF TypeOK, Record, Crash, PayErrs, PayRefused, Claim, Resting
  <2>3. CASE Dispatch(e)
    BY <2>3 DEF TypeOK, Dispatch
  <2>4. CASE Start(e)
    BY <2>4 DEF TypeOK, Start, Resting
  <2>5. CASE PaySucceeds(e)
    BY <2>5 DEF TypeOK, PaySucceeds, rowVars
  <2>6. ~UNCHANGED executor
    BY <1>1
  <2> QED
    BY <2>1, <2>2, <2>3, <2>4, <2>5, <2>6
       DEF Next, ClientStep, PassStep, vars, CreateRefund, ReadRefundable,
           InsertRefund, ReadForApproval, ApproveRefund, ReadForDecision,
           DecideRefund, DropRequest, LeaseExpires, ObservePayments, Midnight
<1>2. ASSUME today' /= today
      PROVE  UNCHANGED <<executor, stamp, status>>
  BY <1>2
     DEF Next, ClientStep, PassStep, vars, rowVars, CreateRefund, ReadRefundable,
         InsertRefund, ReadForApproval, ApproveRefund, ReadForDecision,
         DecideRefund, DropRequest, Claim, Dispatch, Start, PaySucceeds, PayRefused,
         PayErrs, Record, Crash, LeaseExpires, ObservePayments, Midnight
<1> QED
  BY <1>1, <1>2

LEMMA SameDayStep ==
    ASSUME NoDecisions, Orderly, SameDay, [Next]_vars,
           today' /= today =>
              \A e \in Executors : executor[e].at \notin {"starting", "paying"}
    PROVE  SameDay'
<1> USE DEF Orderly
<1> SUFFICES ASSUME NEW e \in Executors, NEW r \in Refunds,
                    executor'[e] /= Resting, executor'[e].refund = r
             PROVE  /\ executor'[e].at = "starting" => executor'[e].day = today'
                    /\ executor'[e].at = "paying" => stamp'[r] = today'
                    /\ executor'[e].at = "finalizing" => stamp'[r] = executor'[e].day
  BY DEF SameDay
<1>1. CASE today' /= today
  BY <1>1, DayMoves DEF SameDay
<1>2. CASE today' = today /\ executor'[e] = executor[e]
  <2>1. ASSUME executor[e].at \in {"paying", "finalizing"}
        PROVE  stamp'[r] = stamp[r]
    <3>1. status[r] = "processing"
      BY <1>2, <2>1 DEF InHandOnce, InHand
    <3> QED
      BY <3>1, StampsStay
  <2> QED
    BY <1>2, <2>1 DEF SameDay
<1>3. CASE today' = today /\ executor'[e] /= executor[e]
  <2>1. CASE executor'[e].at = "paying"
    <3>1. Start(e) /\ executor[e].refund = r
      BY <1>3, <2>1, DayMoves
    <3>2. executor[e].at = "starting" /\ stamp'[r] = executor[e].day
      BY <3>1, StartMoves DEF TypeOK
    <3> QED
      BY <1>3, <2>1, <3>1, <3>2 DEF SameDay, Resting
  <2>2. CASE executor'[e].at = "finalizing"
    <3>1. /\ executor[e].at = "paying" /\ executor'[e].day = today
          /\ executor[e].refund = r /\ stamp' = stamp
      BY <1>3, <2>2, DayMoves
    <3> QED
      BY <1>3, <2>2, <3>1 DEF SameDay, Resting
  <2> QED
    BY <1>3, <2>1, <2>2, DayMoves
<1> QED
  BY <1>1, <1>2, <1>3

\* A refund comes to count against a day by being started for it.
LEMMA ReservedMoves ==
    ASSUME Orderly, SameDay, [Next]_vars, NEW day \in Nat, NEW r \in Reserved(day)'
    PROVE  /\ r \in Refunds /\ Present(r) /\ Sats[r] \in Nat /\ Sats'[r] = Sats[r]
           /\ \/ r \in Reserved(day)
              \/ \E e \in Executors :
                    /\ Start(e) /\ executor[e].refund = r
                    /\ executor[e].day = day /\ status'[r] /= status[r]
<1> USE DEF Orderly
<1>1. r \in Refunds /\ status'[r] \in {"processing", "succeeded"} /\ stamp'[r] = day
  BY DEF Reserved
<1>2. CASE \E e \in Executors : /\ Start(e) /\ executor[e].refund = r
                                /\ status[r] = "pending"
  <2>1. PICK e \in Executors : Start(e) /\ executor[e].refund = r /\ status[r] = "pending"
    BY <1>2
  <2>2. status'[r] /= status[r]
    BY <1>1, <2>1
  <2>3. stamp'[r] = executor[e].day
    <3>1. stamp' = [stamp EXCEPT ![r] = executor[e].day]
      BY <1>1, <2>1, <2>2, StartMoves
    <3> QED
      BY <1>1, <3>1 DEF TypeOK
  <2>4. Present(r)
    BY <2>1 DEF Present
  <2> QED
    BY <1>1, <2>1, <2>2, <2>3, <2>4, RowsArePermanent, SumTypes DEF Sats, Present
<1>3. CASE ~ \E e \in Executors : /\ Start(e) /\ executor[e].refund = r
                                  /\ status[r] = "pending"
  <2>1. status[r] \in {"processing", "succeeded"}
    <3>1. CASE status'[r] = status[r]
      BY <1>1, <3>1
    <3>2. CASE status'[r] /= status[r]
      <4>1. PICK e \in Executors : executor[e].refund = r /\ executor[e].at = "finalizing"
        BY <1>1, <1>3, <3>2, StatusMoves
      <4> QED
        BY <1>1, <4>1 DEF InHandOnce, InHand
    <3> QED
      BY <3>1, <3>2
  <2>2. stamp'[r] = stamp[r]
    BY <1>1, <2>1, StampsStay
  <2>3. Present(r)
    BY <2>1 DEF Present
  <2> QED
    BY <1>1, <2>1, <2>2, <2>3, RowsArePermanent, SumTypes DEF Sats, Present, Reserved
<1> QED
  BY <1>2, <1>3

\* An accepted refund's table is that of an enabled rail.
LEMMA TableIsEnabled ==
    ASSUME NEW r, Accepted(r)
    PROVE  \E x \in Rails : /\ ExecConfig[x].enabled
                            /\ ExecutionTable(ExecConfig, row[r].dest) = ExecConfig[x]
<1> DEFINE open == EnabledRailsFor(ExecConfig, row[r].dest)
<1>1. open /= {}
  BY FS_EmptySet DEF Accepted, HasExecutionTable
<1>2. open \subseteq {x \in Rails : ExecConfig[x].enabled}
  BY DEF EnabledRailsFor, RailsFor, Rails
<1>3. PICK x \in open : x = CHOOSE y \in open : TRUE
  BY <1>1
<1> QED
  BY <1>2, <1>3 DEF ExecutionTable

LEMMA DaysStep ==
    ASSUME NoDecisions, Orderly, SameDay, DaysAreWithin, [Next]_vars
    PROVE  DaysAreWithin'
<1> USE DEF Orderly
<1> SUFFICES ASSUME NEW day \in Nat
             PROVE  \E x \in Rails :
                       /\ ExecConfig[x].enabled
                       /\ SumFunctionOnSet(Sats', Reserved(day)') <= ExecConfig[x].daily
  BY DEF DaysAreWithin
<1>1. /\ IsFiniteSet(Reserved(day)) /\ IsFiniteSet(Reserved(day)')
      /\ \A r \in Reserved(day) : Sats[r] \in Nat
      /\ \A r \in Reserved(day)' : Sats[r] \in Nat /\ Sats'[r] = Sats[r]
  <2>1. Reserved(day) \subseteq Refunds /\ Reserved(day)' \subseteq Refunds
    BY DEF Reserved
  <2>2. \A r \in Reserved(day)' : Sats[r] \in Nat /\ Sats'[r] = Sats[r]
    BY ReservedMoves
  <2> QED
    BY <2>1, <2>2, SumTypes, RefundsAssumption, FS_Subset
<1>2. SumFunctionOnSet(Sats', Reserved(day)') = SumFunctionOnSet(Sats, Reserved(day)')
  BY <1>1, SumIsExtensional
<1>3. /\ SumFunctionOnSet(Sats, Reserved(day)') \in Nat
      /\ SumFunctionOnSet(Sats, Reserved(day)) \in Nat
      /\ \A x \in Rails : ExecConfig[x].daily \in Nat
  BY <1>1, SumIsNat, ConfigAssumption DEF PayoutTable
<1>4. CASE Reserved(day)' \subseteq Reserved(day)
  <2>1. SumFunctionOnSet(Sats, Reserved(day)') <= SumFunctionOnSet(Sats, Reserved(day))
    BY <1>1, <1>4, SumOfPart
  <2>2. PICK x \in Rails :
          /\ ExecConfig[x].enabled
          /\ SumFunctionOnSet(Sats, Reserved(day)) <= ExecConfig[x].daily
    BY DEF DaysAreWithin
  <2> QED
    BY <1>2, <1>3, <2>1, <2>2
<1>5. ASSUME NEW r \in Reserved(day)', NEW e \in Executors, Start(e),
             executor[e].refund = r, executor[e].day = day, status'[r] /= status[r]
      PROVE  \E x \in Rails :
                /\ ExecConfig[x].enabled
                /\ SumFunctionOnSet(Sats', Reserved(day)') <= ExecConfig[x].daily
  <2> DEFINE others == {q \in Refunds \ {r} : /\ status[q] \in {"succeeded", "processing"}
                                              /\ stamp[q] >= day}
  <2>1. /\ r \in Refunds /\ Present(r)
        /\ executor[e].at = "starting" /\ MayStart(r, day)
        /\ status' = [status EXCEPT ![r] = "processing"]
        /\ stamp' = [stamp EXCEPT ![r] = day]
    BY <1>5, StartMoves, ReservedMoves
  <2>2. Reserved(day)' \ {r} \subseteq others
    BY <2>1 DEF Reserved, TypeOK
  <2>3. Accepted(r)
    BY <1>5, <2>1 DEF OutcomesFit, UnderWay, Resting
  <2>4. PICK x \in Rails : /\ ExecConfig[x].enabled
                           /\ ExecutionTable(ExecConfig, row[r].dest) = ExecConfig[x]
    BY <2>3, TableIsEnabled
  <2>5. /\ IsFiniteSet(others) /\ \A q \in others : Sats[q] \in Nat
    <3>1. others \subseteq Refunds
      OBVIOUS
    <3> QED
      BY <3>1, SumTypes, RefundsAssumption, FS_Subset
  <2>6. Sats[r] + SumFunctionOnSet(Sats, others) <= ExecConfig[x].daily
    BY <2>1, <2>4 DEF MayStart, ReservedSats, Sats
  <2> HIDE DEF others
  <2>7. SumFunctionOnSet(Sats, Reserved(day)')
            = Sats[r] + SumFunctionOnSet(Sats, Reserved(day)' \ {r})
    BY <1>1, <1>5, SumTakesOut
  <2>8. SumFunctionOnSet(Sats, Reserved(day)' \ {r}) <= SumFunctionOnSet(Sats, others)
    BY <2>2, <2>5, SumOfPart
  <2>9. /\ SumFunctionOnSet(Sats, Reserved(day)' \ {r}) \in Nat
        /\ SumFunctionOnSet(Sats, others) \in Nat /\ Sats[r] \in Nat
    <3>1. IsFiniteSet(Reserved(day)' \ {r}) /\ \A q \in Reserved(day)' \ {r} : Sats[q] \in Nat
      BY <1>1, FS_Subset
    <3> QED
      BY <1>1, <1>5, <2>5, <3>1, SumIsNat
  <2>10. SumFunctionOnSet(Sats, Reserved(day)') <= ExecConfig[x].daily
    BY <1>3, <2>6, <2>7, <2>8, <2>9
  <2> QED
    BY <1>2, <2>4, <2>10
<1> QED
  BY <1>4, <1>5, ReservedMoves

\* No day sees more finalized than the highest daily limit, without manual
\* decisions and when no payout straddles midnight: one that does counts against
\* the day it ends on, which was never asked.
THEOREM DaysAreKept ==
    ASSUME NoDecisions, \E x \in Rails : ExecConfig[x].enabled
    PROVE  Spec /\ QuietMidnights => []DailyLimitHolds
<1> DEFINE Inv == Orderly /\ SameDay /\ DaysAreWithin
           Quiet == today' /= today =>
                      \A e \in Executors : executor[e].at \notin {"starting", "paying"}
<1>1. Init => Inv
  <2> SUFFICES ASSUME Init PROVE Inv
    OBVIOUS
  <2>1. Orderly /\ SameDay
    BY OrderlyInit DEF Init, SameDay
  <2>2. \A day \in Nat : Reserved(day) = {}
    BY DEF Init, Reserved
  <2>3. \A day \in Nat : SumFunctionOnSet(Sats, Reserved(day)) = 0
    BY <2>2, SumOfNone
  <2>4. \A x \in Rails : 0 <= ExecConfig[x].daily
    BY ConfigAssumption DEF PayoutTable
  <2> QED
    BY <2>1, <2>3, <2>4 DEF DaysAreWithin
<1>2. Inv /\ [Next]_vars /\ [Quiet]_vars => Inv'
  <2> SUFFICES ASSUME Inv, [Next]_vars, [Quiet]_vars PROVE Inv'
    OBVIOUS
  <2>1. Quiet
    BY DEF vars
  <2> QED
    BY <2>1, OrderlyStep, SameDayStep, DaysStep
<1>3. Inv => DailyLimitHolds
  <2> SUFFICES ASSUME Inv, NEW day \in 0..today
               PROVE  \E x \in Rails :
                         /\ ExecConfig[x].enabled
                         /\ SumFunctionOnSet(Sats, FinalizedOn(day)) <= ExecConfig[x].daily
    BY DEF DailyLimitHolds
  <2>1. day \in Nat
    BY DEF Orderly, TypeOK
  <2>2. PICK x \in Rails :
          /\ ExecConfig[x].enabled
          /\ SumFunctionOnSet(Sats, Reserved(day)) <= ExecConfig[x].daily
    BY <2>1 DEF DaysAreWithin
  <2>3. FinalizedOn(day) \subseteq Reserved(day) /\ Reserved(day) \subseteq Refunds
    BY DEF FinalizedOn, Reserved
  <2>4. IsFiniteSet(Reserved(day)) /\ IsFiniteSet(FinalizedOn(day))
        /\ \A r \in Reserved(day) : Sats[r] \in Nat
    BY <2>3, SumTypes, RefundsAssumption, FS_Subset DEF Orderly
  <2>5. SumFunctionOnSet(Sats, FinalizedOn(day)) <= SumFunctionOnSet(Sats, Reserved(day))
    BY <2>3, <2>4, SumOfPart
  <2>6. /\ SumFunctionOnSet(Sats, FinalizedOn(day)) \in Nat
        /\ SumFunctionOnSet(Sats, Reserved(day)) \in Nat
        /\ ExecConfig[x].daily \in Nat
    BY <2>3, <2>4, SumIsNat, ConfigAssumption DEF PayoutTable
  <2> QED
    BY <2>2, <2>5, <2>6
<1> HIDE DEF Inv
<1> QED
  BY <1>1, <1>2, <1>3, PTL DEF Spec, QuietMidnights

------------------------------------------------------------------------------
(* The ledger                                                              *)

\* The entry of a refund, from its row.
LEMMA EntryOfRow ==
    ASSUME TypeOK, NEW r \in Refunds
    PROVE  /\ ~Present(r) => /\ LedgerEntry[r] = Ledger!NoEntry
                             /\ LedgerEntry[r].stage = "absent"
           /\ Present(r) =>
                /\ LedgerEntry[r].stage = LedgerStage(r)
                /\ LedgerEntry[r].invoice = row[r].invoice
                /\ LedgerEntry[r].sats = row[r].sats
                /\ LedgerStage(r) \in {"owed", "repaid", "dropped"}
                /\ LedgerEntry[r] /= Ledger!NoEntry
           /\ status[r] \in {"pending", "processing"} => LedgerStage(r) = "owed"
           /\ status[r] = "succeeded" => LedgerStage(r) = "repaid"
           /\ status[r] = "failed" => LedgerStage(r) = "dropped"
<1>1. /\ status[r] \in {"pending", "processing"} => LedgerStage(r) = "owed"
      /\ status[r] = "succeeded" => LedgerStage(r) = "repaid"
      /\ status[r] \in {"failed", "canceled"} => LedgerStage(r) = "dropped"
  BY DEF LedgerStage
<1>2. Present(r) => LedgerStage(r) \in {"owed", "repaid", "dropped"}
  BY <1>1 DEF TypeOK, Present, Statuses
<1>3. Present(r) => LedgerEntry[r] /= Ledger!NoEntry
  <2>1. ASSUME Present(r), LedgerEntry[r] = Ledger!NoEntry PROVE FALSE
    <3>1. LedgerEntry[r].stage = LedgerStage(r) /\ LedgerEntry[r].stage = "absent"
      BY <2>1 DEF LedgerEntry, Ledger!NoEntry
    <3> QED
      BY <1>2, <2>1, <3>1
  <2> QED
    BY <2>1
<1> QED
  BY <1>1, <1>2, <1>3 DEF LedgerEntry, Ledger!NoEntry

\* The ledger adds up as the refunds do.
LEMMA LedgerSums ==
    ASSUME NEW f, NEW S
    PROVE  Ledger!SumFunctionOnSet(f, S) = SumFunctionOnSet(f, S)
  BY DEF SumFunctionOnSet, FoldFunctionOnSet, MapThenFoldSet,
         Ledger!SumFunctionOnSet, Ledger!FoldFunctionOnSet, Ledger!MapThenFoldSet

\* What the books hold spoken for is what is promised.
LEMMA SpokenIsPromised ==
    ASSUME TypeOK, NEW i \in Invoices
    PROVE  Ledger!Spoken(i) = Promised(i)
<1> DEFINE amount == [r \in Refunds |-> IF LedgerEntry[r] = Ledger!NoEntry THEN 0
                                         ELSE LedgerEntry[r].sats]
           open == {r \in Refunds : /\ LedgerEntry[r].stage \in {"owed", "repaid"}
                                     /\ LedgerEntry[r].invoice = i}
<1>1. amount = Sats
  <2>1. ASSUME NEW r \in Refunds
        PROVE  amount[r] = Sats[r]
    <3>1. CASE Present(r)
      <4>1. LedgerEntry[r].sats = row[r].sats /\ LedgerEntry[r] /= Ledger!NoEntry
        BY <3>1, EntryOfRow DEF Present
      <4> QED
        BY <3>1, <4>1 DEF Sats
    <3>2. CASE ~Present(r)
      <4>1. LedgerEntry[r] = Ledger!NoEntry
        BY <3>2, EntryOfRow
      <4> QED
        BY <3>2, <4>1 DEF Sats
    <3> QED
      BY <3>1, <3>2
  <2> QED
    BY <2>1 DEF Sats
<1>2. ASSUME NEW r \in Refunds
      PROVE  r \in open <=> r \in Counted(i)
  <2>1. CASE ~Present(r)
    <3>1. LedgerEntry[r].stage = "absent"
      BY <2>1, EntryOfRow DEF Ledger!NoEntry
    <3>2. status[r] \notin CountedStatuses
      BY <2>1 DEF Present, CountedStatuses
    <3> QED
      BY <3>1, <3>2 DEF Counted
  <2>2. CASE Present(r)
    <3>1. LedgerStage(r) \in {"owed", "repaid"} <=> status[r] \in CountedStatuses
      BY <2>2 DEF LedgerStage, CountedStatuses, TypeOK, Statuses, Present
    <3>2. LedgerEntry[r].stage = LedgerStage(r) /\ LedgerEntry[r].invoice = row[r].invoice
      BY <2>2, EntryOfRow
    <3> QED
      BY <3>1, <3>2 DEF Counted
  <2> QED
    BY <2>1, <2>2
<1>3. open = Counted(i)
  BY <1>2 DEF Counted
<1>4. Ledger!Spoken(i) = SumFunctionOnSet(amount, open)
  BY LedgerSums DEF Ledger!Spoken
<1> HIDE DEF amount, open
<1> QED
  BY <1>1, <1>3, <1>4 DEF Promised

\* An insertion is an Owe.
LEMMA InsertionOwes ==
    ASSUME Orderly, InsertionsFit, [Next]_vars, NEW c \in Clients, NEW r \in Refunds,
           Inserts(c, r)
    PROVE  Ledger!LedgerNext
<1> USE DEF Orderly
<1> DEFINE i == client[c].new.invoice
           sats == client[c].new.sats
<1>1. client[c].new \in Row
  BY HeldTypes DEF Inserts, Insertion
<1>2. i \in Invoices /\ sats \in Nat /\ most[i] \in Nat /\ Promised(i) \in Nat
  BY <1>1, SumTypes DEF Row, TypeOK
<1>3. sats > 0 /\ sats + Promised(i) <= most[i]
  BY <1>2 DEF InsertionsFit, Inserts
<1>4. /\ status'[r] = "pending" /\ row'[r] = client[c].new
      /\ \A q \in Refunds \ {r} : status'[q] = status[q] /\ row'[q] = row[q]
      /\ sent' = sent /\ most' = most /\ ~Present(r)
  BY DEF Inserts, TypeOK
<1>5. LedgerLeft' = LedgerLeft
  BY <1>4 DEF LedgerLeft
<1>6. LedgerEntry[r] = Ledger!NoEntry
  BY <1>4, EntryOfRow
<1>7. /\ LedgerEntry'[r] = [stage |-> "owed", invoice |-> i, sats |-> sats]
      /\ \A q \in Refunds \ {r} : LedgerEntry'[q] = LedgerEntry[q]
  BY <1>4 DEF LedgerEntry, LedgerStage, Present
<1>8. LedgerEntry' = [LedgerEntry EXCEPT ![r] =
                        [stage |-> "owed", invoice |-> i, sats |-> sats]]
  BY <1>7 DEF LedgerEntry
<1>9. Ledger!Spoken(i) + sats <= most[i]
  BY <1>2, <1>3, SpokenIsPromised
<1>10. sats \in 1..most[i]
  BY <1>2, <1>3
<1>11. Ledger!Owe(r, i, sats)
  BY <1>3, <1>4, <1>5, <1>6, <1>8, <1>9 DEF Ledger!Owe
<1> QED
  BY <1>2, <1>10, <1>11 DEF Ledger!LedgerNext

\* An entry is closed by an executor, and agrees with whether the money left.
LEMMA EntryMoves ==
    ASSUME Orderly, [Next]_vars, \A r \in Refunds : Present(r)' => Present(r),
           NEW r \in Refunds, LedgerEntry'[r] /= LedgerEntry[r]
    PROVE  \E e \in Executors :
              /\ executor[e].refund = r
              /\ executor[e].at \in {"finalizing", "failing"}
              /\ executor' = [executor EXCEPT ![e] = Resting]
              /\ sent' = sent /\ Present(r)
              /\ LedgerStage(r) = "owed" /\ row'[r] = row[r]
              /\ \/ r \in LedgerLeft /\ status'[r] = "succeeded"
                 \/ r \notin LedgerLeft /\ status'[r] = "failed"
<1> USE DEF Orderly
<1>1. Present(r) /\ Present(r)' /\ row'[r] = row[r]
  <2>1. CASE Present(r)'
    BY <2>1, RowsArePermanent
  <2>2. CASE ~Present(r)'
    BY <2>2, RowsArePermanent DEF LedgerEntry
  <2> QED
    BY <2>1, <2>2
<1>2. LedgerStage(r)' /= LedgerStage(r)
  BY <1>1 DEF LedgerEntry
<1>3. status'[r] /= status[r]
  BY <1>2 DEF LedgerStage
<1>4. PICK e \in Executors :
        /\ executor[e].refund = r
        /\ \/ executor[e].at = "finalizing" /\ status'[r] = "succeeded"
           \/ executor[e].at = "failing" /\ status'[r] = "failed"
           \/ executor[e].at = "retrying" /\ status'[r] = "pending"
        /\ executor' = [executor EXCEPT ![e] = Resting]
        /\ UNCHANGED sent
  BY <1>1, <1>2, <1>3, StatusMoves DEF LedgerStage, Present
<1>5. executor[e] /= Resting
  BY <1>4 DEF Resting
<1>6. CASE executor[e].at \in {"finalizing", "retrying"}
  <2>1. status[r] = "processing"
    BY <1>4, <1>6 DEF InHandOnce, InHand
  <2>2. executor[e].at = "finalizing"
    BY <1>2, <1>4, <1>6, <2>1 DEF LedgerStage
  <2>3. r \in LedgerLeft
    BY <1>4, <1>5, <2>2 DEF OutcomesFit, LedgerLeft
  <2> QED
    BY <1>1, <1>4, <2>1, <2>2, <2>3 DEF LedgerStage
<1>7. CASE executor[e].at = "failing"
  <2>1. ~Dispatchable(r)
    BY <1>4, <1>5, <1>7 DEF OutcomesFit
  <2>2. ~(sent[r] > 0) /\ status[r] \notin {"succeeded", "canceled"}
    BY <2>1 DEF OutcomesFit
  <2>3. r \notin LedgerLeft
    BY <2>2 DEF LedgerLeft
  <2>4. status[r] \in {"pending", "processing"}
    BY <1>1, <1>3, <1>4, <1>7, <2>2 DEF TypeOK, Statuses, Present
  <2> QED
    BY <1>1, <1>4, <1>7, <2>3, <2>4 DEF LedgerStage
<1> QED
  BY <1>4, <1>6, <1>7

\* Closing an entry is a Repay or a Drop.
LEMMA OutcomeCloses ==
    ASSUME Orderly, [Next]_vars, \A r \in Refunds : Present(r)' => Present(r),
           LedgerEntry' /= LedgerEntry
    PROVE  Ledger!LedgerNext
<1> USE DEF Orderly
<1>1. PICK r \in Refunds : LedgerEntry'[r] /= LedgerEntry[r]
  BY DEF LedgerEntry
<1>2. PICK e \in Executors :
        /\ executor[e].refund = r
        /\ executor[e].at \in {"finalizing", "failing"}
        /\ executor' = [executor EXCEPT ![e] = Resting]
        /\ sent' = sent /\ Present(r)
        /\ LedgerStage(r) = "owed" /\ row'[r] = row[r]
        /\ \/ r \in LedgerLeft /\ status'[r] = "succeeded"
           \/ r \notin LedgerLeft /\ status'[r] = "failed"
  BY <1>1, EntryMoves
<1>3. ASSUME NEW q \in Refunds, q /= r
      PROVE  LedgerEntry'[q] = LedgerEntry[q]
  <2>1. CASE LedgerEntry'[q] /= LedgerEntry[q]
    <3>1. PICK f \in Executors :
            /\ executor[f].refund = q
            /\ executor[f].at \in {"finalizing", "failing"}
            /\ executor' = [executor EXCEPT ![f] = Resting]
      BY <2>1, EntryMoves
    <3>2. f /= e
      BY <1>2, <1>3, <3>1
    <3>3. executor'[f] = executor[f] /\ executor'[f] = Resting
      BY <1>2, <3>1, <3>2 DEF TypeOK
    <3> QED
      BY <3>1, <3>3 DEF Resting
  <2> QED
    BY <2>1
<1>4. LedgerLeft' = LedgerLeft /\ most' = most
  <2>1. CASE UNCHANGED rowVars
    <3>1. LedgerEntry' = LedgerEntry
      BY <2>1 DEF rowVars, LedgerEntry, LedgerStage, Present
    <3> QED
      BY <3>1
  <2> QED
    BY <1>2, <2>1, SumsMove DEF LedgerLeft
<1>5. LedgerEntry[r] = [stage |-> "owed", invoice |-> row[r].invoice, sats |-> row[r].sats]
  BY <1>2 DEF LedgerEntry
<1>6. ASSUME NEW new, LedgerStage(r)' = new
      PROVE  LedgerEntry' = [LedgerEntry EXCEPT ![r].stage = new]
  <2>1. Present(r)'
    BY <1>2, RowsArePermanent
  <2>2. LedgerEntry'[r] = [stage |-> new, invoice |-> row[r].invoice, sats |-> row[r].sats]
    BY <1>2, <1>6, <2>1 DEF LedgerEntry
  <2>3. LedgerEntry'[r] = [LedgerEntry[r] EXCEPT !.stage = new]
    BY <1>5, <2>2
  <2> QED
    BY <1>3, <2>3 DEF LedgerEntry
<1>7. CASE r \in LedgerLeft /\ status'[r] = "succeeded"
  <2>1. LedgerStage(r)' = "repaid"
    BY <1>7 DEF LedgerStage
  <2>2. Ledger!Repay(r)
    BY <1>4, <1>5, <1>6, <1>7, <2>1 DEF Ledger!Repay
  <2> QED
    BY <2>2 DEF Ledger!LedgerNext
<1>8. CASE r \notin LedgerLeft /\ status'[r] = "failed"
  <2>1. LedgerStage(r)' = "dropped"
    BY <1>8 DEF LedgerStage
  <2>2. Ledger!Drop(r)
    BY <1>4, <1>5, <1>6, <1>8, <2>1 DEF Ledger!Drop
  <2> QED
    BY <2>2 DEF Ledger!LedgerNext
<1> QED
  BY <1>2, <1>7, <1>8

\* A step sends the money of one refund, and changes no row.
LEMMA OneIsSent ==
    ASSUME TypeOK, [Next]_vars, sent' /= sent
    PROVE  \E e \in Executors :
              /\ executor[e].at = "paying"
              /\ sent' = [sent EXCEPT ![executor[e].refund] = @ + 1]
              /\ UNCHANGED rowVars
<1>1. ASSUME NEW e \in Executors, PaySucceeds(e) \/ PayErrs(e) \/ Crash(e)
      PROVE  /\ executor[e].at = "paying"
             /\ sent' = [sent EXCEPT ![executor[e].refund] = @ + 1]
             /\ UNCHANGED rowVars
  BY <1>1 DEF PaySucceeds, PayErrs, Crash, moneyVars
<1> QED
  BY <1>1
     DEF Next, ClientStep, PassStep, vars, moneyVars, CreateRefund, ReadRefundable,
         InsertRefund, ReadForApproval, ApproveRefund, ReadForDecision,
         DecideRefund, DropRequest, Claim, Dispatch, Start, PayRefused, Record,
         LeaseExpires, ObservePayments, Midnight

\* It is a Send of an owed refund.
LEMMA PaymentSends ==
    ASSUME Orderly, [Next]_vars, sent' /= sent
    PROVE  Ledger!LedgerNext
<1> USE DEF Orderly
<1>1. PICK e \in Executors :
        /\ executor[e].at = "paying"
        /\ sent' = [sent EXCEPT ![executor[e].refund] = @ + 1]
        /\ UNCHANGED rowVars
  BY OneIsSent
<1>2. PICK r \in Refunds : r = executor[e].refund
  BY <1>1, HeldTypes DEF Resting
<1>3. sent[r] \in Nat /\ sent'[r] = sent[r] + 1
      /\ \A q \in Refunds \ {r} : sent'[q] = sent[q]
  BY <1>1, <1>2 DEF TypeOK
<1>4. LedgerLeft' = LedgerLeft \cup {r}
  <2>1. sent'[r] > 0
    BY <1>3
  <2> QED
    BY <1>3, <2>1 DEF LedgerLeft
<1>5. status' = status /\ row' = row
  BY <1>1 DEF rowVars
<1>6. LedgerEntry' = LedgerEntry
  BY <1>5 DEF LedgerEntry, LedgerStage, Present
<1>7. status[r] = "processing"
  BY <1>1, <1>2 DEF InHandOnce, InHand
<1>8. LedgerEntry[r].stage = "owed"
  BY <1>7, EntryOfRow DEF Present
<1>9. most' = most
  BY SumsMove
<1>10. Ledger!Send(r)
  BY <1>4, <1>6, <1>8, <1>9 DEF Ledger!Send
<1> QED
  BY <1>10 DEF Ledger!LedgerNext

\* An observation that tells of more than any before is a Receive.
LEMMA ObservationReceives ==
    ASSUME TypeOK, [Next]_vars, most' /= most
    PROVE  Ledger!LedgerNext
<1>1. PICK i \in Invoices : /\ most'[i] \in Nat /\ most'[i] > most[i]
                            /\ most' = [most EXCEPT ![i] = most'[i]]
  BY SumsMove
<1>2. UNCHANGED rowVars /\ UNCHANGED sent
  BY SumsMove
<1>3. LedgerEntry' = LedgerEntry /\ LedgerLeft' = LedgerLeft
  BY <1>2 DEF rowVars, LedgerEntry, LedgerLeft, LedgerStage, Present
<1>4. Ledger!Receive(i)
  BY <1>1, <1>3 DEF Ledger!Receive
<1> QED
  BY <1>4 DEF Ledger!LedgerNext

\* The refunds keep the ledger, without manual decisions and with one creation at a
\* time: an invoice's money is promised once; a refund succeeds only after its money
\* left, fails only if it did not, and is then neither paid nor changed.
THEOREM RefundsKeepTheLedger ==
    ASSUME NoDecisions, OneRequest
    PROVE  Spec => KeepsTheLedger
<1> DEFINE Inv == Orderly /\ ReadingsFit /\ InsertionsFit /\ PromisedWithinPaid
<1>1. Spec => []Inv
  <2>1. Init => Inv
    BY PromisesInit
  <2>2. Inv /\ [Next]_vars => Inv'
    BY OrderlyStep, ReadingsStep, InsertionsStep DEF Orderly
  <2> QED
    BY <2>1, <2>2, PTL DEF Spec
<1>2. Init => Ledger!LedgerInit
  <2> SUFFICES ASSUME Init PROVE Ledger!LedgerInit
    OBVIOUS
  <2>1. most \in [Invoices -> Nat]
    BY TypingInit DEF TypeOK
  <2>2. LedgerEntry = [r \in Refunds |-> Ledger!NoEntry] /\ LedgerLeft = {}
    BY DEF Init, LedgerEntry, LedgerLeft, Present, Ledger!NoEntry
  <2> QED
    BY <2>1, <2>2 DEF Ledger!LedgerInit
<1>3. Inv /\ [Next]_vars => [Ledger!LedgerNext]_Ledger!ledgerVars
  <2> SUFFICES ASSUME Inv, [Next]_vars
               PROVE  Ledger!LedgerNext \/ UNCHANGED <<most, LedgerEntry, LedgerLeft>>
    BY DEF Ledger!ledgerVars
  <2>1. CASE \E c \in Clients, r \in Refunds : Inserts(c, r)
    BY <2>1, InsertionOwes
  <2>2. CASE \A r \in Refunds : Present(r)' => Present(r)
    <3>1. CASE UNCHANGED <<sent, most>> /\ LedgerEntry' = LedgerEntry
      BY <3>1 DEF LedgerLeft
    <3> QED
      BY <2>2, <3>1, OutcomeCloses, PaymentSends, ObservationReceives DEF Orderly
  <2> QED
    BY <2>1, <2>2, RowMoves DEF Orderly
<1> HIDE DEF Inv
<1> QED
  BY <1>1, <1>2, <1>3, PTL DEF Spec, KeepsTheLedger, Ledger!LedgerSpec

==============================================================================
