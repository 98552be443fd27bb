------------------------------- MODULE Sweeps -------------------------------
(***************************************************************************)
(* Sweeps of Lightning balances to the chain: the loop of `qpayd sweep`    *)
(* (lightning_sweep_loop in src/main.rs) and those an administrator asks a *)
(* server for (create_lightning_sweep in src/api.rs), both through         *)
(* sweep_to_address (src/lightning.rs).  A sweep reads the balance, then   *)
(* asks the backend to send what is above the target; what an              *)
(* administrator asked for is recorded after that, what the loop did is    *)
(* only logged.                                                            *)
(*                                                                         *)
(* Stores are those with an enabled sweep.  A backend pays what it is      *)
(* asked if it has it, and its fees are left out.                          *)
(***************************************************************************)
EXTENDS Integers, Sequences, FiniteSets, SequencesExt

CONSTANTS
    Order,           \* the stores, in the order of the configuration
    MinBalance, TargetBalance, Interval,  \* per store; Interval in ticks of the loop
    Unreachable,     \* stores whose backend never answers
    Servers,         \* processes that serve the API, one request each
    Loop,            \* the process of the loop
    Deposits,        \* sizes of payments received
    MaxBalance,      \* bound: what a store receives in all
    MaxPayouts,      \* bound: payouts of refunds from the same wallet
    MaxErrors,       \* bound: errors of backends that do answer
    MaxStops,        \* bound: stops of the loop's process
    MaxRecords       \* bound: sweeps asked for

Stores == Range(Order)
Payer == "refund executor"

\* What validate_lightning_sweep accepts.
ValidSweep(s) == MinBalance[s] > 0 /\ TargetBalance[s] < MinBalance[s] /\ Interval[s] > 0

ASSUME SweepsAssumption ==
    /\ Order \in Seq(Stores) /\ IsInjective(Order)
    /\ {MinBalance, TargetBalance, Interval} \subseteq [Stores -> Nat]
    /\ \A s \in Stores : ValidSweep(s)
    /\ \E s \in Stores : Interval[s] = 1
    /\ Unreachable \subseteq Stores
    /\ IsFiniteSet(Servers)
    /\ Loop \notin Servers /\ Payer \notin Servers \cup {Loop}
    /\ Deposits \subseteq Nat \ {0}
    /\ {MaxBalance, MaxPayouts, MaxErrors, MaxStops, MaxRecords} \subseteq Nat

VARIABLES
    balance,     \* what the backend of each store holds
    received,    \* what it was ever paid
    age,         \* ticks since the loop last turned to a store (last_runs)
    pass,        \* the place in Order the loop's pass is at; 0 between passes
    job,         \* the sweep each process is working on
    records,     \* the rows of lightning_sweeps
    sent,        \* what sweeps asked for by administrators moved
    unrecorded,  \* those of them whose record was lost or says otherwise
    payouts, errors, stops

vars == <<balance, received, age, pass, job, records, sent, unrecorded,
               payouts, errors, stops>>

Workers == Servers \cup {Loop}
Idle == [at |-> "idle"]
Working(w, phase) == job[w].at = phase
Decided(w, s) == Working(w, "sending") /\ job[w].store = s

Job(phase, s, amount, taken, status) ==
    [at |-> phase, store |-> s, amount |-> amount, taken |-> taken, status |-> status]

TypeOK ==
    /\ balance \in [Stores -> 0..MaxBalance]
    /\ received \in [Stores -> 0..MaxBalance]
    /\ age \in [Stores -> Nat] /\ \A s \in Stores : age[s] <= Interval[s] + 1
    /\ pass \in 0..Len(Order)
    /\ \A w \in Workers :
          \/ job[w] = Idle
          \/ /\ job[w].at \in {"reading", "sending", "recording"}
             /\ job[w].store \in Stores
             /\ {job[w].amount, job[w].taken} \subseteq 0..MaxBalance
             /\ job[w].status \in {"succeeded", "skipped", "failed"}
    /\ records \in Seq([store : Stores, status : {"succeeded", "skipped", "failed"},
                        amount : 0..MaxBalance])
    /\ sent \in [Stores -> 0..MaxBalance] /\ unrecorded \in [Stores -> 0..MaxBalance]
    /\ payouts \in 0..MaxPayouts /\ errors \in 0..MaxErrors /\ stops \in 0..MaxStops

\* A store the loop has not turned to yet is due, like one it turned to long ago.
NeverRun == [s \in Stores |-> Interval[s] + 1]

Init ==
    /\ balance = [s \in Stores |-> 0]
    /\ received = [s \in Stores |-> 0]
    /\ age = NeverRun
    /\ pass = 0
    /\ job = [w \in Workers |-> Idle]
    /\ records = <<>>
    /\ sent = [s \in Stores |-> 0]
    /\ unrecorded = [s \in Stores |-> 0]
    /\ payouts = 0 /\ errors = 0 /\ stops = 0

\* Mutant: the whole balance is taken.
SweepAmountAll(s, b) == IF b > MinBalance[s] THEN b ELSE 0

\* sweep_decision: nothing, or what is above the target.
SweepAmount(s, b) == IF b > MinBalance[s] THEN b - TargetBalance[s] ELSE 0

------------------------------------------------------------------------------
(* The backend                                                             *)

Deposit(s, n) ==
    /\ s \notin Unreachable
    /\ received[s] + n <= MaxBalance
    /\ balance' = [balance EXCEPT ![s] = @ + n]
    /\ received' = [received EXCEPT ![s] = @ + n]
    /\ UNCHANGED <<age, pass, job, records, sent, unrecorded, payouts, errors, stops>>

\* n leaves the wallet of s by the hand of w: the others that work from an
\* earlier reading of the balance have that much less (taken).
Take(w, s, n, done) ==
    /\ balance' = [balance EXCEPT ![s] = @ - n]
    /\ job' = [v \in Workers |->
          IF v = w THEN done
          ELSE IF Decided(v, s) THEN [job[v] EXCEPT !.taken = @ + n] ELSE job[v]]

\* A refund is paid from the same wallet (src/payout.rs).
Payout(s, n) ==
    /\ payouts < MaxPayouts
    /\ n <= balance[s]
    /\ Take(Payer, s, n, Idle)
    /\ payouts' = payouts + 1
    /\ UNCHANGED <<received, age, pass, records, sent, unrecorded, errors, stops>>

------------------------------------------------------------------------------
(* A sweep                                                                 *)

\* What follows a sweep: the loop goes on to the next store, or ends its pass at
\* an error; a server has the outcome to record.
\* Mutant (NextStoreBeyond): the pass does not end.
NextStoreBeyond == pass + 1

NextStore == IF pass = Len(Order) THEN 0 ELSE pass + 1

Outcome(w, s, amount, status) ==
    IF w = Loop THEN Idle ELSE Job("recording", s, amount, 0, status)

PassOn(w, status) ==
    pass' = IF w /= Loop THEN pass ELSE IF status = "failed" THEN 0 ELSE NextStore

Settle(w, amount, status) ==
    /\ job' = [job EXCEPT ![w] = Outcome(w, job[w].store, amount, status)]
    /\ PassOn(w, status)

\* The balance is read and the amount decided.
ReadBalance(w) ==
    /\ Working(w, "reading") /\ job[w].store \notin Unreachable
    /\ LET s == job[w].store
           amount == SweepAmount(s, balance[s])
       IN IF amount = 0 THEN Settle(w, 0, "skipped")
          ELSE /\ job' = [job EXCEPT ![w] = Job("sending", s, amount, 0, "succeeded")]
               /\ UNCHANGED pass
    /\ UNCHANGED <<balance, received, age, records, sent, unrecorded, payouts, errors, stops>>

\* The backend sends the amount if it still has it.
Send(w) ==
    /\ Working(w, "sending")
    /\ LET s == job[w].store  amount == job[w].amount
       IN /\ amount <= balance[s]
          /\ Take(w, s, amount, Outcome(w, s, amount, "succeeded"))
          /\ sent' = IF w = Loop THEN sent ELSE [sent EXCEPT ![s] = @ + amount]
    /\ PassOn(w, "succeeded")
    /\ UNCHANGED <<received, age, records, unrecorded, payouts, errors, stops>>

\* The backend has not enough left.
Refused(w) ==
    /\ Working(w, "sending") /\ job[w].amount > balance[job[w].store]
    /\ Settle(w, 0, "failed")
    /\ UNCHANGED <<balance, received, age, records, sent, unrecorded, payouts, errors, stops>>

\* No answer, or an error, and nothing was sent.
Fails(w) ==
    /\ job[w].at \in {"reading", "sending"}
    /\ job[w].store \notin Unreachable => errors < MaxErrors
    /\ Settle(w, 0, "failed")
    /\ errors' = IF job[w].store \in Unreachable THEN errors ELSE errors + 1
    /\ UNCHANGED <<balance, received, age, records, sent, unrecorded, payouts, stops>>

\* The answer that the amount was sent is lost, and taken for a failure.
AnswerLost(w) ==
    /\ Working(w, "sending") /\ errors < MaxErrors
    /\ LET s == job[w].store  amount == job[w].amount
       IN /\ amount <= balance[s]
          /\ Take(w, s, amount, Outcome(w, s, 0, "failed"))
          /\ sent' = IF w = Loop THEN sent ELSE [sent EXCEPT ![s] = @ + amount]
          /\ unrecorded' = IF w = Loop THEN unrecorded
                           ELSE [unrecorded EXCEPT ![s] = @ + amount]
    /\ PassOn(w, "failed")
    /\ errors' = errors + 1
    /\ UNCHANGED <<received, age, records, payouts, stops>>

------------------------------------------------------------------------------
(* The loop                                                                *)

\* Between passes a tick goes by; a pass takes less than that.
Tick ==
    /\ pass = 0
    /\ age' = [s \in Stores |-> IF age[s] > Interval[s] THEN age[s] ELSE age[s] + 1]
    /\ pass' = 1
    /\ UNCHANGED <<balance, received, job, records, sent, unrecorded, payouts, errors, stops>>

\* Seconds are counted in whole, from a moment within the pass: after exactly the
\* interval a store may or may not be due.
NotDue(s) == age[s] <= Interval[s]
IsDue(s) == age[s] >= Interval[s]

SkipStore ==
    /\ pass > 0 /\ job[Loop] = Idle
    /\ NotDue(Order[pass])
    /\ pass' = NextStore
    /\ UNCHANGED <<balance, received, age, job, records, sent, unrecorded,
                   payouts, errors, stops>>

\* Mutant: the turn is not noted, to try again at the next tick.
TakeStoreUnnoted ==
    /\ pass > 0 /\ job[Loop] = Idle
    /\ IsDue(Order[pass])
    /\ job' = [job EXCEPT ![Loop] = Job("reading", Order[pass], 0, 0, "skipped")]
    /\ UNCHANGED <<balance, received, age, pass, records, sent, unrecorded,
                   payouts, errors, stops>>

\* The store's turn is noted before its sweep.
TakeStore ==
    /\ pass > 0 /\ job[Loop] = Idle
    /\ IsDue(Order[pass])
    /\ age' = [age EXCEPT ![Order[pass]] = 0]
    /\ job' = [job EXCEPT ![Loop] = Job("reading", Order[pass], 0, 0, "skipped")]
    /\ UNCHANGED <<balance, received, pass, records, sent, unrecorded,
                   payouts, errors, stops>>

\* The loop's process is stopped and started again.
StopLoop ==
    /\ stops < MaxStops
    /\ pass' = 0
    /\ job' = [job EXCEPT ![Loop] = Idle]
    /\ age' = NeverRun
    /\ stops' = stops + 1
    /\ UNCHANGED <<balance, received, records, sent, unrecorded, payouts, errors>>

SweepStep(w) == ReadBalance(w) \/ Send(w) \/ Refused(w)
LoopStep == Tick \/ SkipStore \/ TakeStore \/ SweepStep(Loop)

------------------------------------------------------------------------------
(* Sweeps asked for                                                        *)

AskSweep(r, s) ==
    /\ job[r] = Idle
    /\ Len(records) + Cardinality({q \in Servers : job[q] /= Idle}) < MaxRecords
    /\ job' = [job EXCEPT ![r] = Job("reading", s, 0, 0, "skipped")]
    /\ UNCHANGED <<balance, received, age, pass, records, sent, unrecorded,
                   payouts, errors, stops>>

\* Mutant: the row is written without its amount.
InsertRecordBare(r) ==
    /\ Working(r, "recording")
    /\ records' = Append(records, [store |-> job[r].store, status |-> job[r].status,
                                   amount |-> 0])
    /\ job' = [job EXCEPT ![r] = Idle]
    /\ UNCHANGED <<balance, received, age, pass, sent, unrecorded, payouts, errors, stops>>

\* insert_lightning_sweep, with the outcome whatever it was.
InsertRecord(r) ==
    /\ Working(r, "recording")
    /\ records' = Append(records, [store |-> job[r].store, status |-> job[r].status,
                                   amount |-> job[r].amount])
    /\ job' = [job EXCEPT ![r] = Idle]
    /\ UNCHANGED <<balance, received, age, pass, sent, unrecorded, payouts, errors, stops>>

\* The insert fails, or the server stops: what it was doing is forgotten.
Forget(r) ==
    /\ job[r] /= Idle /\ stops < MaxStops
    /\ stops' = stops + 1
    /\ unrecorded' = IF Working(r, "recording")
                     THEN [unrecorded EXCEPT ![job[r].store] = @ + job[r].amount]
                     ELSE unrecorded
    /\ job' = [job EXCEPT ![r] = Idle]
    /\ UNCHANGED <<balance, received, age, pass, records, sent, payouts, errors>>

------------------------------------------------------------------------------
Next ==
    \/ \E s \in Stores, n \in Deposits : Deposit(s, n) \/ Payout(s, n)
    \/ LoopStep \/ StopLoop
    \/ \E r \in Servers :
          \/ \E s \in Stores : AskSweep(r, s)
          \/ InsertRecord(r) \/ Forget(r)
    \/ \E w \in Workers : SweepStep(w) \/ Fails(w) \/ AnswerLost(w)

Spec == Init /\ [][Next]_vars

\* The loop's process runs on (it is started again when it stops), and a backend
\* that never answers runs into the timeout of the request.  Nothing makes an
\* administrator ask.
Fairness ==
    /\ WF_vars(LoopStep)
    /\ WF_vars(Fails(Loop) /\ job[Loop].store \in Unreachable)

FairSpec == Spec /\ Fairness

------------------------------------------------------------------------------
(* Properties                                                              *)

\* However sweeps, payouts and deposits interleave, a sweep takes a wallet below its
\* target by no more than what others took from it since the sweep read the balance
\* (read and send are two calls, and the loop, the servers and the payouts of
\* refunds share one wallet).
KeepsTarget ==
    [][\A w \in Workers :
          Working(w, "sending") /\ job'[w].at /= "sending" =>
              LET s == job[w].store
              IN balance'[s] < balance[s] => balance'[s] + job[w].taken >= TargetBalance[s]
      ]_vars

\* What the rows say was moved for s ...
Noted(s) ==
    [i \in DOMAIN records |-> IF records[i].store = s THEN records[i].amount ELSE 0]

Recorded(s) == SumFunction(Noted(s))

\* ... and what requests have yet to write.
Due(s) ==
    [r \in Servers |->
        IF Working(r, "recording") /\ job[r].store = s THEN job[r].amount ELSE 0]

InFlight(s) == SumFunction(Due(s))

\* The records account for all money that sweeps asked for moved, but for a lost
\* answer, a stop or a failed insert after the money left.
SentIsRecorded ==
    \A s \in Stores : sent[s] = Recorded(s) + InFlight(s) + unrecorded[s]

\* A balance above the minimum comes down to it, whatever the backends of the other
\* stores do, if those that never answer are not due at every tick.
SurplusIsSwept ==
    \A s \in Stores \ Unreachable : balance[s] > MinBalance[s] ~> balance[s] <= MinBalance[s]
=============================================================================
