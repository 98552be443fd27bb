---------------------------- MODULE SweepsProofs ----------------------------
(***************************************************************************)
(* Proofs about Sweeps, for any stores, intervals and number of servers:   *)
(* whoever else draws on a wallet, a sweep leaves the target in it but for *)
(* what others took since the sweep read the balance; what left a wallet   *)
(* is recorded, but for the payouts whose process stopped before it could  *)
(* record them; and the model is typed.                                    *)
(***************************************************************************)
EXTENDS Sweeps, SumTheorems

Sweep == [at : {"reading", "sending", "recording"}, store : Stores, amount : Nat,
          taken : Nat, status : {"succeeded", "skipped", "failed"}]

SweepTyped ==
    /\ balance \in [Stores -> Nat]
    /\ pass \in 0..Len(Order)
    /\ job \in [Workers -> {Idle} \cup Sweep]

\* What a sweep is about to send and the target were in the wallet when it read the
\* balance: they are there still, but for what others have taken.
AmountFits ==
    \A w \in Workers : Working(w, "sending") =>
        balance[job[w].store] + job[w].taken >= job[w].amount + TargetBalance[job[w].store]

SweepInv == SweepTyped /\ AmountFits

LEMMA StoresInOrder ==
    /\ \A i \in 1..Len(Order) : Order[i] \in Stores
    /\ Len(Order) \in Nat
    /\ \A s \in Stores : TargetBalance[s] \in Nat /\ MinBalance[s] \in Nat
                          /\ TargetBalance[s] < MinBalance[s]
  BY SweepsAssumption DEF Stores, ValidSweep

LEMMA SomeStore == Len(Order) \in Nat /\ Len(Order) >= 1
PROOF
  <1>1. PICK s \in Stores : Interval[s] = 1
    BY SweepsAssumption
  <1>2. PICK i \in DOMAIN Order : Order[i] = s
    BY <1>1 DEF Stores, Range
  <1>3. QED
    BY <1>2, StoresInOrder, SweepsAssumption

LEMMA Phases ==
    ASSUME NEW x \in {Idle} \cup Sweep
    PROVE  x.at \in {"reading", "sending", "recording"} <=> x \in Sweep
  BY DEF Idle, Sweep

LEMMA SweepStarts == Init => SweepInv
  BY StoresInOrder DEF Init, SweepInv, SweepTyped, AmountFits, Idle, Working

\* A wallet that gains, and sweeps that are not about to send, disturb nothing.
LEMMA Undisturbed ==
    ASSUME SweepInv, SweepTyped', \A s \in Stores : balance'[s] >= balance[s],
           \A w \in Workers : job'[w] = job[w] \/ job'[w].at /= "sending"
    PROVE  AmountFits'
PROOF
  <1>1. SUFFICES ASSUME NEW w \in Workers, Working(w, "sending")'
                 PROVE  balance'[job'[w].store] + job'[w].taken
                            >= job'[w].amount + TargetBalance[job'[w].store]
    BY DEF AmountFits
  <1>2. job'[w] = job[w] /\ Working(w, "sending")
    BY <1>1 DEF Working
  <1>3. job[w] \in Sweep
    BY <1>2, Phases DEF SweepInv, SweepTyped, Working
  <1>4. /\ job[w].store \in Stores /\ job[w].taken \in Nat /\ job[w].amount \in Nat
        /\ balance[job[w].store] \in Nat /\ balance'[job[w].store] \in Nat
    BY <1>3 DEF SweepInv, SweepTyped, Sweep
  <1>5. balance[job[w].store] + job[w].taken >= job[w].amount + TargetBalance[job[w].store]
    BY <1>2 DEF SweepInv, AmountFits
  <1>6. QED
    BY <1>2, <1>4, <1>5, StoresInOrder

\* What one takes from a wallet is noted with the others that have decided.
LEMMA TakeFits ==
    ASSUME SweepInv, NEW w, NEW s \in Stores, NEW n \in Nat, n <= balance[s],
           NEW done \in {Idle} \cup Sweep, done.at /= "sending", Take(w, s, n, done)
    PROVE  /\ balance' \in [Stores -> Nat]
           /\ job' \in [Workers -> {Idle} \cup Sweep]
           /\ AmountFits'
PROOF
  <1>1. balance' \in [Stores -> Nat] /\ balance'[s] = balance[s] - n
        /\ \A r \in Stores \ {s} : balance'[r] = balance[r]
    BY DEF Take, SweepInv, SweepTyped
  <1>2. \A v \in Workers : v /= w /\ Decided(v, s) =>
          /\ job[v] \in Sweep /\ job'[v] \in Sweep
          /\ job'[v].at = "sending" /\ job'[v].store = s /\ job'[v].amount = job[v].amount
          /\ job'[v].taken = job[v].taken + n
    <2>1. SUFFICES ASSUME NEW v \in Workers, v /= w, Decided(v, s)
                   PROVE  /\ job[v] \in Sweep /\ job'[v] \in Sweep
                          /\ job'[v].at = "sending" /\ job'[v].store = s
                          /\ job'[v].amount = job[v].amount
                          /\ job'[v].taken = job[v].taken + n
      OBVIOUS
    <2>2. job[v] \in Sweep
      BY <2>1, Phases DEF Decided, Working, SweepInv, SweepTyped
    <2>3. job'[v] = [job[v] EXCEPT !.taken = job[v].taken + n]
      BY <2>1 DEF Take
    <2>4. QED
      BY <2>1, <2>2, <2>3 DEF Sweep, Decided, Working
  <1>3. \A v \in Workers : v /= w /\ ~Decided(v, s) => job'[v] = job[v]
    BY DEF Take
  <1>4. \A v \in Workers : v = w => job'[v] = done
    BY DEF Take
  <1>5. job' \in [Workers -> {Idle} \cup Sweep]
    <2>1. \A v \in Workers : job'[v] \in {Idle} \cup Sweep
      BY <1>2, <1>3, <1>4 DEF SweepInv, SweepTyped
    <2>2. QED
      BY <2>1 DEF Take
  <1>6. AmountFits'
    <2>1. SUFFICES ASSUME NEW v \in Workers, job'[v].at = "sending"
                   PROVE  balance'[job'[v].store] + job'[v].taken
                            >= job'[v].amount + TargetBalance[job'[v].store]
      BY DEF AmountFits, Working
    <2>2. v /= w
      BY <1>4, <2>1
    <2>3. job[v].at = "sending" /\ job[v] \in Sweep
      BY <1>2, <1>3, <1>5, <2>1, <2>2, Phases DEF Decided, Working, SweepInv, SweepTyped
    <2>4. /\ job[v].store \in Stores /\ job[v].amount \in Nat /\ job[v].taken \in Nat
          /\ balance[job[v].store] + job[v].taken >= job[v].amount + TargetBalance[job[v].store]
      BY <2>3 DEF Sweep, SweepInv, AmountFits, Working
    <2>5. CASE job[v].store = s
      <3>1. /\ job'[v].store = s /\ job'[v].amount = job[v].amount
            /\ job'[v].taken = job[v].taken + n
        BY <1>2, <2>2, <2>3, <2>5 DEF Decided, Working
      <3>2. balance[s] \in Nat /\ TargetBalance[s] \in Nat
        BY StoresInOrder DEF SweepInv, SweepTyped
      <3>3. QED
        BY <1>1, <2>4, <2>5, <3>1, <3>2
    <2>6. CASE job[v].store /= s
      <3>1. job'[v] = job[v]
        BY <1>3, <2>2, <2>6 DEF Decided
      <3>2. QED
        BY <1>1, <2>4, <2>6, <3>1
    <2>7. QED
      BY <2>5, <2>6
  <1>7. QED
    BY <1>1, <1>5, <1>6

------------------------------------------------------------------------------
LEMMA PassTyped ==
    ASSUME SweepTyped, NEW w, NEW status, PassOn(w, status)
    PROVE  pass' \in 0..Len(Order)
  BY StoresInOrder DEF SweepTyped, PassOn, NextStore

LEMMA OutcomeTyped ==
    ASSUME NEW w, NEW s \in Stores, NEW n \in Nat,
           NEW status \in {"succeeded", "skipped", "failed"}
    PROVE  Outcome(w, s, n, status) \in {Idle} \cup Sweep
           /\ Outcome(w, s, n, status).at /= "sending"
  BY DEF Outcome, Job, Sweep, Idle

\* A sweep that ends without having sent.
LEMMA SettleStep ==
    ASSUME SweepInv, NEW w \in Workers, job[w] \in Sweep, NEW n \in Nat,
           NEW status \in {"succeeded", "skipped", "failed"}, Settle(w, n, status),
           UNCHANGED balance
    PROVE  SweepInv'
PROOF
  <1>1. job[w].store \in Stores
    BY DEF Sweep
  <1>2. SweepTyped'
    BY <1>1, OutcomeTyped, PassTyped DEF Settle, SweepInv, SweepTyped
  <1>3. \A v \in Workers : job'[v] = job[v] \/ job'[v].at /= "sending"
    BY <1>1, OutcomeTyped DEF Settle, SweepInv, SweepTyped
  <1>4. \A s \in Stores : balance'[s] >= balance[s]
    BY DEF SweepInv, SweepTyped
  <1>5. QED
    BY <1>2, <1>3, <1>4, Undisturbed DEF SweepInv

\* Money leaves a wallet by the hand of a sweep that has decided.
LEMMA SendStep ==
    ASSUME SweepInv, NEW w \in Workers, Working(w, "sending"),
           NEW n \in Nat, NEW status \in {"succeeded", "skipped", "failed"},
           job[w].amount <= balance[job[w].store],
           Take(w, job[w].store, job[w].amount, Outcome(w, job[w].store, n, status)),
           PassOn(w, status)
    PROVE  /\ SweepInv'
           /\ balance'[job[w].store] + job[w].taken >= TargetBalance[job[w].store]
           /\ \A v \in Workers \ {w} : job'[v].at = job[v].at
PROOF
  <1>1. /\ job[w] \in Sweep /\ job[w].store \in Stores
        /\ job[w].amount \in Nat /\ job[w].taken \in Nat
    BY Phases DEF Working, SweepInv, SweepTyped, Sweep
  <1>2. SweepInv'
    BY <1>1, TakeFits, OutcomeTyped, PassTyped DEF SweepInv, SweepTyped
  <1>3. balance[job[w].store] + job[w].taken >= job[w].amount + TargetBalance[job[w].store]
    BY DEF SweepInv, AmountFits
  <1>4. balance'[job[w].store] = balance[job[w].store] - job[w].amount
    BY <1>1 DEF Take, SweepInv, SweepTyped
  <1>5. balance[job[w].store] \in Nat /\ TargetBalance[job[w].store] \in Nat
    BY <1>1, StoresInOrder DEF SweepInv, SweepTyped
  <1>6. balance'[job[w].store] + job[w].taken >= TargetBalance[job[w].store]
    BY <1>1, <1>3, <1>4, <1>5
  <1>7. \A v \in Workers \ {w} : job'[v].at = job[v].at
    <2>1. SUFFICES ASSUME NEW v \in Workers \ {w}, Decided(v, job[w].store)
                   PROVE  job'[v].at = job[v].at
      BY DEF Take
    <2>2. job[v] \in Sweep
      BY <2>1, Phases DEF Decided, Working, SweepInv, SweepTyped
    <2>3. QED
      BY <2>1, <2>2 DEF Take, Sweep
  <1>8. QED
    BY <1>2, <1>6, <1>7

\* One step of KeepsTarget.
LeavesTarget ==
    \A w \in Workers :
        Working(w, "sending") /\ job'[w].at /= "sending" =>
            LET s == job[w].store
            IN balance'[s] < balance[s] => balance'[s] + job[w].taken >= TargetBalance[s]

\* A step that takes nothing leaves any target.
LEMMA NothingTaken ==
    ASSUME SweepInv, SweepInv', \A s \in Stores : balance'[s] >= balance[s]
    PROVE  LeavesTarget
PROOF
  <1>1. SUFFICES ASSUME NEW w \in Workers, Working(w, "sending")
                 PROVE  ~(balance'[job[w].store] < balance[job[w].store])
    BY DEF LeavesTarget
  <1>2. job[w].store \in Stores
    BY <1>1, Phases DEF Working, SweepInv, SweepTyped, Sweep
  <1>3. balance[job[w].store] \in Nat /\ balance'[job[w].store] \in Nat
    BY <1>2 DEF SweepInv, SweepTyped
  <1>4. balance'[job[w].store] >= balance[job[w].store]
    BY <1>2
  <1>5. QED
    BY <1>3, <1>4

LEMMA SweepSteps == ASSUME SweepInv, [Next]_vars PROVE SweepInv' /\ LeavesTarget
PROOF
  <1> DEFINE Statuses == {"succeeded", "skipped", "failed"}
  <1>a. ASSUME UNCHANGED balance
        PROVE  \A s \in Stores : balance'[s] >= balance[s]
    BY <1>a DEF SweepInv, SweepTyped
  \* Steps that leave the wallets alone, and no new sweep about to send.
  <1>b. ASSUME UNCHANGED balance, pass' \in 0..Len(Order),
               NEW w \in Workers, NEW done \in {Idle} \cup Sweep, done.at /= "sending",
               job' = [job EXCEPT ![w] = done]
        PROVE  SweepInv' /\ LeavesTarget
    <2>1. SweepTyped' /\ \A v \in Workers : job'[v] = job[v] \/ job'[v].at /= "sending"
      BY <1>b DEF SweepInv, SweepTyped
    <2>2. QED
      BY <1>a, <1>b, <2>1, Undisturbed, NothingTaken DEF SweepInv
  <1>1. ASSUME NEW s \in Stores, NEW n \in Deposits, Deposit(s, n)
        PROVE  SweepInv' /\ LeavesTarget
    <2>1. n \in Nat
      BY SweepsAssumption
    <2>2. balance' \in [Stores -> Nat] /\ \A r \in Stores : balance'[r] >= balance[r]
      BY <1>1, <2>1 DEF Deposit, SweepInv, SweepTyped
    <2>3. SweepTyped' /\ UNCHANGED job
      BY <1>1, <2>2 DEF Deposit, SweepInv, SweepTyped
    <2>4. QED
      BY <2>2, <2>3, Undisturbed, NothingTaken DEF SweepInv
  <1>2. ASSUME NEW s \in Stores, NEW n \in Deposits, Payout(s, n)
        PROVE  SweepInv' /\ LeavesTarget
    <2>1. n \in Nat
      BY SweepsAssumption
    <2>2. n <= balance[s] /\ Take(Payer, s, n, Idle) /\ UNCHANGED pass
      BY <1>2 DEF Payout
    <2>3. Idle.at /= "sending"
      BY DEF Idle
    <2>4. SweepInv'
      BY <2>1, <2>2, <2>3, TakeFits DEF SweepInv, SweepTyped
    <2>5. \A w \in Workers : Working(w, "sending") => job'[w].at = "sending"
      <3>1. SUFFICES ASSUME NEW w \in Workers, Working(w, "sending")
                     PROVE  job'[w].at = "sending"
        OBVIOUS
      <3>2. job[w] \in Sweep /\ w /= Payer
        BY <3>1, Phases, SweepsAssumption DEF Working, SweepInv, SweepTyped, Workers
      <3>3. QED
        BY <2>2, <3>1, <3>2 DEF Take, Sweep, Working
    <2>6. QED
      BY <2>4, <2>5 DEF LeavesTarget
  <1>3. ASSUME NEW w \in Workers, SweepStep(w) \/ Fails(w) \/ AnswerLost(w)
        PROVE  SweepInv' /\ LeavesTarget
    <2>1. job[w] \in Sweep
      <3>1. job[w].at \in {"reading", "sending"}
        BY <1>3 DEF SweepStep, ReadBalance, Send, Refused, Fails, AnswerLost, Working
      <3>2. QED
        BY <3>1, Phases DEF SweepInv, SweepTyped
    <2>2. CASE ReadBalance(w)
      <3> DEFINE s == job[w].store
                 amount == SweepAmount(s, balance[s])
      <3>1. s \in Stores /\ balance[s] \in Nat
        BY <2>1 DEF Sweep, SweepInv, SweepTyped
      <3>2. amount \in Nat /\ (amount /= 0 => balance[s] = amount + TargetBalance[s])
        BY <3>1, StoresInOrder DEF SweepAmount
      <3>3. UNCHANGED balance
        BY <2>2 DEF ReadBalance
      <3>4. CASE amount = 0
        <4>1. Settle(w, 0, "skipped")
          BY <2>2, <3>4 DEF ReadBalance
        <4>2. QED
          BY <1>a, <2>1, <3>3, <4>1, SettleStep, NothingTaken
      <3>5. CASE amount /= 0
        <4>1. /\ job' = [job EXCEPT ![w] = Job("sending", s, amount, 0, "succeeded")]
              /\ UNCHANGED pass
          BY <2>2, <3>5 DEF ReadBalance
        <4>2. Job("sending", s, amount, 0, "succeeded") \in Sweep
          BY <3>1, <3>2 DEF Job, Sweep
        <4>3. SweepTyped'
          BY <3>3, <4>1, <4>2 DEF SweepInv, SweepTyped
        <4>4. AmountFits'
          <5>1. SUFFICES ASSUME NEW v \in Workers, job'[v].at = "sending"
                         PROVE  balance'[job'[v].store] + job'[v].taken
                                  >= job'[v].amount + TargetBalance[job'[v].store]
            BY DEF AmountFits, Working
          <5>2. CASE v = w
            <6>1. job'[v] = Job("sending", s, amount, 0, "succeeded")
              BY <4>1, <5>2 DEF SweepInv, SweepTyped
            <6>2. job'[v].store = s /\ job'[v].amount = amount /\ job'[v].taken = 0
              BY <6>1 DEF Job
            <6>3. TargetBalance[s] \in Nat
              BY <3>1, StoresInOrder
            <6>4. QED
              BY <3>1, <3>2, <3>3, <3>5, <6>2, <6>3
          <5>3. CASE v /= w
            <6>1. job'[v] = job[v]
              BY <4>1, <5>3 DEF SweepInv, SweepTyped
            <6>2. QED
              BY <3>3, <5>1, <6>1 DEF SweepInv, AmountFits, Working
          <5>4. QED
            BY <5>2, <5>3
        <4>5. QED
          BY <1>a, <3>3, <4>3, <4>4, NothingTaken DEF SweepInv
      <3>6. QED
        BY <3>4, <3>5
    <2>3. CASE Refused(w) \/ Fails(w)
      <3>1. Settle(w, 0, "failed") /\ UNCHANGED balance
        BY <2>3 DEF Refused, Fails
      <3>2. QED
        BY <1>a, <2>1, <3>1, SettleStep, NothingTaken
    <2>4. CASE Send(w) \/ AnswerLost(w)
      <3>1. PICK n \in Nat, status \in Statuses :
              /\ Take(w, job[w].store, job[w].amount, Outcome(w, job[w].store, n, status))
              /\ PassOn(w, status)
        BY <2>1, <2>4 DEF Send, AnswerLost, Sweep
      <3>2. Working(w, "sending") /\ job[w].amount <= balance[job[w].store]
        BY <2>4 DEF Send, AnswerLost
      <3>3. /\ SweepInv'
            /\ balance'[job[w].store] + job[w].taken >= TargetBalance[job[w].store]
            /\ \A v \in Workers \ {w} : job'[v].at = job[v].at
        BY <3>1, <3>2, SendStep
      <3>4. QED
        BY <3>3 DEF LeavesTarget, Working
    <2>5. QED
      BY <1>3, <2>2, <2>3, <2>4 DEF SweepStep
  <1>4. ASSUME Tick \/ SkipStore
        PROVE  SweepInv' /\ LeavesTarget
    <2>1. UNCHANGED <<balance, job>> /\ pass' \in 0..Len(Order)
      <3>1. CASE Tick
        <4>1. 1 \in 0..Len(Order)
          BY SomeStore
        <4>2. QED
          BY <3>1, <4>1 DEF Tick
      <3>2. CASE SkipStore
        <4>1. pass \in Nat /\ pass <= Len(Order)
          BY StoresInOrder DEF SweepInv, SweepTyped
        <4>2. QED
          BY <3>2, <4>1, StoresInOrder DEF SkipStore, NextStore
      <3>3. QED
        BY <1>4, <3>1, <3>2
    <2>2. SweepTyped'
      BY <2>1 DEF SweepInv, SweepTyped
    <2>3. QED
      BY <1>a, <2>1, <2>2, Undisturbed, NothingTaken DEF SweepInv
  <1>5. ASSUME TakeStore
        PROVE  SweepInv' /\ LeavesTarget
    <2>1. Order[pass] \in Stores /\ Loop \in Workers
      BY <1>5, StoresInOrder DEF TakeStore, SweepInv, SweepTyped, Workers
    <2>2. Job("reading", Order[pass], 0, 0, "skipped") \in Sweep
      BY <2>1 DEF Job, Sweep
    <2>3. Job("reading", Order[pass], 0, 0, "skipped").at /= "sending"
      BY DEF Job
    <2>4. /\ job' = [job EXCEPT ![Loop] = Job("reading", Order[pass], 0, 0, "skipped")]
          /\ UNCHANGED <<balance, pass>> /\ pass' \in 0..Len(Order)
      BY <1>5 DEF TakeStore, SweepInv, SweepTyped
    <2>5. QED
      BY <1>b, <2>1, <2>2, <2>3, <2>4
  <1>6. ASSUME StopLoop
        PROVE  SweepInv' /\ LeavesTarget
    <2>1. /\ job' = [job EXCEPT ![Loop] = Idle]
          /\ UNCHANGED balance /\ pass' \in 0..Len(Order)
      BY <1>6, SomeStore DEF StopLoop
    <2>2. Idle.at /= "sending" /\ Loop \in Workers
      BY DEF Idle, Workers
    <2>3. QED
      BY <1>b, <2>1, <2>2
  <1>7. ASSUME NEW r \in Servers, NEW s \in Stores, AskSweep(r, s)
        PROVE  SweepInv' /\ LeavesTarget
    <2>1. Job("reading", s, 0, 0, "skipped") \in Sweep
      BY DEF Job, Sweep
    <2>2. QED
      BY <1>7, <1>b, <2>1 DEF AskSweep, Job, Workers, SweepInv, SweepTyped
  <1>8. ASSUME NEW r \in Servers, InsertRecord(r) \/ Forget(r)
        PROVE  SweepInv' /\ LeavesTarget
    <2>1. /\ job' = [job EXCEPT ![r] = Idle]
          /\ UNCHANGED <<balance, pass>> /\ pass' \in 0..Len(Order)
      BY <1>8 DEF InsertRecord, Forget, SweepInv, SweepTyped
    <2>2. Idle.at /= "sending" /\ r \in Workers
      BY DEF Idle, Workers
    <2>3. QED
      BY <1>b, <2>1, <2>2
  <1>9. CASE UNCHANGED vars
    <2>1. UNCHANGED <<balance, job, pass>>
      BY <1>9 DEF vars
    <2>2. SweepTyped'
      BY <2>1 DEF SweepInv, SweepTyped
    <2>3. QED
      BY <1>a, <2>1, <2>2, Undisturbed, NothingTaken DEF SweepInv
  <1>10. QED
    <2>1. Loop \in Workers
      BY DEF Workers
    <2>2. QED
      BY <1>1, <1>2, <1>3, <1>4, <1>5, <1>6, <1>7, <1>8, <1>9, <2>1 DEF Next, LoopStep

\* A sweep leaves the target in the wallet but for what other sweeps, and payouts of
\* refunds, took since it read the balance, for any number of servers, stores and
\* amounts (sweep_to_address, lightning_sweep_once, create_lightning_sweep).
THEOREM SweepsKeepTarget == Spec => KeepsTarget
PROOF
  <1>1. SweepInv /\ [Next]_vars => SweepInv' /\ [LeavesTarget]_vars
    BY SweepSteps
  <1>2. LeavesTarget <=>
          \A w \in Workers :
            Working(w, "sending") /\ job'[w].at /= "sending" =>
              LET s == job[w].store
              IN balance'[s] < balance[s] => balance'[s] + job[w].taken >= TargetBalance[s]
    BY DEF LeavesTarget
  <1>3. QED
    BY SweepStarts, <1>1, <1>2, PTL DEF Spec, KeepsTarget
------------------------------------------------------------------------------
(* What the records account for                                            *)

Record == [store : Stores, status : {"succeeded", "skipped", "failed"},
           amount : 0..MaxBalance]

\* What a wallet lost to requests it once held, and so it is with what others took
\* since a sweep read it: no amount is above what was ever received.
MoneyFits ==
    /\ received \in [Stores -> 0..MaxBalance]
    /\ sent \in [Stores -> Nat] /\ unrecorded \in [Stores -> Nat]
    /\ \A s \in Stores : balance[s] + sent[s] <= received[s]
    /\ \A w \in Workers :
          /\ Working(w, "sending") =>
                balance[job[w].store] + job[w].taken <= received[job[w].store]
          /\ job[w] /= Idle => {job[w].amount, job[w].taken} \subseteq 0..MaxBalance

Books == /\ records \in Seq(Record) /\ SentIsRecorded

MoneyInv == SweepInv /\ MoneyFits /\ Books

\* Every job other than w's is as it was, or on its way to send as before.
OthersGoOn(w) ==
    \A v \in Workers \ {w} :
        \/ job'[v] = job[v]
        \/ /\ job[v].at = "sending" /\ job'[v].at = "sending"
           /\ job'[v].store = job[v].store /\ job'[v].amount = job[v].amount

LEMMA DueTypes ==
    ASSUME SweepTyped, NEW s \in Stores
    PROVE  /\ \A r \in Servers : Due(s)[r] \in Nat
           /\ InFlight(s) = SumFunctionOnSet(Due(s), Servers) /\ InFlight(s) \in Nat
           /\ IsFiniteSet(Servers)
PROOF
  <1>1. ASSUME NEW r \in Servers PROVE Due(s)[r] \in Nat
    <2>1. Working(r, "recording") => job[r] \in Sweep
      BY Phases DEF Working, SweepTyped, Workers
    <2>2. QED
      BY <2>1 DEF Due, Sweep
  <1>2. IsFiniteSet(Servers)
    BY SweepsAssumption
  <1>3. InFlight(s) = SumFunctionOnSet(Due(s), Servers)
    BY DEF InFlight, SumFunction, Due
  <1>4. QED
    BY <1>1, <1>2, <1>3, SumIsNat

\* What is in flight changes by what the one server that moves has to write.
LEMMA FlightMoves ==
    ASSUME SweepTyped, SweepTyped', NEW w, OthersGoOn(w), NEW s \in Stores
    PROVE  /\ InFlight(s)' \in Nat
           /\ w \notin Servers => InFlight(s)' = InFlight(s)
           /\ w \in Servers => InFlight(s)' + Due(s)[w] = InFlight(s) + Due(s)'[w]
           /\ w \in Servers => Due(s)[w] \in Nat /\ Due(s)'[w] \in Nat
PROOF
  <1>1. ASSUME NEW r \in Servers, r /= w
        PROVE  Due(s)'[r] = Due(s)[r]
    <2>1. r \in Workers \ {w}
      BY <1>1 DEF Workers
    <2>2. CASE job'[r] = job[r]
      BY <2>2 DEF Due, Working
    <2>3. CASE job[r].at = "sending" /\ job'[r].at = "sending"
      BY <2>3 DEF Due, Working
    <2>4. QED
      BY <2>1, <2>2, <2>3 DEF OthersGoOn
  <1>2. /\ \A r \in Servers : Due(s)[r] \in Nat
        /\ InFlight(s) = SumFunctionOnSet(Due(s), Servers) /\ InFlight(s) \in Nat
        /\ IsFiniteSet(Servers)
    BY DueTypes
  <1>3. ASSUME NEW r \in Servers PROVE Due(s)'[r] \in Nat
    <2>1. job'[r].at = "recording" => job'[r] \in Sweep
      BY Phases DEF SweepTyped, Workers
    <2>2. QED
      BY <2>1 DEF Due, Working, Sweep
  <1>4. InFlight(s)' = SumFunctionOnSet(Due(s)', Servers)
    BY DEF InFlight, SumFunction, Due
  <1>5. InFlight(s)' \in Nat
    BY <1>2, <1>3, <1>4, SumIsNat
  <1>6. CASE w \notin Servers
    <2>1. Due(s)' = Due(s)
      BY <1>1, <1>6 DEF Due
    <2>2. QED
      BY <1>2, <1>4, <1>6, <2>1
  <1>7. CASE w \in Servers
    <2>1. /\ SumFunctionOnSet(Due(s), Servers) = Due(s)[w] + SumFunctionOnSet(Due(s), Servers \ {w})
          /\ SumFunctionOnSet(Due(s)', Servers)
                = Due(s)'[w] + SumFunctionOnSet(Due(s)', Servers \ {w})
      BY <1>2, <1>3, <1>7, SumTakesOut
    <2>2. SumFunctionOnSet(Due(s), Servers \ {w}) = SumFunctionOnSet(Due(s)', Servers \ {w})
      <3>1. IsFiniteSet(Servers \ {w})
        BY <1>2, FS_Subset
      <3>2. QED
        BY <1>1, <1>2, <3>1, SumIsExtensional
    <2>3. SumFunctionOnSet(Due(s), Servers \ {w}) \in Nat
      BY <1>2, FS_Subset, SumIsNat
    <2>4. Due(s)[w] \in Nat /\ Due(s)'[w] \in Nat
      BY <1>2, <1>3, <1>7
    <2>5. QED
      BY <1>2, <1>4, <1>7, <2>1, <2>2, <2>3, <2>4
  <1>8. QED
    BY <1>5, <1>6, <1>7

LEMMA NotedTypes ==
    ASSUME records \in Seq(Record), NEW s \in Stores
    PROVE  /\ DOMAIN records = 1..Len(records) /\ IsFiniteSet(DOMAIN records)
           /\ \A i \in DOMAIN records : Noted(s)[i] \in Nat
           /\ Recorded(s) = SumFunctionOnSet(Noted(s), DOMAIN records)
           /\ Recorded(s) \in Nat
PROOF
  <1>1. DOMAIN records = 1..Len(records) /\ Len(records) \in Nat
    OBVIOUS
  <1>2. IsFiniteSet(DOMAIN records)
    BY <1>1, FS_Interval
  <1>3. ASSUME NEW i \in DOMAIN records PROVE Noted(s)[i] \in Nat
    <2>1. records[i] \in Record
      BY <1>1, <1>3
    <2>2. records[i].amount \in Nat
      BY <2>1, SweepsAssumption DEF Record
    <2>3. QED
      BY <1>3, <2>2 DEF Noted
  <1>4. Recorded(s) = SumFunctionOnSet(Noted(s), DOMAIN records)
    BY DEF Recorded, SumFunction, Noted
  <1>5. QED
    BY <1>1, <1>2, <1>3, <1>4, SumIsNat

\* A record adds its amount to its store's.
LEMMA RecordAdds ==
    ASSUME records \in Seq(Record), NEW new \in Record, records' = Append(records, new),
           NEW s \in Stores
    PROVE  /\ records' \in Seq(Record)
           /\ Recorded(s)' = Recorded(s) + (IF new.store = s THEN new.amount ELSE 0)
PROOF
  <1> DEFINE n == Len(records) + 1
             amount == IF new.store = s THEN new.amount ELSE 0
  <1>1. /\ records' \in Seq(Record) /\ n \in Nat
        /\ DOMAIN records' = DOMAIN records \cup {n} /\ n \notin DOMAIN records
        /\ records'[n] = new /\ \A i \in DOMAIN records : records'[i] = records[i]
    <2>1. Len(records') = n /\ n \in Nat
      OBVIOUS
    <2>2. DOMAIN records = 1..Len(records) /\ DOMAIN records' = 1..n
      BY <2>1
    <2>3. 1..n = 1..Len(records) \cup {n} /\ n \notin 1..Len(records)
      OBVIOUS
    <2>4. QED
      BY <2>1, <2>2, <2>3
  <1>2. /\ IsFiniteSet(DOMAIN records)
        /\ \A i \in DOMAIN records : Noted(s)[i] \in Nat
        /\ Recorded(s) = SumFunctionOnSet(Noted(s), DOMAIN records)
        /\ Recorded(s) \in Nat
    BY NotedTypes
  <1>3. \A i \in DOMAIN records : Noted(s)'[i] = Noted(s)[i]
    BY <1>1 DEF Noted
  <1>4. Noted(s)'[n] = amount /\ amount \in Nat
    <2>1. new.amount \in Nat
      BY SweepsAssumption DEF Record
    <2>2. QED
      BY <1>1, <2>1 DEF Noted
  <1>5. Recorded(s)' = SumFunctionOnSet(Noted(s)', DOMAIN records \cup {n})
    BY <1>1 DEF Recorded, SumFunction, Noted
  <1> HIDE DEF n, amount
  <1>6. SumFunctionOnSet(Noted(s)', DOMAIN records \cup {n})
            = Noted(s)'[n] + SumFunctionOnSet(Noted(s)', DOMAIN records)
    <2>1. \A i \in DOMAIN records \cup {n} : Noted(s)'[i] \in Nat
      BY <1>2, <1>3, <1>4
    <2>2. QED
      BY <1>1, <1>2, <2>1, SumAdds
  <1>7. SumFunctionOnSet(Noted(s), DOMAIN records) = SumFunctionOnSet(Noted(s)', DOMAIN records)
    BY <1>2, <1>3, SumIsExtensional
  <1>8. Recorded(s)' = Recorded(s) + amount
    BY <1>2, <1>4, <1>5, <1>6, <1>7
  <1>9. QED
    BY <1>1, <1>8 DEF amount

\* What the books need of one step, whoever of the workers moves.
LEMMA BooksBalance ==
    ASSUME MoneyInv, SweepInv', MoneyFits', NEW w, OthersGoOn(w), records' = records,
           \A s \in Stores :
              /\ w \notin Servers => sent'[s] + unrecorded[s] = sent[s] + unrecorded'[s]
              /\ w \in Servers => sent'[s] + unrecorded[s] + Due(s)[w]
                                    = sent[s] + unrecorded'[s] + Due(s)'[w]
    PROVE  Books'
PROOF
  <1>1. ASSUME NEW s \in Stores
        PROVE  sent'[s] = Recorded(s)' + InFlight(s)' + unrecorded'[s]
    <2>1. Recorded(s) \in Nat /\ InFlight(s) \in Nat
      BY NotedTypes, DueTypes DEF MoneyInv, Books, SweepInv
    <2>2. Recorded(s)' = Recorded(s)
      BY DEF Recorded, Noted
    <2>3. sent[s] = Recorded(s) + InFlight(s) + unrecorded[s]
      BY DEF MoneyInv, Books, SentIsRecorded
    <2>4. /\ sent[s] \in Nat /\ sent'[s] \in Nat
          /\ unrecorded[s] \in Nat /\ unrecorded'[s] \in Nat
      BY DEF MoneyInv, MoneyFits
    <2>5. SweepTyped /\ SweepTyped'
      BY DEF MoneyInv, SweepInv
    <2>6. CASE w \notin Servers
      <3>1. InFlight(s)' = InFlight(s)
        BY <2>5, <2>6, FlightMoves
      <3>2. QED
        BY <2>1, <2>2, <2>3, <2>4, <2>6, <3>1
    <2>7. CASE w \in Servers
      <3>1. /\ InFlight(s)' + Due(s)[w] = InFlight(s) + Due(s)'[w]
            /\ Due(s)[w] \in Nat /\ Due(s)'[w] \in Nat
        BY <2>5, <2>7, FlightMoves
      <3>2. InFlight(s)' \in Nat
        BY <2>5, FlightMoves
      <3>3. QED
        BY <2>1, <2>2, <2>3, <2>4, <2>7, <3>1, <3>2
    <2>8. QED
      BY <2>6, <2>7
  <1>2. records' \in Seq(Record)
    BY DEF MoneyInv, Books
  <1>3. QED
    BY <1>1, <1>2 DEF Books, SentIsRecorded

\* Amounts stay within what was received while no wallet loses any.
LEMMA JobKeepsMoney ==
    ASSUME SweepInv, MoneyFits, NEW w \in Workers, NEW done \in {Idle} \cup Sweep,
           job' = [job EXCEPT ![w] = done],
           done /= Idle => {done.amount, done.taken} \subseteq 0..MaxBalance,
           done.at = "sending" => balance[done.store] + done.taken <= received[done.store],
           UNCHANGED <<balance, received, sent>>, unrecorded' \in [Stores -> Nat]
    PROVE  MoneyFits' /\ OthersGoOn(w)
PROOF
  <1>1. job'[w] = done /\ \A v \in Workers \ {w} : job'[v] = job[v]
    BY DEF SweepInv, SweepTyped
  <1>2. QED
    BY <1>1 DEF MoneyFits, OthersGoOn, Working

\* What one takes from a wallet counts with those that have decided.
LEMMA TakeKeepsMoney ==
    ASSUME SweepInv, SweepInv', MoneyFits, NEW w, NEW s \in Stores, NEW n \in Nat,
           n <= balance[s], NEW done \in {Idle} \cup Sweep, done.at /= "sending",
           done /= Idle => {done.amount, done.taken} \subseteq 0..MaxBalance,
           Take(w, s, n, done), UNCHANGED received,
           sent' \in [Stores -> Nat], unrecorded' \in [Stores -> Nat],
           sent'[s] <= sent[s] + n, \A r \in Stores \ {s} : sent'[r] = sent[r]
    PROVE  MoneyFits' /\ OthersGoOn(w)
PROOF
  <1>1. /\ balance'[s] = balance[s] - n /\ \A r \in Stores \ {s} : balance'[r] = balance[r]
        /\ \A r \in Stores : balance[r] \in Nat /\ balance'[r] \in Nat
        /\ \A r \in Stores : received'[r] = received[r] /\ received[r] \in 0..MaxBalance
        /\ \A r \in Stores : sent[r] \in Nat /\ sent'[r] \in Nat
        /\ MaxBalance \in Nat
    BY SweepsAssumption DEF Take, SweepInv, SweepTyped, MoneyFits
  <1>2. ASSUME NEW v \in Workers, v /= w, Decided(v, s)
        PROVE  /\ job[v] \in Sweep /\ job'[v].at = "sending" /\ job'[v].store = s
               /\ job'[v].amount = job[v].amount
               /\ job'[v].taken = job[v].taken + n
    <2>1. job[v] \in Sweep
      BY <1>2, Phases DEF Decided, Working, SweepInv, SweepTyped
    <2>2. job'[v] = [job[v] EXCEPT !.taken = job[v].taken + n]
      BY <1>2 DEF Take
    <2>3. QED
      BY <1>2, <2>1, <2>2 DEF Sweep, Decided, Working
  <1>3. ASSUME NEW v \in Workers, v /= w, ~Decided(v, s)
        PROVE  job'[v] = job[v]
    BY <1>3 DEF Take
  <1>4. ASSUME NEW v \in Workers, v = w PROVE job'[v] = done
    BY <1>4 DEF Take
  <1>5. OthersGoOn(w)
    BY <1>2, <1>3 DEF OthersGoOn, Decided, Working
  <1>6. ASSUME NEW r \in Stores PROVE balance'[r] + sent'[r] <= received'[r]
    <2>1. balance[r] + sent[r] <= received[r]
      BY DEF MoneyFits
    <2>2. QED
      BY <1>1, <2>1
  <1>7. ASSUME NEW v \in Workers, job'[v] /= Idle
        PROVE  /\ {job'[v].amount, job'[v].taken} \subseteq 0..MaxBalance
               /\ job'[v].at = "sending" =>
                     balance'[job'[v].store] + job'[v].taken <= received'[job'[v].store]
    <2>1. CASE v = w
      BY <1>4, <1>7, <2>1
    <2>2. CASE v /= w /\ Decided(v, s)
      <3>1. /\ job[v] /= Idle /\ job[v].taken \in Nat /\ job[v].store = s
            /\ balance[s] + job[v].taken <= received[s]
        BY <1>2, <2>2 DEF MoneyFits, Decided, Sweep, Idle, Working
      <3>2. balance'[s] + job'[v].taken <= received[s]
        BY <1>1, <1>2, <2>2, <3>1
      <3>3. job'[v].taken \in 0..MaxBalance
        BY <1>1, <1>2, <2>2, <3>1, <3>2
      <3>4. QED
        BY <1>1, <1>2, <2>2, <3>1, <3>2, <3>3 DEF MoneyFits
    <2>3. CASE v /= w /\ ~Decided(v, s)
      <3>1. job'[v] = job[v]
        BY <1>3, <2>3
      <3>2. job[v] \in Sweep
        BY <1>7, <3>1 DEF SweepInv, SweepTyped
      <3>3. QED
        BY <1>1, <1>7, <2>3, <3>1, <3>2 DEF MoneyFits, Decided, Working, Sweep
    <2>4. QED
      BY <2>1, <2>2, <2>3
  <1>8. ASSUME NEW v \in Workers, job'[v].at = "sending" PROVE job'[v] /= Idle
    BY <1>8 DEF Idle
  <1>9. QED
    BY <1>1, <1>5, <1>6, <1>7, <1>8 DEF MoneyFits, Working

\* What a server is to write once its sweep is over.
LEMMA OutcomeIsDue ==
    ASSUME SweepTyped, NEW w \in Workers, job[w].at \in {"reading", "sending"},
           NEW n \in Nat, NEW status, NEW s \in Stores,
           job'[w] = Outcome(w, job[w].store, n, status)
    PROVE  /\ w = Loop <=> w \notin Servers
           /\ w \in Servers => /\ Due(s)[w] = 0
                               /\ Due(s)'[w] = IF job[w].store = s THEN n ELSE 0
PROOF
  <1>1. w = Loop <=> w \notin Servers
    BY SweepsAssumption DEF Workers
  <1>2. ASSUME w \in Servers
        PROVE  Due(s)[w] = 0 /\ Due(s)'[w] = IF job[w].store = s THEN n ELSE 0
    <2>1. job'[w] = Job("recording", job[w].store, n, 0, status)
      BY <1>1, <1>2 DEF Outcome
    <2>2. job'[w].at = "recording" /\ job'[w].store = job[w].store /\ job'[w].amount = n
      BY <2>1 DEF Job
    <2>3. QED
      BY <1>2, <2>2 DEF Due, Working
  <1>3. QED
    BY <1>1, <1>2

\* A sweep that ends without having sent leaves nothing to account for.
LEMMA SettleKeepsMoney ==
    ASSUME MoneyInv, SweepInv', NEW w \in Workers, job[w].at \in {"reading", "sending"},
           NEW status \in {"succeeded", "skipped", "failed"}, Settle(w, 0, status),
           UNCHANGED <<balance, received, sent, unrecorded, records>>
    PROVE  MoneyFits' /\ Books'
PROOF
  <1> DEFINE done == Outcome(w, job[w].store, 0, status)
  <1>1. job[w] \in Sweep /\ job[w].store \in Stores
    BY Phases DEF MoneyInv, SweepInv, SweepTyped, Sweep
  <1>2. done \in {Idle} \cup Sweep /\ done.at /= "sending"
    BY <1>1, OutcomeTyped
  <1>3. done /= Idle => {done.amount, done.taken} \subseteq 0..MaxBalance
    BY SweepsAssumption DEF Outcome, Job
  <1>4. job' = [job EXCEPT ![w] = done] /\ job'[w] = done
    BY DEF Settle, MoneyInv, SweepInv, SweepTyped
  <1>5. unrecorded' \in [Stores -> Nat]
    BY DEF MoneyInv, MoneyFits
  <1>6. MoneyFits' /\ OthersGoOn(w)
    BY <1>2, <1>3, <1>4, <1>5, JobKeepsMoney DEF MoneyInv
  <1>7. ASSUME NEW s \in Stores
        PROVE  w \in Servers => Due(s)[w] = 0 /\ Due(s)'[w] = 0
    BY <1>4, OutcomeIsDue DEF MoneyInv, SweepInv
  <1>8. QED
    BY <1>6, <1>7, BooksBalance

\* A job that neither was nor is to be recorded leaves the books alone.
LEMMA QuietJobKeepsMoney ==
    ASSUME MoneyInv, SweepInv', NEW w \in Workers, NEW done \in {Idle} \cup Sweep,
           job' = [job EXCEPT ![w] = done],
           job[w].at /= "recording" \/ w \notin Servers, done.at /= "recording",
           done /= Idle => {done.amount, done.taken} \subseteq 0..MaxBalance,
           done.at = "sending" => balance[done.store] + done.taken <= received[done.store],
           UNCHANGED <<balance, received, sent, unrecorded, records>>
    PROVE  MoneyFits' /\ Books'
PROOF
  <1>1. unrecorded' \in [Stores -> Nat]
    BY DEF MoneyInv, MoneyFits
  <1>2. MoneyFits' /\ OthersGoOn(w)
    BY <1>1, JobKeepsMoney DEF MoneyInv
  <1>3. job'[w] = done
    BY DEF MoneyInv, SweepInv, SweepTyped
  <1>4. ASSUME NEW s \in Stores
        PROVE  w \in Servers => Due(s)[w] = 0 /\ Due(s)'[w] = 0
    BY <1>3 DEF Due, Working
  <1>5. QED
    BY <1>2, <1>4, BooksBalance

\* What a request's sweep moved is in its hands, or counted as lost.
LEMMA SendKeepsMoney ==
    ASSUME MoneyInv, SweepInv', NEW w \in Workers, Send(w) \/ AnswerLost(w)
    PROVE  MoneyFits' /\ Books'
PROOF
  <1> DEFINE s == job[w].store
             n == job[w].amount
  <1>1. /\ job[w].at = "sending" /\ job[w] \in Sweep /\ job[w] /= Idle
        /\ s \in Stores /\ n \in Nat /\ n \in 0..MaxBalance
    BY Phases
       DEF Send, AnswerLost, Working, MoneyInv, MoneyFits, SweepInv, SweepTyped, Sweep, Idle
  <1>2. PICK written \in {0, n}, status \in {"succeeded", "skipped", "failed"} :
          /\ Take(w, s, n, Outcome(w, s, written, status))
          /\ sent' = IF w = Loop THEN sent ELSE [sent EXCEPT ![s] = @ + n]
          /\ unrecorded' = IF w = Loop \/ written = n THEN unrecorded
                           ELSE [unrecorded EXCEPT ![s] = @ + n]
          /\ written = 0 /\ n /= 0 => status = "failed"
    <2>1. CASE Send(w)
      BY <2>1 DEF Send
    <2>2. CASE AnswerLost(w) /\ n /= 0
      BY <2>2 DEF AnswerLost
    <2>3. CASE AnswerLost(w) /\ n = 0
      <3>1. unrecorded' = unrecorded
        BY <1>1, <2>3 DEF AnswerLost, MoneyInv, MoneyFits
      <3>2. QED
        BY <2>3, <3>1 DEF AnswerLost
    <2>4. QED
      BY <2>1, <2>2, <2>3
  <1>3. n <= balance[s] /\ UNCHANGED <<received, records>>
    BY DEF Send, AnswerLost
  <1> DEFINE done == Outcome(w, s, written, status)
  <1>4. done \in {Idle} \cup Sweep /\ done.at /= "sending"
    BY <1>1, OutcomeTyped
  <1>5. done /= Idle => {done.amount, done.taken} \subseteq 0..MaxBalance
    BY <1>1, SweepsAssumption DEF Outcome, Job
  <1>6. /\ sent \in [Stores -> Nat] /\ unrecorded \in [Stores -> Nat]
        /\ sent' \in [Stores -> Nat] /\ unrecorded' \in [Stores -> Nat]
        /\ sent'[s] = IF w = Loop THEN sent[s] ELSE sent[s] + n
        /\ unrecorded'[s] = IF w = Loop \/ written = n THEN unrecorded[s]
                            ELSE unrecorded[s] + n
        /\ \A r \in Stores \ {s} : sent'[r] = sent[r] /\ unrecorded'[r] = unrecorded[r]
    BY <1>1, <1>2 DEF MoneyInv, MoneyFits
  <1>7. job'[w] = done
    BY <1>2 DEF Take
  <1> HIDE DEF done
  <1>8. MoneyFits' /\ OthersGoOn(w)
    <2>1. sent'[s] <= sent[s] + n
      BY <1>1, <1>6
    <2>2. Take(w, s, n, done)
      BY <1>2 DEF done
    <2>3. QED
      BY <1>1, <1>3, <1>4, <1>5, <1>6, <2>1, <2>2, TakeKeepsMoney DEF MoneyInv
  <1>9. ASSUME NEW r \in Stores
        PROVE  /\ w \notin Servers => sent'[r] + unrecorded[r] = sent[r] + unrecorded'[r]
               /\ w \in Servers => sent'[r] + unrecorded[r] + Due(r)[w]
                                     = sent[r] + unrecorded'[r] + Due(r)'[w]
    <2>1. written \in Nat /\ SweepTyped
      BY <1>1 DEF MoneyInv, SweepInv
    <2>2. /\ w = Loop <=> w \notin Servers
          /\ w \in Servers => /\ Due(r)[w] = 0
                              /\ Due(r)'[w] = IF s = r THEN written ELSE 0
      BY <1>1, <1>7, <2>1, OutcomeIsDue DEF done
    <2>3. /\ sent[r] \in Nat /\ sent'[r] \in Nat
          /\ unrecorded[r] \in Nat /\ unrecorded'[r] \in Nat
      BY <1>6
    <2>4. CASE r = s
      BY <1>1, <1>6, <2>1, <2>2, <2>3, <2>4
    <2>5. CASE r /= s
      BY <1>6, <2>2, <2>3, <2>5
    <2>6. QED
      BY <2>4, <2>5
  <1>10. QED
    BY <1>3, <1>8, <1>9, BooksBalance

\* A record takes over what was in flight.
LEMMA InsertKeepsMoney ==
    ASSUME MoneyInv, SweepInv', NEW w \in Servers, InsertRecord(w)
    PROVE  MoneyFits' /\ Books'
PROOF
  <1> DEFINE new == [store |-> job[w].store, status |-> job[w].status,
                     amount |-> job[w].amount]
  <1>1. w \in Workers /\ SweepTyped /\ SweepTyped'
    BY DEF Workers, MoneyInv, SweepInv
  <1>2. job[w].at = "recording" /\ job[w] \in Sweep /\ job[w] /= Idle
    BY <1>1, Phases DEF InsertRecord, Working, SweepTyped, Idle
  <1>3. new \in Record /\ job[w].store \in Stores /\ job[w].amount \in Nat
    BY <1>1, <1>2 DEF Record, Sweep, MoneyInv, MoneyFits
  <1>4. /\ job' = [job EXCEPT ![w] = Idle] /\ job'[w] = Idle
        /\ Idle.at /= "sending" /\ Idle.at /= "recording"
        /\ UNCHANGED <<balance, received, sent, unrecorded>>
        /\ records' = Append(records, new)
    BY <1>1 DEF InsertRecord, SweepTyped, Idle
  <1>5. MoneyFits' /\ OthersGoOn(w)
    <2>1. unrecorded' \in [Stores -> Nat]
      BY <1>4 DEF MoneyInv, MoneyFits
    <2>2. QED
      BY <1>1, <1>4, <2>1, JobKeepsMoney DEF MoneyInv
  <1>6. ASSUME NEW s \in Stores
        PROVE  sent'[s] = Recorded(s)' + InFlight(s)' + unrecorded'[s]
    <2>1. Recorded(s)' = Recorded(s) + (IF job[w].store = s THEN job[w].amount ELSE 0)
      BY <1>3, <1>4, RecordAdds DEF MoneyInv, Books
    <2>2. /\ InFlight(s)' + Due(s)[w] = InFlight(s) + Due(s)'[w]
          /\ InFlight(s)' \in Nat
      BY <1>1, <1>5, FlightMoves
    <2>3. /\ Due(s)[w] = IF job[w].store = s THEN job[w].amount ELSE 0
          /\ Due(s)'[w] = 0
      BY <1>2, <1>4 DEF Due, Working
    <2>4. sent[s] = Recorded(s) + InFlight(s) + unrecorded[s]
      BY DEF MoneyInv, Books, SentIsRecorded
    <2>5. /\ Recorded(s) \in Nat /\ InFlight(s) \in Nat
          /\ unrecorded[s] \in Nat /\ sent[s] \in Nat
      BY <1>1, NotedTypes, DueTypes DEF MoneyInv, MoneyFits, Books
    <2>6. sent'[s] = sent[s] /\ unrecorded'[s] = unrecorded[s]
      BY <1>4
    <2>7. CASE job[w].store = s
      BY <1>3, <2>1, <2>2, <2>3, <2>4, <2>5, <2>6, <2>7
    <2>8. CASE job[w].store /= s
      BY <2>1, <2>2, <2>3, <2>4, <2>5, <2>6, <2>8
    <2>9. QED
      BY <2>7, <2>8
  <1>7. records' \in Seq(Record)
    BY <1>3, <1>4 DEF MoneyInv, Books
  <1>8. QED
    BY <1>5, <1>6, <1>7 DEF Books, SentIsRecorded

\* What a stopped server had in flight is counted as lost.
LEMMA ForgetKeepsMoney ==
    ASSUME MoneyInv, SweepInv', NEW w \in Servers, Forget(w)
    PROVE  MoneyFits' /\ Books'
PROOF
  <1>1. w \in Workers /\ SweepTyped
    BY DEF Workers, MoneyInv, SweepInv
  <1>2. /\ job' = [job EXCEPT ![w] = Idle] /\ job'[w] = Idle /\ job[w] \in Sweep
        /\ Idle.at /= "sending" /\ Idle.at /= "recording"
        /\ UNCHANGED <<balance, received, sent, records>>
    BY <1>1 DEF Forget, SweepTyped, Idle
  <1>3. CASE ~Working(w, "recording")
    <2>1. UNCHANGED unrecorded
      BY <1>3 DEF Forget
    <2>2. QED
      BY <1>1, <1>2, <1>3, <2>1, QuietJobKeepsMoney DEF Working
  <1>4. CASE Working(w, "recording")
    <2>1. unrecorded' = [unrecorded EXCEPT ![job[w].store] = @ + job[w].amount]
      BY <1>4 DEF Forget
    <2>2. job[w].store \in Stores /\ job[w].amount \in Nat
      BY <1>2 DEF Sweep
    <2>3. /\ unrecorded \in [Stores -> Nat] /\ sent \in [Stores -> Nat]
          /\ unrecorded' \in [Stores -> Nat]
      BY <2>1, <2>2 DEF MoneyInv, MoneyFits
    <2>4. MoneyFits' /\ OthersGoOn(w)
      BY <1>1, <1>2, <2>3, JobKeepsMoney DEF MoneyInv
    <2>5. ASSUME NEW s \in Stores
          PROVE  sent'[s] + unrecorded[s] + Due(s)[w] = sent[s] + unrecorded'[s] + Due(s)'[w]
      <3>1. /\ Due(s)[w] = IF job[w].store = s THEN job[w].amount ELSE 0
            /\ Due(s)'[w] = 0
        BY <1>2, <1>4 DEF Due, Working
      <3>2. unrecorded'[s] = unrecorded[s] + (IF job[w].store = s THEN job[w].amount ELSE 0)
        BY <2>1, <2>2, <2>3
      <3>3. sent'[s] = sent[s] /\ sent[s] \in Nat /\ unrecorded[s] \in Nat
        BY <1>2, <2>3
      <3>4. QED
        BY <2>2, <3>1, <3>2, <3>3
    <2>6. QED
      BY <1>2, <2>4, <2>5, BooksBalance
  <1>5. QED
    BY <1>3, <1>4

\* Nothing the books and the wallets are about changes.
LEMMA NothingMoves ==
    ASSUME MoneyInv, UNCHANGED <<balance, received, sent, unrecorded, records, job>>
    PROVE  MoneyFits' /\ Books'
PROOF
  <1>1. MoneyFits'
    BY DEF MoneyInv, MoneyFits, Working
  <1>2. Books'
    BY DEF MoneyInv, Books, SentIsRecorded, Recorded, Noted, InFlight, Due, Working
  <1>3. QED
    BY <1>1, <1>2

LEMMA MoneyStep == ASSUME MoneyInv, [Next]_vars PROVE MoneyInv'
PROOF
  <1>0. SweepInv'
    BY SweepSteps DEF MoneyInv
  <1> SUFFICES MoneyFits' /\ Books'
    BY <1>0 DEF MoneyInv
  <1>1. ASSUME NEW s \in Stores, NEW n \in Deposits, Deposit(s, n)
        PROVE  MoneyFits' /\ Books'
    <2>1. n \in Nat /\ UNCHANGED <<job, records, sent, unrecorded>>
      BY <1>1, SweepsAssumption DEF Deposit
    <2>2. /\ balance'[s] = balance[s] + n /\ received'[s] = received[s] + n
          /\ received'[s] <= MaxBalance
          /\ \A r \in Stores \ {s} : balance'[r] = balance[r] /\ received'[r] = received[r]
      BY <1>1, <2>1 DEF Deposit, MoneyInv, MoneyFits, SweepInv, SweepTyped
    <2>3. /\ \A r \in Stores : /\ balance[r] \in Nat /\ sent[r] \in Nat
                               /\ received[r] \in 0..MaxBalance
          /\ MaxBalance \in Nat
      BY SweepsAssumption DEF MoneyInv, MoneyFits, SweepInv, SweepTyped
    <2>4. received' \in [Stores -> 0..MaxBalance]
      <3>1. \A r \in Stores : received'[r] \in 0..MaxBalance
        BY <2>1, <2>2, <2>3
      <3>2. QED
        BY <1>1, <3>1 DEF Deposit, MoneyInv, MoneyFits
    <2>5. ASSUME NEW r \in Stores PROVE balance'[r] + sent'[r] <= received'[r]
      <3>1. balance[r] + sent[r] <= received[r] /\ sent'[r] = sent[r]
        BY <2>1 DEF MoneyInv, MoneyFits
      <3>2. QED
        BY <2>1, <2>2, <2>3, <3>1
    <2>6. ASSUME NEW w \in Workers, Working(w, "sending")
          PROVE  balance'[job[w].store] + job[w].taken <= received'[job[w].store]
      <3>1. job[w] \in Sweep
        BY <2>6, Phases DEF Working, MoneyInv, SweepInv, SweepTyped
      <3>2. /\ job[w].store \in Stores /\ job[w].taken \in Nat
            /\ balance[job[w].store] + job[w].taken <= received[job[w].store]
        BY <2>6, <3>1 DEF MoneyInv, MoneyFits, Sweep
      <3>3. QED
        BY <2>1, <2>2, <2>3, <3>2
    <2>7. MoneyFits'
      BY <2>1, <2>4, <2>5, <2>6 DEF MoneyInv, MoneyFits, Working
    <2>8. Books'
      BY <2>1 DEF MoneyInv, Books, SentIsRecorded, Recorded, Noted, InFlight, Due, Working
    <2>9. QED
      BY <2>7, <2>8
  <1>2. ASSUME NEW s \in Stores, NEW n \in Deposits, Payout(s, n)
        PROVE  MoneyFits' /\ Books'
    <2>1. n \in Nat /\ Payer \notin Workers
      BY SweepsAssumption DEF Workers
    <2>2. /\ n <= balance[s] /\ Take(Payer, s, n, Idle) /\ Idle.at /= "sending"
          /\ UNCHANGED <<received, sent, unrecorded, records>>
      BY <1>2 DEF Payout, Idle
    <2>3. sent \in [Stores -> Nat] /\ unrecorded \in [Stores -> Nat]
      BY DEF MoneyInv, MoneyFits
    <2>4. sent'[s] <= sent[s] + n
      BY <2>1, <2>2, <2>3
    <2>5. MoneyFits' /\ OthersGoOn(Payer)
      BY <1>0, <2>1, <2>2, <2>3, <2>4, TakeKeepsMoney DEF MoneyInv
    <2>6. Payer \notin Servers
      BY SweepsAssumption
    <2>7. QED
      BY <1>0, <2>2, <2>5, <2>6, BooksBalance
  <1>3. ASSUME NEW w \in Workers, ReadBalance(w)
        PROVE  MoneyFits' /\ Books'
    <2> DEFINE s == job[w].store
               amount == SweepAmount(s, balance[s])
               done == Job("sending", s, amount, 0, "succeeded")
    <2>1. job[w].at = "reading" /\ job[w] \in Sweep /\ s \in Stores
      BY <1>3, Phases DEF ReadBalance, Working, MoneyInv, SweepInv, SweepTyped, Sweep
    <2>2. /\ balance[s] \in Nat /\ sent[s] \in Nat /\ received[s] \in 0..MaxBalance
          /\ balance[s] + sent[s] <= received[s] /\ MaxBalance \in Nat
      BY <2>1, SweepsAssumption DEF MoneyInv, MoneyFits, SweepInv, SweepTyped
    <2>3. amount \in Nat /\ amount <= balance[s]
      BY <2>1, <2>2, StoresInOrder DEF SweepAmount
    <2>4. UNCHANGED <<balance, received, sent, unrecorded, records>>
      BY <1>3 DEF ReadBalance
    <2>5. CASE amount = 0
      <3>1. Settle(w, 0, "skipped")
        BY <1>3, <2>5 DEF ReadBalance
      <3>2. QED
        BY <1>0, <2>1, <2>4, <3>1, SettleKeepsMoney
    <2>6. CASE amount /= 0
      <3>1. job' = [job EXCEPT ![w] = done]
        BY <1>3, <2>6 DEF ReadBalance
      <3>2. /\ done.at = "sending" /\ done.store = s /\ done.amount = amount
            /\ done.taken = 0 /\ done \in Sweep
        BY <2>1, <2>3 DEF Job, Sweep
      <3> HIDE DEF done
      <3>3. {done.amount, done.taken} \subseteq 0..MaxBalance
        BY <2>2, <2>3, <3>2
      <3>4. balance[done.store] + done.taken <= received[done.store]
        BY <2>2, <3>2
      <3>5. QED
        BY <1>0, <2>1, <2>4, <3>1, <3>2, <3>3, <3>4, QuietJobKeepsMoney
    <2>7. QED
      BY <2>5, <2>6
  <1>4. ASSUME NEW w \in Workers, Refused(w) \/ Fails(w)
        PROVE  MoneyFits' /\ Books'
    <2>1. /\ job[w].at \in {"reading", "sending"} /\ Settle(w, 0, "failed")
          /\ UNCHANGED <<balance, received, sent, unrecorded, records>>
      BY <1>4 DEF Refused, Fails, Working
    <2>2. QED
      BY <1>0, <2>1, SettleKeepsMoney
  <1>5. ASSUME NEW w \in Workers, NEW phase \in {"idle", "reading"}, NEW s \in Stores,
               job' = [job EXCEPT ![w] = IF phase = "idle" THEN Idle
                                         ELSE Job("reading", s, 0, 0, "skipped")],
               job[w] = Idle \/ w \notin Servers,
               UNCHANGED <<balance, received, sent, unrecorded, records>>
        PROVE  MoneyFits' /\ Books'
    <2> DEFINE done == IF phase = "idle" THEN Idle ELSE Job("reading", s, 0, 0, "skipped")
    <2>1. /\ done \in {Idle} \cup Sweep /\ done.at \notin {"sending", "recording"}
          /\ done /= Idle => done.amount = 0 /\ done.taken = 0
      BY DEF Job, Sweep, Idle
    <2>2. job[w].at /= "recording" \/ w \notin Servers
      BY <1>5 DEF Idle
    <2>3. done /= Idle => {done.amount, done.taken} \subseteq 0..MaxBalance
      BY <2>1, SweepsAssumption
    <2>4. job' = [job EXCEPT ![w] = done]
      BY <1>5
    <2> HIDE DEF done
    <2>5. QED
      BY <1>0, <1>5, <2>1, <2>2, <2>3, <2>4, QuietJobKeepsMoney
  <1>6. /\ Loop \in Workers /\ Loop \notin Servers
        /\ \E s \in Stores : TRUE
    BY SweepsAssumption DEF Workers
  <1>7. CASE TakeStore
    <2>1. Order[pass] \in Stores
      BY <1>7, StoresInOrder DEF TakeStore, MoneyInv, SweepInv, SweepTyped
    <2>2. QED
      BY <1>5, <1>6, <1>7, <2>1 DEF TakeStore
  <1>8. CASE StopLoop
    BY <1>5, <1>6, <1>8 DEF StopLoop
  <1>9. ASSUME NEW r \in Servers, NEW s \in Stores, AskSweep(r, s)
        PROVE  MoneyFits' /\ Books'
    BY <1>5, <1>9 DEF AskSweep, Workers
  <1>10. CASE Tick \/ SkipStore \/ UNCHANGED vars
    BY <1>10, NothingMoves DEF Tick, SkipStore, vars
  <1>11. QED
    BY <1>0, <1>1, <1>2, <1>3, <1>4, <1>6, <1>7, <1>8, <1>9, <1>10,
       SendKeepsMoney, InsertKeepsMoney, ForgetKeepsMoney
       DEF Next, LoopStep, SweepStep

LEMMA MoneyStarts == Init => MoneyInv
PROOF
  <1> SUFFICES ASSUME Init PROVE MoneyInv
    OBVIOUS
  <1>1. SweepInv
    BY SweepStarts
  <1>2. MoneyFits
    BY SweepsAssumption DEF Init, MoneyFits, Working, Idle
  <1>3. records = <<>> /\ records \in Seq(Record)
    BY DEF Init
  <1>4. ASSUME NEW s \in Stores
        PROVE  sent[s] = Recorded(s) + InFlight(s) + unrecorded[s]
    <2>1. Recorded(s) = 0
      <3>1. DOMAIN records = {}
        BY <1>3
      <3>2. QED
        BY <1>3, <3>1, NotedTypes, SumOfNone
    <2>2. InFlight(s) = 0
      <3>1. \A r \in Servers : Due(s)[r] = 0
        BY DEF Init, Due, Working, Workers, Idle
      <3>2. /\ InFlight(s) = SumFunctionOnSet(Due(s), Servers) /\ IsFiniteSet(Servers)
        BY <1>1, DueTypes DEF SweepInv
      <3>3. QED
        BY <3>1, <3>2, SumOfZeros
    <2>3. QED
      BY <2>1, <2>2 DEF Init
  <1>5. QED
    BY <1>1, <1>2, <1>3, <1>4 DEF MoneyInv, Books, SentIsRecorded

\* The records account for what sweeps asked for moved, but for lost answers, stops
\* and failed inserts, for any number of servers, stores and amounts
\* (create_lightning_sweep, insert_lightning_sweep).
THEOREM SweepsAreRecorded == Spec => []SentIsRecorded
PROOF
  <1>1. MoneyInv => SentIsRecorded
    BY DEF MoneyInv, Books
  <1>2. QED
    BY MoneyStarts, MoneyStep, <1>1, PTL DEF Spec

------------------------------------------------------------------------------
(* Type correctness                                                        *)

ClocksAndBounds ==
    /\ age \in [Stores -> Nat] /\ \A s \in Stores : age[s] <= Interval[s] + 1
    /\ payouts \in 0..MaxPayouts /\ errors \in 0..MaxErrors /\ stops \in 0..MaxStops

LEMMA ClockTypes ==
    /\ \A s \in Stores : Interval[s] \in Nat
    /\ MaxPayouts \in Nat /\ MaxErrors \in Nat /\ MaxStops \in Nat
  BY SweepsAssumption

LEMMA ClockStep == ASSUME ClocksAndBounds, [Next]_vars PROVE ClocksAndBounds'
PROOF
  <1> USE ClockTypes DEF ClocksAndBounds
  <1>1. ASSUME Tick PROVE ClocksAndBounds'
    <2>1. age' = [s \in Stores |-> IF age[s] > Interval[s] THEN age[s] ELSE age[s] + 1]
          /\ UNCHANGED <<payouts, errors, stops>>
      BY <1>1 DEF Tick
    <2>2. ASSUME NEW s \in Stores PROVE age'[s] \in Nat /\ age'[s] <= Interval[s] + 1
      BY <2>1
    <2>3. QED
      BY <2>1, <2>2
  <1>2. ASSUME TakeStore PROVE ClocksAndBounds'
    <2>1. age' = [age EXCEPT ![Order[pass]] = 0] /\ UNCHANGED <<payouts, errors, stops>>
      BY <1>2 DEF TakeStore
    <2>2. ASSUME NEW s \in Stores PROVE age'[s] \in Nat /\ age'[s] <= Interval[s] + 1
      <3>1. age'[s] = 0 \/ age'[s] = age[s]
        BY <2>1
      <3>2. QED
        BY <3>1
    <2>3. QED
      BY <2>1, <2>2
  <1>3. ASSUME StopLoop PROVE ClocksAndBounds'
    BY <1>3 DEF StopLoop, NeverRun
  <1>4. ASSUME NEW s \in Stores, NEW n \in Deposits, Deposit(s, n) \/ Payout(s, n)
        PROVE  ClocksAndBounds'
    BY <1>4 DEF Deposit, Payout
  <1>5. ASSUME NEW w \in Workers, SweepStep(w) \/ Fails(w) \/ AnswerLost(w)
        PROVE  ClocksAndBounds'
    <2>1. age' = age /\ payouts' = payouts /\ stops' = stops
      BY <1>5 DEF SweepStep, ReadBalance, Send, Refused, Fails, AnswerLost
    <2>2. errors' \in 0..MaxErrors
      <3>1. CASE SweepStep(w)
        BY <3>1 DEF SweepStep, ReadBalance, Send, Refused
      <3>2. CASE Fails(w) \/ AnswerLost(w)
        BY <3>2 DEF Fails, AnswerLost
      <3>3. QED
        BY <1>5, <3>1, <3>2
    <2>3. QED
      BY <2>1, <2>2
  <1>6. ASSUME NEW r \in Servers, \/ \E s \in Stores : AskSweep(r, s)
                                  \/ InsertRecord(r) \/ Forget(r)
        PROVE  ClocksAndBounds'
    <2>1. age' = age /\ payouts' = payouts /\ errors' = errors
      BY <1>6 DEF AskSweep, InsertRecord, Forget
    <2>2. stops' = stops \/ (stops < MaxStops /\ stops' = stops + 1)
      BY <1>6 DEF AskSweep, InsertRecord, Forget
    <2>3. QED
      BY <2>1, <2>2
  <1>7. CASE SkipStore \/ UNCHANGED vars
    BY <1>7 DEF SkipStore, vars
  <1>8. Loop \in Workers
    BY DEF Workers
  <1>9. QED
    BY <1>1, <1>2, <1>3, <1>4, <1>5, <1>6, <1>7, <1>8 DEF Next, LoopStep

\* Every amount is a number within what a wallet may receive.
LEMMA TypesFollow == ASSUME MoneyInv, ClocksAndBounds PROVE TypeOK
PROOF
  <1>1. ASSUME NEW s \in Stores
        PROVE  balance[s] \in 0..MaxBalance /\ sent[s] \in 0..MaxBalance
               /\ unrecorded[s] \in 0..MaxBalance
    <2>1. /\ balance[s] \in Nat /\ sent[s] \in Nat /\ unrecorded[s] \in Nat
          /\ received[s] \in 0..MaxBalance /\ MaxBalance \in Nat
          /\ balance[s] + sent[s] <= received[s]
      BY SweepsAssumption DEF MoneyInv, MoneyFits, SweepInv, SweepTyped
    <2>2. /\ Recorded(s) \in Nat /\ InFlight(s) \in Nat
          /\ sent[s] = Recorded(s) + InFlight(s) + unrecorded[s]
      BY NotedTypes, DueTypes DEF MoneyInv, Books, SentIsRecorded, SweepInv
    <2>3. QED
      BY <2>1, <2>2
  <1>2. /\ balance \in [Stores -> 0..MaxBalance] /\ sent \in [Stores -> 0..MaxBalance]
        /\ unrecorded \in [Stores -> 0..MaxBalance]
    BY <1>1 DEF MoneyInv, MoneyFits, SweepInv, SweepTyped
  <1>3. ASSUME NEW w \in Workers, job[w] /= Idle
        PROVE  /\ job[w].at \in {"reading", "sending", "recording"}
               /\ job[w].store \in Stores
               /\ {job[w].amount, job[w].taken} \subseteq 0..MaxBalance
               /\ job[w].status \in {"succeeded", "skipped", "failed"}
    <2>1. job[w] \in Sweep
      BY <1>3 DEF MoneyInv, SweepInv, SweepTyped
    <2>2. QED
      BY <1>3, <2>1 DEF Sweep, MoneyInv, MoneyFits
  <1>4. QED
    BY <1>2, <1>3
       DEF TypeOK, MoneyInv, MoneyFits, SweepInv, SweepTyped, Books, Record, ClocksAndBounds

\* The types hold, and no sum exceeds what its wallet ever received.
THEOREM SweepsTyped == Spec => []TypeOK
PROOF
  <1>1. Init => MoneyInv /\ ClocksAndBounds
    <2>1. Init => ClocksAndBounds
      BY ClockTypes DEF Init, NeverRun, ClocksAndBounds
    <2>2. QED
      BY <2>1, MoneyStarts
  <1>2. MoneyInv /\ ClocksAndBounds /\ [Next]_vars => MoneyInv' /\ ClocksAndBounds'
    BY MoneyStep, ClockStep
  <1>3. MoneyInv /\ ClocksAndBounds => TypeOK
    BY TypesFollow
  <1>4. QED
    BY <1>1, <1>2, <1>3, PTL DEF Spec

=============================================================================
