-------------------------- MODULE InvoiceSyncProofs --------------------------
(***************************************************************************)
(* Theorems about InvoiceSync, for any invoices, amounts and pollers: no   *)
(* invoice is settled that was not paid in time, and every status is       *)
(* announced once.                                                         *)
(***************************************************************************)
EXTENDS InvoiceSync, TLAPS

\* next_status of either rail returns a status.
LEMMA StatusTypes ==
    ASSUME NEW current \in InvoiceStatuses, NEW isLate \in BOOLEAN,
           NEW due \in Nat, NEW confirmed \in Nat, NEW unconfirmed \in Nat,
           NEW paid \in BOOLEAN
    PROVE  /\ OnchainStatus(current, isLate, due, confirmed, unconfirmed)
                  \in InvoiceStatuses
           /\ LightningStatus(current, isLate, paid) \in InvoiceStatuses
<1>1. OnchainStatus(current, isLate, due, confirmed, unconfirmed) \in InvoiceStatuses
    BY DEF OnchainStatus, DetectedInTime, InvoiceStatuses
<1>2. LightningStatus(current, isLate, paid) \in InvoiceStatuses
    BY DEF LightningStatus, InvoiceStatuses
<1> QED
    BY <1>1, <1>2

\* next_status of either rail claims a timely payment only before the deadline
\* and for the full amount, or because the claim was made before.
LEMMA StatusTimely ==
    ASSUME NEW current \in InvoiceStatuses, NEW isLate \in BOOLEAN,
           NEW due \in Nat, NEW confirmed \in Nat, NEW unconfirmed \in Nat,
           NEW paid \in BOOLEAN
    PROVE  /\ OnchainStatus(current, isLate, due, confirmed, unconfirmed) \in Timely
                 => current \in Timely \/ (~isLate /\ confirmed + unconfirmed >= due)
           /\ LightningStatus(current, isLate, paid) \in Timely
                 => current \in Timely \/ (~isLate /\ paid)
<1>1. OnchainStatus(current, isLate, due, confirmed, unconfirmed) \in Timely
          => current \in Timely \/ (~isLate /\ confirmed + unconfirmed >= due)
    BY DEF OnchainStatus, DetectedInTime, InvoiceStatuses, Timely
<1>2. LightningStatus(current, isLate, paid) \in Timely
          => current \in Timely \/ (~isLate /\ paid)
    BY DEF LightningStatus, InvoiceStatuses, Timely
<1> QED
    BY <1>1, <1>2

------------------------------------------------------------------------------
(* Types.                                                                  *)

PollerStates == {Waiting} \cup Listing \cup Working \cup Writing

\* What a poller remembers follows from where it is.
LEMMA PollerAt ==
    ASSUME TypeOK, NEW p \in Pollers
    PROVE  /\ poller[p].at = "listing" => poller[p] \in Listing
           /\ poller[p].at = "working" => poller[p] \in Working
           /\ poller[p].at = "writing" => poller[p] \in Writing
    BY DEF TypeOK, Waiting, Listing, Working, Writing

\* The environment keeps the types of the world.
LEMMA EnvironmentTyped ==
    ASSUME TypeOK, NEW i \in Invoices, Environment(i)
    PROVE  TypeOK'
<1> DEFINE Coins == [confirmed : Nat, unconfirmed : Nat]
<1>1. Due[i] \in Nat \ {0} /\ chain[i] \in Coins /\ reorgs \in Nat
    BY InvoiceAssumption DEF TypeOK
<1>2. UNCHANGED <<rowVars, poller, aborts>>
    BY DEF Environment, PayOnchain, Mine, Reorganize, PayLightning, Deadline
<1>3. /\ chain' \in [Invoices -> Coins] /\ received' \in [Invoices -> Nat]
      /\ late' \in [Invoices -> BOOLEAN] /\ inTime' \in [Invoices -> BOOLEAN]
      /\ reorgs' \in Nat
    <2>1. CASE PayOnchain(i)
        <3>1. PICK sats \in 1..MaxSats :
                 /\ chain' = [chain EXCEPT ![i].unconfirmed = @ + sats]
                 /\ inTime' = [inTime EXCEPT
                        ![i] = @ \/ (~late[i] /\ OnAddress(i) + sats >= Due[i])]
            BY <2>1 DEF PayOnchain
        <3>2. sats \in Nat
            BY InvoiceAssumption
        <3>3. [chain[i] EXCEPT !.unconfirmed = @ + sats] \in Coins
            BY <1>1, <3>2
        <3>4. chain' \in [Invoices -> Coins]
            BY <3>1, <3>3 DEF TypeOK
        <3>5. inTime' \in [Invoices -> BOOLEAN]
            BY <3>1 DEF TypeOK
        <3> QED
            BY <2>1, <3>4, <3>5 DEF PayOnchain, TypeOK
    <2>2. CASE Mine(i)
        BY <1>1, <2>2 DEF Mine, OnAddress, TypeOK
    <2>3. CASE Reorganize(i)
        <3>1. OnAddress(i) \in Nat
            BY <1>1 DEF OnAddress
        <3>2. /\ [chain[i] EXCEPT !.unconfirmed = 0] \in Coins
              /\ [confirmed |-> 0, unconfirmed |-> OnAddress(i)] \in Coins
            BY <1>1, <3>1
        <3>3. chain' \in [Invoices -> Coins]
            BY <2>3, <3>2 DEF Reorganize, TypeOK
        <3> QED
            BY <1>1, <2>3, <3>3 DEF Reorganize, TypeOK
    <2>4. CASE PayLightning(i)
        <3>1. PICK sats \in {Due[i] - 1, Due[i]} \ {0} :
                 /\ received' = [received EXCEPT ![i] = sats]
                 /\ inTime' = [inTime EXCEPT ![i] = @ \/ (~late[i] /\ sats >= Due[i])]
            BY <2>4 DEF PayLightning
        <3>2. sats \in Nat
            BY <1>1
        <3>3. received' \in [Invoices -> Nat]
            BY <3>1, <3>2 DEF TypeOK
        <3>4. inTime' \in [Invoices -> BOOLEAN]
            BY <3>1 DEF TypeOK
        <3> QED
            BY <2>4, <3>3, <3>4 DEF PayLightning, TypeOK
    <2>5. CASE Deadline(i)
        BY <2>5 DEF Deadline, TypeOK
    <2> QED
        BY <2>1, <2>2, <2>3, <2>4, <2>5 DEF Environment
<1> QED
    BY <1>2, <1>3 DEF TypeOK, rowVars

\* A decision about an entry of the list is remembered with its reading.
LEMMA DecideTyped ==
    ASSUME TypeOK, NEW p \in Pollers, poller[p].at = "working",
           NEW x \in poller[p].queue,
           NEW next \in InvoiceStatuses, NEW seen \in Payment,
           Decide(p, x, next, seen)
    PROVE  poller' \in [Pollers -> PollerStates]
<1>1. poller[p] \in Working
    BY PollerAt
<1>2. x \in Snapshot /\ poller[p].queue \ {x} \in SUBSET Snapshot
    BY <1>1 DEF Working
<1>3. [at |-> "writing", pass |-> poller[p].pass, queue |-> poller[p].queue \ {x},
       read |-> x, next |-> next, seen |-> seen] \in Writing
    BY <1>1, <1>2 DEF Working, Writing
<1> QED
    BY <1>3 DEF Decide, TypeOK, PollerStates

\* A poller keeps the types of the rows and of what it remembers.
LEMMA PollerTyped ==
    ASSUME TypeOK, NEW p \in Pollers, RunStep(p) \/ AbortRun(p)
    PROVE  TypeOK'
<1>1. CASE BeginRun(p)
    BY <1>1 DEF BeginRun, TypeOK, rowVars, world, Listing, Passes
<1>2. CASE List(p)
    <2>1. poller[p].pass \in Passes
        BY <1>2, PollerAt DEF List, Listing
    <2>2. Selected(poller[p].pass) \subseteq Invoices
        BY <2>1, InvoiceAssumption DEF Selected, Passes
    <2>3. {[invoice |-> i, status |-> status[i], payment |-> payment[i]] :
                i \in Selected(poller[p].pass)} \in SUBSET Snapshot
        BY <2>2 DEF TypeOK, Snapshot
    <2> DEFINE queue == {[invoice |-> i, status |-> status[i], payment |-> payment[i]] :
                             i \in Selected(poller[p].pass)}
    <2>4. poller' = [poller EXCEPT ![p] =
                        [at |-> "working", pass |-> poller[p].pass, queue |-> queue]]
        BY <1>2 DEF List, Continue
    <2>5. queue \in SUBSET Snapshot
        BY <2>3
    <2> HIDE DEF queue
    <2>6. [at |-> "working", pass |-> poller[p].pass, queue |-> queue] \in Working
        BY <2>1, <2>5 DEF Working
    <2>7. poller' \in [Pollers -> PollerStates]
        BY <2>4, <2>6 DEF TypeOK, PollerStates
    <2> QED
        BY <1>2, <2>7 DEF List, TypeOK, rowVars, world, PollerStates
<1>3. CASE ObserveOnchain(p)
    <2>1. PICK x \in poller[p].queue :
              Decide(p, x,
                     OnchainStatus(x.status, late[x.invoice], Due[x.invoice],
                                   chain[x.invoice].confirmed,
                                   chain[x.invoice].unconfirmed),
                     Amounts(chain[x.invoice].confirmed, chain[x.invoice].unconfirmed))
        BY <1>3 DEF ObserveOnchain
    <2>2. x \in Snapshot
        BY <1>3, PollerAt DEF ObserveOnchain, Working
    <2>3. /\ x.status \in InvoiceStatuses /\ late[x.invoice] \in BOOLEAN
          /\ Due[x.invoice] \in Nat
          /\ chain[x.invoice].confirmed \in Nat /\ chain[x.invoice].unconfirmed \in Nat
        BY <2>2, InvoiceAssumption DEF Snapshot, TypeOK
    <2>4. OnchainStatus(x.status, late[x.invoice], Due[x.invoice],
                        chain[x.invoice].confirmed, chain[x.invoice].unconfirmed)
              \in InvoiceStatuses
        BY <2>3, StatusTypes
    <2>5. Amounts(chain[x.invoice].confirmed, chain[x.invoice].unconfirmed) \in Payment
        BY <2>3 DEF Amounts, Payment
    <2>6. poller' \in [Pollers -> PollerStates]
        BY <1>3, <2>1, <2>4, <2>5, DecideTyped DEF ObserveOnchain
    <2> QED
        BY <1>3, <2>6 DEF ObserveOnchain, TypeOK, rowVars, world, PollerStates
<1>4. CASE ObserveLightning(p)
    <2>1. PICK x \in poller[p].queue :
              LET i == x.invoice
                  paid == received[i] >= Due[i]
                  sats == IF paid \/ (Backend = "phoenixd" /\ received[i] > 0)
                          THEN received[i] ELSE x.payment.paid
              IN Decide(p, x, LightningStatus(x.status, late[i], paid), Amounts(sats, 0))
        BY <1>4 DEF ObserveLightning
    <2> DEFINE paid == received[x.invoice] >= Due[x.invoice]
               sats == IF paid \/ (Backend = "phoenixd" /\ received[x.invoice] > 0)
                       THEN received[x.invoice] ELSE x.payment.paid
    <2>2. x \in Snapshot
        BY <1>4, PollerAt DEF ObserveLightning, Working
    <2>3. /\ x.status \in InvoiceStatuses /\ late[x.invoice] \in BOOLEAN
          /\ paid \in BOOLEAN /\ sats \in Nat
        BY <2>2 DEF Snapshot, TypeOK, Payment
    <2>4. LightningStatus(x.status, late[x.invoice], paid) \in InvoiceStatuses
        <3> HIDE DEF paid
        <3> QED
            BY <2>3 DEF LightningStatus, InvoiceStatuses
    <2>5. Amounts(sats, 0) \in Payment
        <3> HIDE DEF sats
        <3> QED
            BY <2>3 DEF Amounts, Payment
    <2>6. Decide(p, x, LightningStatus(x.status, late[x.invoice], paid), Amounts(sats, 0))
        BY <2>1
    <2> HIDE DEF paid, sats
    <2>7. poller' \in [Pollers -> PollerStates]
        BY <1>4, <2>4, <2>5, <2>6, DecideTyped DEF ObserveLightning
    <2> QED
        BY <1>4, <2>7 DEF ObserveLightning, TypeOK, rowVars, world, PollerStates
<1>5. CASE Expire(p)
    <2>1. PICK x \in poller[p].queue : Decide(p, x, "expired", x.payment)
        BY <1>5 DEF Expire
    <2>2. x.payment \in Payment /\ "expired" \in InvoiceStatuses
        BY <1>5, PollerAt DEF Expire, Working, Snapshot, InvoiceStatuses
    <2>3. poller' \in [Pollers -> PollerStates]
        BY <1>5, <2>1, <2>2, DecideTyped DEF Expire
    <2> QED
        BY <1>5, <2>3 DEF Expire, TypeOK, rowVars, world, PollerStates
<1>6. CASE Write(p)
    <2> DEFINE i == poller[p].read.invoice
               next == poller[p].next
    <2>1. poller[p] \in Writing
        BY <1>6, PollerAt DEF Write
    <2>2. i \in Invoices /\ next \in InvoiceStatuses /\ poller[p].seen \in Payment
        BY <2>1 DEF Writing, Snapshot
    <2>3. payment' \in [Invoices -> Payment]
        BY <1>6, <2>2 DEF Write, TypeOK
    <2>5. /\ status' \in [Invoices -> InvoiceStatuses]
          /\ events' \in [Invoices -> SUBSET InvoiceStatuses]
          /\ enqueued' \in [Invoices -> [InvoiceStatuses -> Nat]]
        <3>1. CASE next = poller[p].read.status
            BY <1>6, <3>1 DEF Write, TypeOK
        <3>2. CASE next /= poller[p].read.status
            <4>1. status' = [status EXCEPT ![i] = next] /\ Announce(i, next)
                BY <1>6, <3>2 DEF Write
            <4>2. /\ events' = [events EXCEPT ![i] = events[i] \cup {next}]
                  /\ enqueued' = [enqueued EXCEPT ![i] =
                        [enqueued[i] EXCEPT ![next] =
                            IF next \in events[i] THEN @ ELSE @ + 1]]
                BY <4>1 DEF Announce
            <4>3. [enqueued[i] EXCEPT ![next] = IF next \in events[i] THEN @ ELSE @ + 1]
                      \in [InvoiceStatuses -> Nat]
                BY <2>2 DEF TypeOK
            <4> HIDE DEF i, next
            <4> QED
                BY <2>2, <4>1, <4>2, <4>3 DEF TypeOK
        <3> QED
            BY <3>1, <3>2
    <2>6. poller' \in [Pollers -> PollerStates]
        <3>1. [at |-> "working", pass |-> poller[p].pass, queue |-> poller[p].queue]
                  \in Working
            BY <2>1 DEF Working, Writing
        <3> QED
            BY <1>6, <3>1 DEF Write, Continue, TypeOK, PollerStates
    <2> QED
        BY <1>6, <2>3, <2>5, <2>6 DEF Write, TypeOK, world, PollerStates
<1>7. CASE EndPass(p)
    <2>1. poller[p].pass \in Passes
        BY <1>7, PollerAt DEF EndPass, Working
    <2>2. poller' \in [Pollers -> PollerStates]
        BY <1>7, <2>1 DEF EndPass, TypeOK, PollerStates, Passes, Listing
    <2> QED
        BY <1>7, <2>2 DEF EndPass, TypeOK, rowVars, world, PollerStates
<1>8. CASE AbortRun(p)
    BY <1>8 DEF AbortRun, TypeOK, rowVars, world
<1> QED
    BY <1>1, <1>2, <1>3, <1>4, <1>5, <1>6, <1>7, <1>8 DEF RunStep

\* Every step keeps the types.
LEMMA TypedStep == TypeOK /\ [Next]_vars => TypeOK'
<1>1. CASE UNCHANGED vars
    BY <1>1 DEF vars, rowVars, world, TypeOK
<1> QED
    BY <1>1, EnvironmentTyped, PollerTyped DEF Next

\* Rows, readings and the world keep their types, whatever the pollers read and
\* write over (src/storage.rs, sync_once).
THEOREM PollingTyping == Spec => []TypeOK
<1>1. Init => TypeOK
    BY DEF Init, TypeOK, InvoiceStatuses, Amounts, Payment, Waiting
<1> QED
    BY <1>1, TypedStep, PTL DEF Spec

------------------------------------------------------------------------------
(* Settled in time.                                                        *)

\* What the environment does never takes back that an invoice was paid in time,
\* and grants it when the full amount is there before the deadline.
LEMMA EnvironmentTimely ==
    ASSUME TypeOK, TimelyIsTrue, NEW i \in Invoices, Environment(i)
    PROVE  TimelyIsTrue'
<1> DEFINE Full(j) == OnAddress(j) >= Due[j] \/ received[j] >= Due[j]
<1>1. UNCHANGED <<status, poller>>
    BY DEF Environment, PayOnchain, Mine, Reorganize, PayLightning, Deadline, rowVars
<1>2. /\ Due[i] \in Nat \ {0} /\ received[i] \in Nat
      /\ chain[i] \in [confirmed : Nat, unconfirmed : Nat]
    BY InvoiceAssumption DEF TypeOK
<1>3. /\ \A j \in Invoices : inTime[j] => inTime'[j]
      /\ \A j \in Invoices : ~late'[j] /\ Full(j)' => inTime'[j]
    <2>1. \A j \in Invoices : ~late[j] /\ Full(j) => inTime[j]
        BY DEF TimelyIsTrue
    <2>2. CASE PayOnchain(i)
        <3>1. PICK sats \in 1..MaxSats :
                 /\ chain' = [chain EXCEPT ![i].unconfirmed = @ + sats]
                 /\ inTime' = [inTime EXCEPT
                        ![i] = @ \/ (~late[i] /\ OnAddress(i) + sats >= Due[i])]
                 /\ UNCHANGED <<received, late>>
            BY <2>2 DEF PayOnchain
        <3>2. sats \in Nat
            BY InvoiceAssumption
        <3>3. /\ chain'[i].confirmed = chain[i].confirmed
              /\ chain'[i].unconfirmed = chain[i].unconfirmed + sats
              /\ \A j \in Invoices \ {i} : chain'[j] = chain[j]
            BY <3>1 DEF TypeOK
        <3>4. OnAddress(i)' = OnAddress(i) + sats
            BY <1>2, <3>2, <3>3 DEF OnAddress
        <3>5. /\ inTime'[i] = (inTime[i] \/ (~late[i] /\ OnAddress(i) + sats >= Due[i]))
              /\ \A j \in Invoices \ {i} : inTime'[j] = inTime[j]
            BY <3>1 DEF TypeOK
        <3>6. \A j \in Invoices \ {i} : Full(j)' => Full(j)
            BY <3>1, <3>3 DEF OnAddress
        <3>7. ~late'[i] /\ Full(i)' => inTime'[i]
            BY <2>1, <3>1, <3>4, <3>5
        <3> HIDE DEF Full
        <3> QED
            BY <2>1, <3>1, <3>5, <3>6, <3>7
    <2>3. CASE Mine(i)
        <3>1. /\ UNCHANGED <<received, late, inTime>>
              /\ chain' = [chain EXCEPT ![i] =
                     [confirmed |-> OnAddress(i), unconfirmed |-> 0]]
            BY <2>3 DEF Mine
        <3>2. OnAddress(i)' = OnAddress(i)
            BY <1>2, <3>1 DEF OnAddress, TypeOK
        <3>3. \A j \in Invoices \ {i} : chain'[j] = chain[j]
            BY <3>1 DEF TypeOK
        <3>4. \A j \in Invoices : Full(j)' => Full(j)
            BY <3>1, <3>2, <3>3 DEF OnAddress
        <3> HIDE DEF Full
        <3> QED
            BY <2>1, <3>1, <3>4
    <2>4. CASE Reorganize(i)
        <3>1. UNCHANGED <<received, late, inTime>>
            BY <2>4 DEF Reorganize
        <3>2. \A j \in Invoices \ {i} : chain'[j] = chain[j]
            BY <2>4 DEF Reorganize, TypeOK
        <3>3. CASE chain' = [chain EXCEPT ![i].unconfirmed = 0]
            <4>1. /\ chain'[i].confirmed = chain[i].confirmed
                  /\ chain'[i].unconfirmed = 0
                BY <3>3 DEF TypeOK
            <4>2. OnAddress(i)' >= Due[i] => OnAddress(i) >= Due[i]
                BY <1>2, <4>1 DEF OnAddress
            <4>3. \A j \in Invoices : Full(j)' => Full(j)
                BY <3>1, <3>2, <4>2 DEF OnAddress
            <4> HIDE DEF Full
            <4> QED
                BY <2>1, <3>1, <4>3
        <3>4. CASE chain' = [chain EXCEPT ![i] =
                     [confirmed |-> 0, unconfirmed |-> OnAddress(i)]]
            <4>1. OnAddress(i)' = OnAddress(i)
                BY <1>2, <3>4 DEF OnAddress, TypeOK
            <4>2. \A j \in Invoices : Full(j)' => Full(j)
                BY <3>1, <3>2, <4>1 DEF OnAddress
            <4> HIDE DEF Full
            <4> QED
                BY <2>1, <3>1, <4>2
        <3> QED
            BY <2>4, <3>3, <3>4 DEF Reorganize
    <2>5. CASE PayLightning(i)
        <3>1. PICK sats \in {Due[i] - 1, Due[i]} \ {0} :
                 /\ received' = [received EXCEPT ![i] = sats]
                 /\ inTime' = [inTime EXCEPT ![i] = @ \/ (~late[i] /\ sats >= Due[i])]
                 /\ UNCHANGED <<chain, late>>
            BY <2>5 DEF PayLightning
        <3>2. /\ received'[i] = sats
              /\ \A j \in Invoices \ {i} : received'[j] = received[j]
              /\ inTime'[i] = (inTime[i] \/ (~late[i] /\ sats >= Due[i]))
              /\ \A j \in Invoices \ {i} : inTime'[j] = inTime[j]
            BY <3>1 DEF TypeOK
        <3>3. \A j \in Invoices \ {i} : Full(j)' => Full(j)
            BY <3>1, <3>2 DEF OnAddress
        <3>4. OnAddress(i)' = OnAddress(i)
            BY <3>1 DEF OnAddress
        <3>5. ~late'[i] /\ Full(i)' => inTime'[i]
            BY <2>1, <3>1, <3>2, <3>4
        <3> HIDE DEF Full
        <3> QED
            BY <2>1, <3>1, <3>2, <3>3, <3>5
    <2>6. CASE Deadline(i)
        <3>1. /\ UNCHANGED <<chain, received, inTime>>
              /\ \A j \in Invoices : ~late'[j] => ~late[j]
            BY <2>6 DEF Deadline, TypeOK
        <3>2. \A j \in Invoices : Full(j)' => Full(j)
            BY <3>1 DEF OnAddress
        <3> HIDE DEF Full
        <3> QED
            BY <2>1, <3>1, <3>2
    <2> QED
        BY <2>2, <2>3, <2>4, <2>5, <2>6 DEF Environment
<1>4. \A p \in Pollers :
          /\ poller[p].at \in {"working", "writing"} =>
                \A x \in poller[p].queue : x.invoice \in Invoices
          /\ poller[p].at = "writing" => poller[p].read.invoice \in Invoices
    BY PollerAt DEF Working, Writing, Snapshot
<1> HIDE DEF Full
<1>5. \A j \in Invoices : status'[j] \in Timely => inTime'[j]
    BY <1>1, <1>3 DEF TimelyIsTrue
<1>6. \A p \in Pollers :
          /\ poller'[p].at \in {"working", "writing"} =>
                \A x \in poller'[p].queue : x.status \in Timely => inTime'[x.invoice]
          /\ poller'[p].at = "writing" /\ poller'[p].next \in Timely =>
                inTime'[poller'[p].read.invoice]
    BY <1>1, <1>3, <1>4 DEF TimelyIsTrue
<1> QED
    BY <1>3, <1>5, <1>6 DEF TimelyIsTrue, Full

\* A poller that moves on remembers nothing it may not: what it then holds is
\* claimed rightly if its queue and its decision are.
LEMMA PollerMoves ==
    ASSUME TypeOK, TimelyIsTrue, NEW p \in Pollers, UNCHANGED world,
           NEW state \in PollerStates, poller' = [poller EXCEPT ![p] = state],
           state.at \in {"working", "writing"} =>
               \A x \in state.queue : x.status \in Timely => inTime[x.invoice],
           state.at = "writing" /\ state.next \in Timely =>
               inTime[state.read.invoice],
           \A i \in Invoices : status'[i] \in Timely => inTime[i]
    PROVE  TimelyIsTrue'
<1>1. poller'[p] = state /\ \A q \in Pollers \ {p} : poller'[q] = poller[q]
    BY DEF TypeOK
<1>2. UNCHANGED <<chain, received, late, inTime>>
    BY DEF world
<1>3. \A i \in Invoices :
          ~late'[i] /\ (OnAddress(i)' >= Due[i] \/ received'[i] >= Due[i]) => inTime'[i]
    BY <1>2 DEF TimelyIsTrue, OnAddress
<1>4. \A q \in Pollers :
          /\ poller'[q].at \in {"working", "writing"} =>
                \A x \in poller'[q].queue : x.status \in Timely => inTime'[x.invoice]
          /\ poller'[q].at = "writing" /\ poller'[q].next \in Timely =>
                inTime'[poller'[q].read.invoice]
    BY <1>1, <1>2 DEF TimelyIsTrue
<1> QED
    BY <1>2, <1>3, <1>4 DEF TimelyIsTrue

\* A decision is right if the status it takes is claimed rightly.
LEMMA DecideTimely ==
    ASSUME TypeOK, TimelyIsTrue, NEW p \in Pollers, poller[p].at = "working",
           NEW x \in poller[p].queue, NEW next, NEW seen,
           Decide(p, x, next, seen), poller' \in [Pollers -> PollerStates],
           UNCHANGED <<rowVars, world>>,
           next \in Timely => inTime[x.invoice]
    PROVE  TimelyIsTrue'
<1> DEFINE state == [at |-> "writing", pass |-> poller[p].pass,
                     queue |-> poller[p].queue \ {x},
                     read |-> x, next |-> next, seen |-> seen]
<1>1. poller' = [poller EXCEPT ![p] = state]
    BY DEF Decide
<1>2. state \in PollerStates
    BY <1>1 DEF TypeOK
<1>3. \A y \in state.queue : y.status \in Timely => inTime[y.invoice]
    BY DEF TimelyIsTrue
<1>4. state.next \in Timely => inTime[state.read.invoice]
    OBVIOUS
<1>5. \A i \in Invoices : status'[i] \in Timely => inTime[i]
    BY DEF TimelyIsTrue, rowVars
<1> HIDE DEF state
<1> QED
    BY <1>1, <1>2, <1>3, <1>4, <1>5, PollerMoves DEF rowVars

\* A poller claims a timely payment only from what it observes before the
\* deadline, or from a claim it has read.
LEMMA PollerTimely ==
    ASSUME TypeOK, TimelyIsTrue, NEW p \in Pollers, RunStep(p) \/ AbortRun(p)
    PROVE  TimelyIsTrue'
<1>0. TypeOK' /\ UNCHANGED world
    BY PollerTyped DEF RunStep, AbortRun, BeginRun, List, ObserveOnchain,
       ObserveLightning, Expire, Write, EndPass
<1>t. poller' \in [Pollers -> PollerStates]
    BY <1>0 DEF TypeOK, PollerStates
<1>s. ASSUME UNCHANGED status
      PROVE  \A i \in Invoices : status'[i] \in Timely => inTime[i]
    BY <1>s DEF TimelyIsTrue
<1>1. CASE BeginRun(p)
    <2>1. /\ poller' = [poller EXCEPT ![p] = [at |-> "listing", pass |-> "onchain"]]
          /\ UNCHANGED status
        BY <1>1 DEF BeginRun, rowVars
    <2>2. [at |-> "listing", pass |-> "onchain"] \in PollerStates
        BY DEF PollerStates, Listing, Passes
    <2> QED
        BY <1>0, <1>s, <2>1, <2>2, PollerMoves
<1>2. CASE List(p)
    <2> DEFINE queue == {[invoice |-> i, status |-> status[i], payment |-> payment[i]] :
                             i \in Selected(poller[p].pass)}
               state == [at |-> "working", pass |-> poller[p].pass, queue |-> queue]
    <2>1. poller' = [poller EXCEPT ![p] = state] /\ UNCHANGED status
        BY <1>2 DEF List, Continue, rowVars
    <2>2. state \in PollerStates
        <3> HIDE DEF state
        <3> QED
            BY <1>t, <2>1 DEF TypeOK
    <2>3. poller[p].pass \in Passes
        BY <1>2, PollerAt DEF List, Listing
    <2>4. Selected(poller[p].pass) \subseteq Invoices
        BY <2>3, InvoiceAssumption DEF Selected, Passes
    <2>5. \A x \in queue : x.status \in Timely => inTime[x.invoice]
        BY <2>4 DEF TimelyIsTrue
    <2> HIDE DEF queue
    <2>6. state.at = "working" /\ state.queue = queue
        OBVIOUS
    <2> HIDE DEF state
    <2> QED
        BY <1>0, <1>s, <2>1, <2>2, <2>5, <2>6, PollerMoves
<1>3. CASE ObserveOnchain(p)
    <2>1. PICK x \in poller[p].queue :
              Decide(p, x,
                     OnchainStatus(x.status, late[x.invoice], Due[x.invoice],
                                   chain[x.invoice].confirmed,
                                   chain[x.invoice].unconfirmed),
                     Amounts(chain[x.invoice].confirmed, chain[x.invoice].unconfirmed))
        BY <1>3 DEF ObserveOnchain
    <2> DEFINE next == OnchainStatus(x.status, late[x.invoice], Due[x.invoice],
                                     chain[x.invoice].confirmed,
                                     chain[x.invoice].unconfirmed)
               seen == Amounts(chain[x.invoice].confirmed,
                               chain[x.invoice].unconfirmed)
    <2>2. poller[p].at = "working" /\ UNCHANGED <<rowVars, world>>
        BY <1>3 DEF ObserveOnchain
    <2>3. x \in Snapshot
        BY <2>2, PollerAt DEF Working
    <2>4. /\ x.status \in InvoiceStatuses /\ x.invoice \in Invoices
          /\ late[x.invoice] \in BOOLEAN /\ Due[x.invoice] \in Nat
          /\ chain[x.invoice].confirmed \in Nat /\ chain[x.invoice].unconfirmed \in Nat
        BY <2>3, InvoiceAssumption DEF Snapshot, TypeOK
    <2>5. next \in Timely =>
              \/ x.status \in Timely
              \/ /\ ~late[x.invoice]
                 /\ chain[x.invoice].confirmed + chain[x.invoice].unconfirmed
                        >= Due[x.invoice]
        BY <2>4, StatusTimely
    <2>6. next \in Timely => inTime[x.invoice]
        BY <2>2, <2>4, <2>5 DEF TimelyIsTrue, OnAddress
    <2>7. Decide(p, x, next, seen)
        BY <2>1
    <2> HIDE DEF next, seen
    <2> QED
        BY <1>t, <2>2, <2>6, <2>7, DecideTimely
<1>4. CASE ObserveLightning(p)
    <2>1. PICK x \in poller[p].queue :
              LET i == x.invoice
                  paid == received[i] >= Due[i]
                  sats == IF paid \/ (Backend = "phoenixd" /\ received[i] > 0)
                          THEN received[i] ELSE x.payment.paid
              IN Decide(p, x, LightningStatus(x.status, late[i], paid), Amounts(sats, 0))
        BY <1>4 DEF ObserveLightning
    <2> DEFINE paid == received[x.invoice] >= Due[x.invoice]
               sats == IF paid \/ (Backend = "phoenixd" /\ received[x.invoice] > 0)
                       THEN received[x.invoice] ELSE x.payment.paid
               next == LightningStatus(x.status, late[x.invoice], paid)
               seen == Amounts(sats, 0)
    <2>2. poller[p].at = "working" /\ UNCHANGED <<rowVars, world>>
        BY <1>4 DEF ObserveLightning
    <2>3. x \in Snapshot
        BY <2>2, PollerAt DEF Working
    <2>4. /\ x.status \in InvoiceStatuses /\ x.invoice \in Invoices
          /\ late[x.invoice] \in BOOLEAN /\ Due[x.invoice] \in Nat
          /\ received[x.invoice] \in Nat /\ paid \in BOOLEAN
        BY <2>3, InvoiceAssumption DEF Snapshot, TypeOK
    <2>5. next \in Timely => x.status \in Timely \/ (~late[x.invoice] /\ paid)
        <3> HIDE DEF paid
        <3> QED
            BY <2>4 DEF LightningStatus, InvoiceStatuses, Timely
    <2>6. next \in Timely => inTime[x.invoice]
        BY <2>2, <2>4, <2>5 DEF TimelyIsTrue
    <2>7. Decide(p, x, next, seen)
        BY <2>1
    <2> HIDE DEF next, seen, paid, sats
    <2> QED
        BY <1>t, <2>2, <2>6, <2>7, DecideTimely
<1>5. CASE Expire(p)
    <2>1. PICK x \in poller[p].queue : Decide(p, x, "expired", x.payment)
        BY <1>5 DEF Expire
    <2>2. poller[p].at = "working" /\ UNCHANGED <<rowVars, world>>
        BY <1>5 DEF Expire
    <2>3. "expired" \notin Timely
        BY DEF Timely
    <2> QED
        BY <1>t, <2>1, <2>2, <2>3, DecideTimely
<1>6. CASE Write(p)
    <2> DEFINE state == [at |-> "working", pass |-> poller[p].pass,
                         queue |-> poller[p].queue]
    <2>1. poller' = [poller EXCEPT ![p] = state] /\ poller[p].at = "writing"
        BY <1>6 DEF Write, Continue
    <2>2. state \in PollerStates
        <3> HIDE DEF state
        <3> QED
            BY <1>t, <2>1 DEF TypeOK
    <2>3. \A x \in state.queue : x.status \in Timely => inTime[x.invoice]
        BY <2>1 DEF TimelyIsTrue
    <2>4. poller[p].read.invoice \in Invoices
        BY <2>1, PollerAt DEF Writing, Snapshot
    <2>5. \/ UNCHANGED status
          \/ status' = [status EXCEPT ![poller[p].read.invoice] = poller[p].next]
        BY <1>6 DEF Write
    <2>6. \A i \in Invoices : status'[i] \in Timely => inTime[i]
        BY <2>1, <2>4, <2>5 DEF TimelyIsTrue, TypeOK
    <2>7. state.at = "working"
        OBVIOUS
    <2> HIDE DEF state
    <2> QED
        BY <1>0, <2>1, <2>2, <2>3, <2>6, <2>7, PollerMoves
<1>7. CASE EndPass(p) \/ AbortRun(p)
    <2>1. PICK state \in {Waiting} \cup Listing :
              poller' = [poller EXCEPT ![p] = state]
        <3>1. CASE EndPass(p)
            <4>1. poller[p].pass \in Passes
                BY <3>1, PollerAt DEF EndPass, Working
            <4> QED
                BY <3>1, <4>1 DEF EndPass, Passes, Listing
        <3>2. CASE AbortRun(p)
            BY <3>2 DEF AbortRun
        <3> QED
            BY <1>7, <3>1, <3>2
    <2>2. state \in PollerStates /\ state.at \notin {"working", "writing"}
        BY DEF PollerStates, Waiting, Listing
    <2>3. UNCHANGED status
        BY <1>7 DEF EndPass, AbortRun, rowVars
    <2> QED
        BY <1>0, <1>s, <2>1, <2>2, <2>3, PollerMoves
<1> QED
    BY <1>1, <1>2, <1>3, <1>4, <1>5, <1>6, <1>7 DEF RunStep

\* No invoice is settled whose full amount first arrived after it expired, by
\* any number of pollers that write from readings of any age
\* (onchain::next_status, lightning::next_status, sync_once).
THEOREM NothingLateIsSettled == Spec => []SettledInTime
<1>1. Init => TimelyIsTrue
    BY InvoiceAssumption DEF Init, TimelyIsTrue, Timely, OnAddress, Waiting
<1>2. TypeOK /\ TimelyIsTrue /\ [Next]_vars => TimelyIsTrue'
    <2>1. CASE UNCHANGED vars
        BY <2>1 DEF vars, rowVars, world, TimelyIsTrue, OnAddress
    <2> QED
        BY <2>1, EnvironmentTimely, PollerTimely DEF Next
<1>3. TimelyIsTrue => SettledInTime
    BY DEF TimelyIsTrue, SettledInTime, Timely
<1> QED
    BY <1>1, <1>2, <1>3, PollingTyping, PTL DEF Spec

------------------------------------------------------------------------------
(* Announced once.                                                         *)

\* A status written with its event has one delivery, new or old.
LEMMA AnnounceOnce ==
    ASSUME TypeOK, OneDeliveryPerEvent, NEW i \in Invoices,
           NEW next \in InvoiceStatuses,
           status' = [status EXCEPT ![i] = next], Announce(i, next)
    PROVE  OneDeliveryPerEvent'
<1>1. /\ events' = [events EXCEPT ![i] = events[i] \cup {next}]
      /\ enqueued' = [enqueued EXCEPT ![i] =
            [enqueued[i] EXCEPT ![next] = IF next \in events[i] THEN @ ELSE @ + 1]]
    BY DEF Announce
<1>2. /\ events'[i] = events[i] \cup {next} /\ status'[i] = next
      /\ enqueued'[i] =
            [enqueued[i] EXCEPT ![next] = IF next \in events[i] THEN @ ELSE @ + 1]
    BY <1>1 DEF TypeOK
<1>3. \A j \in Invoices \ {i} : /\ events'[j] = events[j] /\ status'[j] = status[j]
                                /\ enqueued'[j] = enqueued[j]
    BY <1>1 DEF TypeOK
<1>4. enqueued[i] \in [InvoiceStatuses -> Nat]
    BY DEF TypeOK
<1>5. \A s \in InvoiceStatuses : enqueued'[i][s] = (IF s \in events'[i] THEN 1 ELSE 0)
    <2> SUFFICES ASSUME NEW s \in InvoiceStatuses
                 PROVE  enqueued'[i][s] = (IF s \in events'[i] THEN 1 ELSE 0)
        OBVIOUS
    <2>1. enqueued[i][s] = (IF s \in events[i] THEN 1 ELSE 0)
        BY DEF OneDeliveryPerEvent
    <2>2. CASE s = next
        BY <1>2, <1>4, <2>1, <2>2
    <2>3. CASE s /= next
        BY <1>2, <1>4, <2>1, <2>3
    <2> QED
        BY <2>2, <2>3
<1>6. status'[i] \in events'[i]
    BY <1>2
<1> QED
    BY <1>3, <1>5, <1>6 DEF OneDeliveryPerEvent

\* Each status an invoice takes is announced once, however often any number of
\* pollers leave and take it again (update_invoice_status).
THEOREM StatusAnnouncedOnce == Spec => []AnnouncedOnce
<1>1. Init => OneDeliveryPerEvent
    BY DEF Init, OneDeliveryPerEvent
<1>2. TypeOK /\ OneDeliveryPerEvent /\ [Next]_vars => OneDeliveryPerEvent'
    <2> SUFFICES ASSUME TypeOK, OneDeliveryPerEvent, [Next]_vars
                 PROVE  OneDeliveryPerEvent'
        OBVIOUS
    <2>1. ASSUME UNCHANGED <<status, events, enqueued>> PROVE OneDeliveryPerEvent'
        BY <2>1 DEF OneDeliveryPerEvent
    <2>2. ASSUME NEW p \in Pollers, Write(p) PROVE OneDeliveryPerEvent'
        <3>1. /\ poller[p].read.invoice \in Invoices
              /\ poller[p].next \in InvoiceStatuses
            BY <2>2, PollerAt DEF Write, Writing, Snapshot
        <3>2. \/ UNCHANGED <<status, events, enqueued>>
              \/ /\ status' = [status EXCEPT ![poller[p].read.invoice] = poller[p].next]
                 /\ Announce(poller[p].read.invoice, poller[p].next)
            BY <2>2 DEF Write
        <3> QED
            BY <2>1, <3>1, <3>2, AnnounceOnce
    <2>3. ASSUME NEW p \in Pollers,
                 \/ BeginRun(p) \/ List(p) \/ ObserveOnchain(p) \/ ObserveLightning(p)
                 \/ Expire(p) \/ EndPass(p) \/ AbortRun(p)
          PROVE  OneDeliveryPerEvent'
        BY <2>1, <2>3 DEF BeginRun, List, ObserveOnchain, ObserveLightning, Expire,
           EndPass, AbortRun, rowVars
    <2>4. ASSUME NEW i \in Invoices, Environment(i) PROVE OneDeliveryPerEvent'
        BY <2>1, <2>4 DEF Environment, PayOnchain, Mine, Reorganize, PayLightning,
           Deadline, rowVars
    <2>5. CASE UNCHANGED vars
        BY <2>1, <2>5 DEF vars, rowVars
    <2> QED
        BY <2>2, <2>3, <2>4, <2>5 DEF Next, RunStep
<1>3. TypeOK /\ OneDeliveryPerEvent => AnnouncedOnce
    <2> SUFFICES ASSUME TypeOK, OneDeliveryPerEvent, NEW i \in Invoices
                 PROVE  /\ status[i] /= "new" => enqueued[i][status[i]] = 1
                        /\ \A s \in InvoiceStatuses : enqueued[i][s] <= 1
        BY DEF AnnouncedOnce
    <2>1. status[i] \in InvoiceStatuses
        BY DEF TypeOK
    <2>2. \A s \in InvoiceStatuses : enqueued[i][s] = (IF s \in events[i] THEN 1 ELSE 0)
        BY DEF OneDeliveryPerEvent
    <2>3. status[i] /= "new" => status[i] \in events[i]
        BY DEF OneDeliveryPerEvent
    <2> QED
        BY <2>1, <2>2, <2>3
<1> QED
    BY <1>1, <1>2, <1>3, PollingTyping, PTL DEF Spec

------------------------------------------------------------------------------
(* Final statuses, with one poller.                                        *)

\* next_status of either rail takes a final status, from one that is not, only when
\* what it was told of covers the invoice.
LEMMA StatusCovered ==
    ASSUME NEW current \in InvoiceStatuses \ Final, NEW isLate \in BOOLEAN,
           NEW due \in Nat, NEW confirmed \in Nat, NEW unconfirmed \in Nat,
           NEW paid \in BOOLEAN
    PROVE  /\ Covers(OnchainStatus(current, isLate, due, confirmed, unconfirmed),
                     Amounts(confirmed, unconfirmed), due)
           /\ LightningStatus(current, isLate, paid) \in Final => paid
<1> DEFINE next == OnchainStatus(current, isLate, due, confirmed, unconfirmed)
<1>1. /\ next = "settled" => confirmed >= due
      /\ next = "paid_late" => confirmed + unconfirmed >= due
    BY DEF OnchainStatus, DetectedInTime, InvoiceStatuses, Final
<1>2. LightningStatus(current, isLate, paid) \in Final => paid
    BY DEF LightningStatus, InvoiceStatuses, Final
<1> QED
    BY <1>1, <1>2 DEF Covers, Amounts

\* The only poller moves to a state whose readings hold.
LEMMA SoleMoves ==
    ASSUME TypeOK, NEW p \in Pollers, \A q \in Pollers : q = p,
           UNCHANGED <<status, payment>>,
           NEW state, poller' = [poller EXCEPT ![p] = state],
           state.at \in {"working", "writing"} =>
               \A x \in state.queue : IsReading(x),
           state.at = "writing" =>
               /\ IsReading(state.read)
               /\ \A x \in state.queue : x.invoice /= state.read.invoice
               /\ Covers(state.next, state.seen, Due[state.read.invoice])
    PROVE  ReadingsHold'
<1>1. \A q \in Pollers : poller'[q] = state
    BY DEF TypeOK
<1> QED
    BY <1>1 DEF ReadingsHold, IsReading, Covers

\* What is decided from a reading leaves the others, which are of other invoices.
LEMMA DecideHolds ==
    ASSUME TypeOK, ReadingsHold, NEW p \in Pollers, \A q \in Pollers : q = p,
           poller[p].at = "working", NEW x \in poller[p].queue, NEW next, NEW seen,
           Decide(p, x, next, seen), UNCHANGED <<rowVars, world>>,
           Covers(next, seen, Due[x.invoice])
    PROVE  ReadingsHold'
<1> DEFINE state == [at |-> "writing", pass |-> poller[p].pass,
                     queue |-> poller[p].queue \ {x},
                     read |-> x, next |-> next, seen |-> seen]
<1>1. poller' = [poller EXCEPT ![p] = state]
    BY DEF Decide
<1>2. \A y \in poller[p].queue : y \in Snapshot /\ IsReading(y)
    BY PollerAt DEF ReadingsHold, Working
<1>3. \A y \in state.queue : y.invoice /= x.invoice
    BY <1>2 DEF IsReading, Snapshot
<1>4. /\ \A y \in state.queue : IsReading(y)
      /\ IsReading(state.read)
      /\ \A y \in state.queue : y.invoice /= state.read.invoice
      /\ Covers(state.next, state.seen, Due[state.read.invoice])
    BY <1>2, <1>3
<1>5. UNCHANGED <<status, payment>>
    BY DEF rowVars
<1> HIDE DEF state
<1> QED
    BY <1>1, <1>4, <1>5, SoleMoves

\* A write leaves the invoices whose readings are still to be worked on alone, and
\* the one it is about was not final.
LEMMA WriteMoves ==
    ASSUME TypeOK, ReadingsHold, NEW p \in Pollers, Write(p)
    PROVE  /\ \A i \in Invoices \ {poller[p].read.invoice} :
                  status'[i] = status[i] /\ payment'[i] = payment[i]
           /\ status[poller[p].read.invoice] \notin Final
           /\ Covers(status'[poller[p].read.invoice], payment'[poller[p].read.invoice],
                     Due[poller[p].read.invoice])
<1> DEFINE i == poller[p].read.invoice
<1>1. i \in Invoices
    BY PollerAt DEF Write, Writing, Snapshot
<1>2. /\ poller[p].read.status = status[i] /\ status[i] \notin Final
      /\ Covers(poller[p].next, poller[p].seen, Due[i])
    BY DEF Write, ReadingsHold, IsReading
<1>3. \A j \in Invoices \ {i} : status'[j] = status[j] /\ payment'[j] = payment[j]
    BY DEF Write, TypeOK
<1>4. CASE poller[p].next = poller[p].read.status
    BY <1>1, <1>2, <1>4 DEF Write, Covers, Final
<1>5. CASE poller[p].next /= poller[p].read.status
    BY <1>1, <1>2, <1>5 DEF Write, TypeOK
<1> QED
    BY <1>2, <1>3, <1>4, <1>5

\* The only poller keeps its readings true: nobody else writes.
LEMMA PollerHolds ==
    ASSUME TypeOK, ReadingsHold, NEW p \in Pollers, \A q \in Pollers : q = p,
           RunStep(p) \/ AbortRun(p)
    PROVE  ReadingsHold'
<1>1. CASE BeginRun(p)
    BY <1>1, SoleMoves DEF BeginRun, rowVars
<1>2. CASE List(p)
    <2> DEFINE queue == {[invoice |-> i, status |-> status[i], payment |-> payment[i]] :
                             i \in Selected(poller[p].pass)}
               state == [at |-> "working", pass |-> poller[p].pass, queue |-> queue]
    <2>1. poller' = [poller EXCEPT ![p] = state] /\ UNCHANGED <<status, payment>>
        BY <1>2 DEF List, Continue, rowVars
    <2>2. poller[p].pass \in Passes
        BY <1>2, PollerAt DEF List, Listing
    <2>3. \A i \in Selected(poller[p].pass) : status[i] \notin Final
        BY <2>2 DEF Selected, Passes, ActiveStatuses, ExpirableStatuses, Final
    <2>4. \A x \in queue : IsReading(x)
        BY <2>3 DEF IsReading
    <2> HIDE DEF queue
    <2>5. state.at = "working" /\ state.queue = queue
        OBVIOUS
    <2> HIDE DEF state
    <2> QED
        BY <2>1, <2>4, <2>5, SoleMoves
<1>3. CASE ObserveOnchain(p)
    <2>1. PICK x \in poller[p].queue :
              Decide(p, x,
                     OnchainStatus(x.status, late[x.invoice], Due[x.invoice],
                                   chain[x.invoice].confirmed,
                                   chain[x.invoice].unconfirmed),
                     Amounts(chain[x.invoice].confirmed, chain[x.invoice].unconfirmed))
        BY <1>3 DEF ObserveOnchain
    <2>2. poller[p].at = "working" /\ UNCHANGED <<rowVars, world>>
        BY <1>3 DEF ObserveOnchain
    <2>3. x \in Snapshot /\ x.status \notin Final
        BY <2>2, PollerAt DEF Working, ReadingsHold, IsReading
    <2>4. /\ x.status \in InvoiceStatuses \ Final /\ x.invoice \in Invoices
          /\ late[x.invoice] \in BOOLEAN /\ Due[x.invoice] \in Nat
          /\ chain[x.invoice].confirmed \in Nat /\ chain[x.invoice].unconfirmed \in Nat
        BY <2>3, InvoiceAssumption DEF Snapshot, TypeOK
    <2>5. Covers(OnchainStatus(x.status, late[x.invoice], Due[x.invoice],
                               chain[x.invoice].confirmed,
                               chain[x.invoice].unconfirmed),
                 Amounts(chain[x.invoice].confirmed, chain[x.invoice].unconfirmed),
                 Due[x.invoice])
        BY <2>4, StatusCovered
    <2> QED
        BY <2>1, <2>2, <2>5, DecideHolds
<1>4. CASE ObserveLightning(p)
    <2>1. PICK x \in poller[p].queue :
              LET i == x.invoice
                  paid == received[i] >= Due[i]
                  sats == IF paid \/ (Backend = "phoenixd" /\ received[i] > 0)
                          THEN received[i] ELSE x.payment.paid
              IN Decide(p, x, LightningStatus(x.status, late[i], paid), Amounts(sats, 0))
        BY <1>4 DEF ObserveLightning
    <2> DEFINE paid == received[x.invoice] >= Due[x.invoice]
               sats == IF paid \/ (Backend = "phoenixd" /\ received[x.invoice] > 0)
                       THEN received[x.invoice] ELSE x.payment.paid
               next == LightningStatus(x.status, late[x.invoice], paid)
               seen == Amounts(sats, 0)
    <2>2. poller[p].at = "working" /\ UNCHANGED <<rowVars, world>>
        BY <1>4 DEF ObserveLightning
    <2>3. x \in Snapshot /\ x.status \notin Final
        BY <2>2, PollerAt DEF Working, ReadingsHold, IsReading
    <2>4. /\ x.status \in InvoiceStatuses \ Final /\ x.invoice \in Invoices
          /\ late[x.invoice] \in BOOLEAN /\ Due[x.invoice] \in Nat
          /\ received[x.invoice] \in Nat /\ paid \in BOOLEAN
        BY <2>3, InvoiceAssumption DEF Snapshot, TypeOK
    <2>5. next \in Final => paid
        <3> HIDE DEF paid
        <3> QED
            BY <2>4, StatusCovered
    <2>6. paid => sats = received[x.invoice]
        OBVIOUS
    <2>7. Covers(next, seen, Due[x.invoice])
        <3>1. next \in Final => sats >= Due[x.invoice] /\ sats + 0 = sats
            BY <2>4, <2>5, <2>6
        <3> HIDE DEF next, sats, paid
        <3> QED
            BY <3>1 DEF Covers, Amounts, Final
    <2>8. Decide(p, x, next, seen)
        BY <2>1
    <2> HIDE DEF next, seen, paid, sats
    <2> QED
        BY <2>2, <2>7, <2>8, DecideHolds
<1>5. CASE Expire(p)
    <2>1. PICK x \in poller[p].queue : Decide(p, x, "expired", x.payment)
        BY <1>5 DEF Expire
    <2>2. poller[p].at = "working" /\ UNCHANGED <<rowVars, world>>
        BY <1>5 DEF Expire
    <2>3. Covers("expired", x.payment, Due[x.invoice])
        BY DEF Covers
    <2> QED
        BY <2>1, <2>2, <2>3, DecideHolds
<1>6. CASE Write(p)
    <2>1. \A q \in Pollers : poller'[q] = [at |-> "working", pass |-> poller[p].pass,
                                           queue |-> poller[p].queue]
        BY <1>6 DEF Write, Continue, TypeOK
    <2>2. ASSUME NEW x \in poller[p].queue
          PROVE  /\ x.status = status'[x.invoice] /\ x.payment = payment'[x.invoice]
                 /\ x.status \notin Final
        <3>1. x \in Snapshot
            BY <1>6, PollerAt DEF Write, Writing
        <3>2. IsReading(x) /\ x.invoice /= poller[p].read.invoice
            BY <1>6 DEF Write, ReadingsHold
        <3> QED
            BY <1>6, <3>1, <3>2, WriteMoves DEF IsReading, Snapshot
    <2> QED
        BY <2>1, <2>2 DEF ReadingsHold, IsReading
<1>7. CASE EndPass(p) \/ AbortRun(p)
    <2>1. PICK state \in {Waiting} \cup Listing :
              poller' = [poller EXCEPT ![p] = state]
        <3>1. CASE EndPass(p)
            <4>1. poller[p].pass \in Passes
                BY <3>1, PollerAt DEF EndPass, Working
            <4> QED
                BY <3>1, <4>1 DEF EndPass, Passes, Listing
        <3>2. CASE AbortRun(p)
            BY <3>2 DEF AbortRun
        <3> QED
            BY <1>7, <3>1, <3>2
    <2>2. state.at \notin {"working", "writing"}
        BY DEF Waiting, Listing
    <2>3. UNCHANGED <<status, payment>>
        BY <1>7 DEF EndPass, AbortRun, rowVars
    <2> QED
        BY <2>1, <2>2, <2>3, SoleMoves
<1> QED
    BY <1>1, <1>2, <1>3, <1>4, <1>5, <1>6, <1>7 DEF RunStep

\* Steps that write no row, and leave the poller alone.
LEMMA IdleHolds ==
    ASSUME ReadingsHold, UNCHANGED <<status, payment, poller>>
    PROVE  ReadingsHold'
    BY DEF ReadingsHold, IsReading, Covers

LEMMA HoldsStep ==
    ASSUME \A p, q \in Pollers : p = q, TypeOK, ReadingsHold, [Next]_vars
    PROVE  ReadingsHold'
<1>1. ASSUME NEW i \in Invoices, Environment(i) PROVE ReadingsHold'
    BY <1>1, IdleHolds DEF Environment, PayOnchain, Mine, Reorganize, PayLightning,
       Deadline, rowVars
<1>2. ASSUME NEW p \in Pollers, RunStep(p) \/ AbortRun(p) PROVE ReadingsHold'
    <2>1. \A q \in Pollers : q = p
        OBVIOUS
    <2> QED
        BY <1>2, <2>1, PollerHolds
<1>3. CASE UNCHANGED vars
    BY <1>3, IdleHolds DEF vars, rowVars
<1> QED
    BY <1>1, <1>2, <1>3 DEF Next

\* Rows change by Write alone.
LEMMA RowsMove ==
    ASSUME [Next]_vars
    PROVE  UNCHANGED <<status, payment>> \/ \E p \in Pollers : Write(p)
    BY DEF Next, RunStep, Environment, BeginRun, List, ObserveOnchain,
       ObserveLightning, Expire, EndPass, AbortRun, PayOnchain, Mine, Reorganize,
       PayLightning, Deadline, vars, rowVars

LEMMA SoleReadingsHold ==
    ASSUME \A p, q \in Pollers : p = q
    PROVE  Spec => [](TypeOK /\ ReadingsHold)
<1>1. Init => ReadingsHold
    BY DEF Init, ReadingsHold, Waiting
<1>2. TypeOK /\ ReadingsHold /\ [Next]_vars => ReadingsHold'
    BY HoldsStep
<1> QED
    BY <1>1, <1>2, PollingTyping, PTL DEF Spec

\* With one poller no status is taken back that is final, although every pass writes
\* from a list it read before (sync_once, update_invoice_status).
THEOREM FinalStays ==
    ASSUME \A p, q \in Pollers : p = q
    PROVE  Spec => FinalIsFinal
<1> DEFINE Inv == TypeOK /\ ReadingsHold
           Step == \A i \in Invoices : status[i] \in Final => status'[i] = status[i]
<1>1. Inv /\ [Next]_vars => Step
    BY RowsMove, WriteMoves
<1>2. Spec => []Inv
    BY SoleReadingsHold
<1>3. FinalIsFinal <=> [][Step]_vars
    BY DEF FinalIsFinal
<1> HIDE DEF Inv, Step
<1> QED
    BY <1>1, <1>2, <1>3, PTL DEF Spec

\* With one poller the sums stored with a final status cover the invoice
\* (update_invoice_payment_amounts).
THEOREM FinalCovers ==
    ASSUME \A p, q \in Pollers : p = q
    PROVE  Spec => []FinalIsCovered
<1> DEFINE Inv == TypeOK /\ ReadingsHold
           Covered == \A i \in Invoices : Covers(status[i], payment[i], Due[i])
<1>1. Init => Covered
    BY DEF Init, Covers
<1>2. Inv /\ Covered /\ [Next]_vars => Covered'
    <2> SUFFICES ASSUME Inv, Covered, [Next]_vars, NEW i \in Invoices
                 PROVE  Covers(status'[i], payment'[i], Due[i])
        BY DEF Covers
    <2>1. CASE UNCHANGED <<status, payment>>
        BY <2>1
    <2>2. ASSUME NEW p \in Pollers, Write(p)
          PROVE  Covers(status'[i], payment'[i], Due[i])
        BY <2>2, WriteMoves
    <2> QED
        BY <2>1, <2>2, RowsMove
<1>3. Spec => []Inv
    BY SoleReadingsHold
<1>4. Covered => FinalIsCovered
    BY DEF Covers, FinalIsCovered
<1> HIDE DEF Inv, Covered
<1> QED
    BY <1>1, <1>2, <1>3, <1>4, PTL DEF Spec
==============================================================================
