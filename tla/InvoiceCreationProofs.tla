------------------------ MODULE InvoiceCreationProofs ------------------------
(***************************************************************************)
(* Theorems about InvoiceCreation, for any requests, payment links and     *)
(* keys: the counter stays ahead of the indexes in use on both databases,  *)
(* on SQLite every invoice has an address of its own, and a key of a scope *)
(* has one invoice.  At the end, theorems about PricedInvoices, which adds *)
(* the rates.                                                              *)
(***************************************************************************)
EXTENDS PricedInvoices, FiniteSetTheorems, TLAPS

Typed == TypeOK /\ IsFiniteSet(invoices)

\* Moving a request under way on keeps its scope and key, and its type.
LEMMA MoveTyped ==
    ASSUME request \in [Requests -> {Idle} \cup Job],
           NEW q \in Requests, request[q] /= Idle,
           NEW phase \in Phases, NEW index \in Nat,
           Move(q, phase, index)
    PROVE  /\ request' \in [Requests -> {Idle} \cup Job]
           /\ request'[q] = [request[q] EXCEPT !.at = phase, !.index = index]
           /\ \A r \in Requests \ {q} : request'[r] = request[r]
<1>1. request[q] \in Job
    OBVIOUS
<1> DEFINE moved == [request[q] EXCEPT !.at = phase, !.index = index]
<1>2. moved \in Job
    BY <1>1 DEF Job
<1>3. request' = [request EXCEPT ![q] = moved]
    BY DEF Move
<1> HIDE DEF moved
<1>4. request' \in [Requests -> {Idle} \cup Job] /\ request'[q] = moved
    BY <1>2, <1>3
<1>5. \A r \in Requests \ {q} : request'[r] = request[r]
    BY <1>3
<1> QED
    BY <1>4, <1>5 DEF moved

\* Every step keeps the types, and stores one row at most.
LEMMA TypedStep == Typed /\ [Next]_vars => Typed'
<1> SUFFICES ASSUME Typed, [Next]_vars PROVE Typed'
    OBVIOUS
<1> USE CreationAssumption DEF Typed, TypeOK
<1>1. CASE UNCHANGED vars
    BY <1>1 DEF vars
<1>2. ASSUME NEW q \in Requests, Receive(q) PROVE Typed'
    <2>1. request[q] = Idle /\ UNCHANGED <<next, writer, invoices>>
        BY <1>2 DEF Receive
    <2>2. PICK scope \in Scopes, key \in Keys \cup {NoKey} :
              IF WithKey(scope, key) /= {}
              THEN /\ AnswerWith(scope, key, {v.id : v \in WithKey(scope, key)})
                   /\ UNCHANGED request
              ELSE /\ request' = [request EXCEPT ![q] =
                        [at |-> "building", scope |-> scope, key |-> key, index |-> 0]]
                   /\ UNCHANGED answered
        BY <1>2 DEF Receive
    <2>3. CASE WithKey(scope, key) /= {}
        <3>1. {v.id : v \in WithKey(scope, key)} \subseteq Nat
            BY DEF WithKey, Invoice
        <3>2. answered' \subseteq Answer
            BY <2>2, <2>3, <3>1 DEF AnswerWith, Answer
        <3> QED
            BY <2>1, <2>2, <2>3, <3>2
    <2>4. CASE WithKey(scope, key) = {}
        BY <2>1, <2>2, <2>4 DEF Job, Phases
    <2> QED
        BY <2>3, <2>4
<1>3. ASSUME NEW q \in Requests, OpenCounter(q) PROVE Typed'
    <2>1. Move(q, "opened", 0) /\ request[q] /= Idle
        BY <1>3 DEF OpenCounter, Idle
    <2>2. 0 \in Nat /\ "opened" \in Phases
        BY <2>1 DEF Job, Phases
    <2>3. request' \in [Requests -> {Idle} \cup Job]
        BY <2>1, <2>2, MoveTyped
    <2> QED
        BY <1>3, <2>3 DEF OpenCounter
<1>4. ASSUME NEW q \in Requests, ReadIndex(q) PROVE Typed'
    <2>1. Move(q, "read", next) /\ request[q] /= Idle
        BY <1>4 DEF ReadIndex, Idle
    <2>2. next \in Nat /\ "read" \in Phases
        BY <2>1 DEF Job, Phases
    <2>3. request' \in [Requests -> {Idle} \cup Job]
        BY <2>1, <2>2, MoveTyped
    <2> QED
        BY <1>4, <2>3 DEF ReadIndex
<1>5. ASSUME NEW q \in Requests, BumpIndex(q) PROVE Typed'
    <2>1. Move(q, "inserting", request[q].index) /\ request[q] /= Idle
        BY <1>5 DEF BumpIndex, Idle
    <2>2. request[q].index \in Nat /\ "inserting" \in Phases
        BY <2>1 DEF Job, Phases
    <2>3. request' \in [Requests -> {Idle} \cup Job]
        BY <2>1, <2>2, MoveTyped
    <2> QED
        BY <1>5, <2>3 DEF BumpIndex
<1>6. ASSUME NEW q \in Requests, InsertInvoice(q) PROVE Typed'
    <2> DEFINE job == request[q]
               taken == WithKey(job.scope, job.key)
               id == Cardinality(invoices)
               new == [id |-> id, scope |-> job.scope, key |-> job.key,
                       index |-> job.index]
    <2>1. job \in Job
        BY <1>6 DEF InsertInvoice, Idle
    <2>2. id \in Nat
        BY FS_CardinalityType
    <2>3. /\ request' = [request EXCEPT ![q] = Idle]
          /\ UNCHANGED <<next, writer>>
        BY <1>6 DEF InsertInvoice
    <2>4. CASE taken /= {}
        <3>1. {v.id : v \in taken} \subseteq Nat
            BY DEF WithKey, Invoice
        <3>2. AnswerWith(job.scope, job.key, {v.id : v \in taken}) /\ UNCHANGED invoices
            BY <1>6, <2>4 DEF InsertInvoice
        <3>3. answered' \subseteq Answer
            BY <2>1, <3>1, <3>2 DEF AnswerWith, Answer, Job
        <3> QED
            BY <2>3, <3>2, <3>3
    <2>5. CASE taken = {}
        <3>1. invoices' = invoices \cup {new} /\ AnswerWith(job.scope, job.key, {id})
            BY <1>6, <2>5 DEF InsertInvoice
        <3>2. new \in Invoice
            BY <2>1, <2>2 DEF Job, Invoice
        <3>3. answered' \subseteq Answer
            BY <2>1, <2>2, <3>1 DEF AnswerWith, Answer, Job
        <3>4. IsFiniteSet(invoices')
            BY <3>1, FS_AddElement
        <3> QED
            BY <2>3, <3>1, <3>2, <3>3, <3>4
    <2> QED
        BY <2>4, <2>5
<1>7. ASSUME NEW q \in Requests, Abandon(q) PROVE Typed'
    BY <1>7 DEF Abandon
<1> QED
    BY <1>1, <1>2, <1>3, <1>4, <1>5, <1>6, <1>7 DEF Next

\* The types hold always, and there are finitely many rows.
LEMMA AlwaysTyped == Spec => []Typed
<1>1. Init => Typed
    BY CreationAssumption, FS_EmptySet DEF Init, Typed, TypeOK
<1> QED
    BY <1>1, TypedStep, PTL DEF Spec

\* Rows, answers and requests keep their types on both databases (the tables of
\* src/storage.rs and what the handlers of src/api.rs hold).
THEOREM CreationTyping == Spec => []TypeOK
<1>1. Typed => TypeOK
    BY DEF Typed
<1> QED
    BY <1>1, AlwaysTyped, PTL

------------------------------------------------------------------------------
(* The steps, as far as indexes and rows are concerned.                    *)

\* What a step of q does to the requests, the counter and the rows: it rests or
\* starts over, opens the counter, reads it, increments it, or stores its row.
LEMMA StepCases ==
    ASSUME Typed, NEW q \in Requests,
           \/ Receive(q) \/ OpenCounter(q) \/ ReadIndex(q) \/ BumpIndex(q)
           \/ InsertInvoice(q) \/ Abandon(q)
    PROVE  /\ \A r \in Requests \ {q} : request'[r] = request[r]
           /\ \/ /\ request'[q].at \in {"idle", "building"}
                 /\ writer /= q => writer' = writer
                 /\ UNCHANGED <<next, invoices>>
              \/ /\ request'[q].at = "opened"
                 /\ Database = "sqlite" => writer = Nobody /\ writer' = q
                 /\ UNCHANGED <<next, invoices>>
              \/ /\ request[q].at = "opened" /\ request'[q].at = "read"
                 /\ request'[q].index = next
                 /\ UNCHANGED <<next, writer, invoices>>
              \/ /\ request[q].at = "read" /\ request'[q].at = "inserting"
                 /\ request'[q].index = request[q].index
                 /\ next' = next + 1 /\ UNCHANGED invoices
                 /\ writer /= q => writer' = writer
              \/ /\ request[q].at = "inserting" /\ request'[q].at = "idle"
                 /\ \E id \in Nat :
                       invoices' = invoices \cup
                           {[id |-> id, scope |-> request[q].scope,
                             key |-> request[q].key, index |-> request[q].index]}
                 /\ WithKey(request[q].scope, request[q].key) = {}
                 /\ UNCHANGED <<next, writer>>
<1> USE DEF Typed, TypeOK
<1>1. CASE Receive(q)
    BY <1>1 DEF Receive, Idle
<1>2. CASE OpenCounter(q)
    <2>1. /\ Move(q, "opened", 0) /\ request[q] /= Idle
          /\ Database = "sqlite" => writer = Nobody /\ writer' = q
          /\ UNCHANGED <<next, invoices>>
        BY <1>2 DEF OpenCounter, Idle
    <2>2. /\ request'[q] = [request[q] EXCEPT !.at = "opened", !.index = 0]
          /\ \A r \in Requests \ {q} : request'[r] = request[r]
        BY <2>1, MoveTyped DEF Phases
    <2> QED
        BY <2>1, <2>2 DEF Job
<1>3. CASE ReadIndex(q)
    <2>1. /\ Move(q, "read", next) /\ request[q] /= Idle
          /\ request[q].at = "opened" /\ UNCHANGED <<next, writer, invoices>>
        BY <1>3 DEF ReadIndex, Idle
    <2>2. /\ request'[q] = [request[q] EXCEPT !.at = "read", !.index = next]
          /\ \A r \in Requests \ {q} : request'[r] = request[r]
        BY <2>1, MoveTyped DEF Phases
    <2> QED
        BY <2>1, <2>2 DEF Job
<1>4. CASE BumpIndex(q)
    <2>1. /\ Move(q, "inserting", request[q].index) /\ request[q] /= Idle
          /\ request[q].at = "read" /\ next' = next + 1 /\ UNCHANGED invoices
          /\ writer /= q => writer' = writer
        BY <1>4 DEF BumpIndex, Idle
    <2>2. PICK i \in Nat : i = request[q].index
        BY <2>1 DEF Job
    <2>3. Move(q, "inserting", i)
        BY <2>1, <2>2
    <2>4. /\ request'[q] = [request[q] EXCEPT !.at = "inserting", !.index = i]
          /\ \A r \in Requests \ {q} : request'[r] = request[r]
        BY <2>1, <2>3, MoveTyped DEF Phases
    <2> QED
        BY <2>1, <2>2, <2>4 DEF Job
<1>5. CASE InsertInvoice(q)
    <2>1. /\ request' = [request EXCEPT ![q] = Idle]
          /\ request[q].at = "inserting" /\ UNCHANGED <<next, writer>>
        BY <1>5 DEF InsertInvoice
    <2>2. request'[q].at = "idle" /\ \A r \in Requests \ {q} : request'[r] = request[r]
        BY <2>1 DEF Idle
    <2>3. CASE WithKey(request[q].scope, request[q].key) /= {}
        BY <1>5, <2>1, <2>2, <2>3 DEF InsertInvoice
    <2>4. CASE WithKey(request[q].scope, request[q].key) = {}
        <3>1. invoices' = invoices \cup
                  {[id |-> Cardinality(invoices), scope |-> request[q].scope,
                    key |-> request[q].key, index |-> request[q].index]}
            BY <1>5, <2>4 DEF InsertInvoice
        <3>2. Cardinality(invoices) \in Nat
            BY FS_CardinalityType
        <3> QED
            BY <2>1, <2>2, <2>4, <3>1, <3>2
    <2> QED
        BY <2>3, <2>4
<1>6. CASE Abandon(q)
    BY <1>6 DEF Abandon, Idle
<1> QED
    BY <1>1, <1>2, <1>3, <1>4, <1>5, <1>6

------------------------------------------------------------------------------
(* The counter.                                                            *)

Ahead == ReadBehind /\ CounterAhead

\* The counter only grows, by one for each index handed out.
LEMMA AheadStep == Typed /\ Ahead /\ [Next]_vars => Ahead'
<1> SUFFICES ASSUME Typed, Ahead, [Next]_vars PROVE Ahead'
    OBVIOUS
<1> USE DEF Typed, TypeOK, Ahead, ReadBehind, CounterAhead
<1>1. CASE UNCHANGED vars
    BY <1>1 DEF vars
<1>2. ASSUME NEW q \in Requests,
             \/ Receive(q) \/ OpenCounter(q) \/ ReadIndex(q) \/ BumpIndex(q)
             \/ InsertInvoice(q) \/ Abandon(q)
      PROVE  Ahead'
    <2>1. \A r \in Requests \ {q} : request'[r] = request[r]
        BY <1>2, StepCases
    <2>2. \A r \in Requests : request[r].at \in {"read", "inserting"}
              => request[r].index \in Nat
        BY DEF Job, Idle
    <2>3. \A v \in invoices : v.index \in Nat
        BY DEF Invoice
    <2>4. next \in Nat
        OBVIOUS
    <2>5. CASE /\ request'[q].at \in {"idle", "building", "opened"}
               /\ UNCHANGED <<next, invoices>>
        BY <2>1, <2>5
    <2>6. CASE /\ request'[q].at = "read" /\ request'[q].index = next
               /\ UNCHANGED <<next, invoices>>
        BY <2>1, <2>4, <2>6
    <2>7. CASE /\ request[q].at = "read" /\ request'[q].at = "inserting"
               /\ request'[q].index = request[q].index
               /\ next' = next + 1 /\ UNCHANGED invoices
        <3>1. request[q].index <= next
            BY <2>7
        <3>2. ReadBehind'
            BY <2>1, <2>2, <2>4, <2>7
        <3>3. \A v \in invoices' : v.index < next'
            BY <2>3, <2>4, <2>7
        <3>4. \A r \in Requests : request'[r].at = "inserting"
                                     => request'[r].index < next'
            BY <2>1, <2>2, <2>4, <2>7, <3>1
        <3> QED
            BY <3>2, <3>3, <3>4
    <2>8. CASE /\ request[q].at = "inserting" /\ request'[q].at = "idle"
               /\ \E id \in Nat :
                     invoices' = invoices \cup
                         {[id |-> id, scope |-> request[q].scope,
                           key |-> request[q].key, index |-> request[q].index]}
               /\ UNCHANGED next
        BY <2>1, <2>8
    <2> QED
        BY <1>2, <2>5, <2>6, <2>7, <2>8, StepCases
<1> QED
    BY <1>1, <1>2 DEF Next

\* On both databases the stored counter is beyond every index in use, however
\* requests interleave and whichever of them are given up
\* (reserve_address_index).
THEOREM CounterStaysAhead == Spec => []CounterAhead
<1>1. Init => Ahead
    BY DEF Init, Ahead, ReadBehind, CounterAhead, Idle
<1>2. Spec => []Ahead
    BY <1>1, AlwaysTyped, AheadStep, PTL DEF Spec
<1>3. Ahead => CounterAhead
    BY DEF Ahead
<1> QED
    BY <1>2, <1>3, PTL

------------------------------------------------------------------------------
(* One address per invoice, on SQLite.                                     *)

\* The first statement of the transaction takes the write lock: nobody else is
\* between it and the commit.
LEMMA LockStep ==
    ASSUME Database = "sqlite", Typed, LockHeld, [Next]_vars
    PROVE  LockHeld'
<1> USE DEF Typed, TypeOK, LockHeld
<1>1. CASE UNCHANGED vars
    BY <1>1 DEF vars
<1>2. ASSUME NEW q \in Requests,
             \/ Receive(q) \/ OpenCounter(q) \/ ReadIndex(q) \/ BumpIndex(q)
             \/ InsertInvoice(q) \/ Abandon(q)
      PROVE  LockHeld'
    <2>1. \A r \in Requests \ {q} : request'[r] = request[r]
        BY <1>2, StepCases
    <2>2. CASE /\ request'[q].at \in {"idle", "building"}
               /\ writer /= q => writer' = writer
               /\ UNCHANGED next
        BY <2>1, <2>2
    <2>3. CASE /\ request'[q].at = "opened" /\ writer = Nobody /\ writer' = q
        <3>1. \A r \in Requests : writer /= r
            BY <2>3, CreationAssumption
        <3> QED
            BY <2>1, <2>3, <3>1
    <2>4. CASE /\ request[q].at = "opened" /\ request'[q].at = "read"
               /\ request'[q].index = next /\ UNCHANGED <<next, writer>>
        BY <2>1, <2>4
    <2>5. CASE request[q].at = "read" /\ request'[q].at = "inserting"
        <3>1. \A r \in Requests \ {q} : request[r].at \notin {"opened", "read"}
            BY <2>5
        <3> QED
            BY <2>1, <2>5, <3>1
    <2>6. CASE request'[q].at = "idle" /\ UNCHANGED <<next, writer>>
        BY <2>1, <2>6
    <2> QED
        BY <1>2, <2>2, <2>3, <2>4, <2>5, <2>6, StepCases
<1> QED
    BY <1>1, <1>2 DEF Next

\* An index is handed out at the counter, where no other index is, and passes
\* from the request to its row.
LEMMA ApartStep ==
    ASSUME Typed, LockHeld, Ahead, ReservedApart, OneAddressPerInvoice, [Next]_vars
    PROVE  ReservedApart' /\ OneAddressPerInvoice'
<1> USE DEF Typed, TypeOK, ReservedApart, OneAddressPerInvoice
<1>1. CASE UNCHANGED vars
    BY <1>1 DEF vars
<1>2. ASSUME NEW q \in Requests,
             \/ Receive(q) \/ OpenCounter(q) \/ ReadIndex(q) \/ BumpIndex(q)
             \/ InsertInvoice(q) \/ Abandon(q)
      PROVE  ReservedApart' /\ OneAddressPerInvoice'
    <2>1. \A r \in Requests \ {q} : request'[r] = request[r]
        BY <1>2, StepCases
    <2>2. CASE request'[q].at \in {"idle", "building", "opened", "read"}
               /\ UNCHANGED invoices
        BY <2>1, <2>2
    <2>3. CASE /\ request[q].at = "read" /\ request'[q].at = "inserting"
               /\ request'[q].index = request[q].index /\ UNCHANGED invoices
        <3>1. request'[q].index = next /\ next \in Nat
            BY <2>3 DEF LockHeld
        <3>2. \A r \in Requests : request[r].at = "inserting" => request[r].index /= next
            <4>1. \A r \in Requests : request[r].at = "inserting"
                      => request[r].index \in Nat /\ request[r].index < next
                BY DEF Ahead, CounterAhead, Job, Idle
            <4> QED
                BY <4>1, <3>1
        <3>3. \A v \in invoices : v.index /= next
            <4>1. \A v \in invoices : v.index \in Nat /\ v.index < next
                BY DEF Ahead, CounterAhead, Invoice
            <4> QED
                BY <4>1, <3>1
        <3> QED
            BY <2>1, <2>3, <3>1, <3>2, <3>3
    <2>4. CASE /\ request[q].at = "inserting" /\ request'[q].at = "idle"
               /\ \E id \in Nat :
                     invoices' = invoices \cup
                         {[id |-> id, scope |-> request[q].scope,
                           key |-> request[q].key, index |-> request[q].index]}
        <3>1. PICK id \in Nat :
                  invoices' = invoices \cup
                      {[id |-> id, scope |-> request[q].scope,
                        key |-> request[q].key, index |-> request[q].index]}
            BY <2>4
        <3> DEFINE new == [id |-> id, scope |-> request[q].scope,
                           key |-> request[q].key, index |-> request[q].index]
        <3>2. /\ invoices' = invoices \cup {new} /\ new.index = request[q].index
            BY <3>1
        <3> HIDE DEF new
        <3>3. \A v \in invoices : v.index /= new.index
            BY <2>4, <3>2
        <3>4. \A r \in Requests \ {q} : request[r].at = "inserting"
                                           => request[r].index /= new.index
            BY <2>4, <3>2
        <3>5. OneAddressPerInvoice'
            BY <3>2, <3>3
        <3>6. ReservedApart'
            BY <2>1, <2>4, <3>2, <3>4
        <3> QED
            BY <3>5, <3>6
    <2> QED
        BY <1>2, <2>2, <2>3, <2>4, StepCases
<1> QED
    BY <1>1, <1>2 DEF Next

\* On SQLite no two invoices share an address, however requests race and
\* whichever of them fail (reserve_address_index).
THEOREM OneAddressOnSqlite ==
    ASSUME Database = "sqlite"
    PROVE  Spec => []OneAddressPerInvoice
<1> DEFINE Inv == LockHeld /\ Ahead /\ ReservedApart /\ OneAddressPerInvoice
<1>1. Init => Inv
    BY DEF Init, LockHeld, Ahead, ReadBehind, CounterAhead, ReservedApart,
           OneAddressPerInvoice, Idle
<1>2. Typed /\ Inv /\ [Next]_vars => Inv'
    BY LockStep, AheadStep, ApartStep
<1>3. Inv => OneAddressPerInvoice
    OBVIOUS
<1> HIDE DEF Inv
<1> QED
    BY <1>1, <1>2, <1>3, AlwaysTyped, PTL DEF Spec

------------------------------------------------------------------------------
(* One invoice per key.                                                    *)

\* Every answer names a row of its scope and key.
AnswersNamed ==
    \A a \in answered :
        \E v \in invoices : v.id = a.id /\ v.scope = a.scope /\ v.key = a.key

\* Rows of the scope and key, answered, are named.
LEMMA AnswerNamed ==
    ASSUME NEW scope, NEW key, NEW ids, NEW rows, AnswerWith(scope, key, ids),
           \A id \in ids : \E v \in rows :
               v.id = id /\ v.scope = scope /\ v.key = key,
           \A a \in answered : \E v \in rows :
               v.id = a.id /\ v.scope = a.scope /\ v.key = a.key
    PROVE  \A a \in answered' : \E v \in rows :
               v.id = a.id /\ v.scope = a.scope /\ v.key = a.key
<1> SUFFICES ASSUME NEW a \in answered', a \notin answered
             PROVE  \E v \in rows : v.id = a.id /\ v.scope = a.scope /\ v.key = a.key
    OBVIOUS
<1>1. a \in [scope : {scope}, key : {key}, id : ids]
    BY DEF AnswerWith
<1>2. a.scope = scope /\ a.key = key /\ a.id \in ids
    BY <1>1
<1> QED
    BY <1>2

\* A row is stored only if its key is free in its scope.
LEMMA KeysStep == Typed /\ KeysUnique /\ [Next]_vars => KeysUnique'
<1> SUFFICES ASSUME Typed, KeysUnique, [Next]_vars PROVE KeysUnique'
    OBVIOUS
<1>1. CASE UNCHANGED invoices
    BY <1>1 DEF KeysUnique
<1>2. ASSUME NEW q \in Requests, NEW id \in Nat,
             invoices' = invoices \cup
                 {[id |-> id, scope |-> request[q].scope,
                   key |-> request[q].key, index |-> request[q].index]},
             WithKey(request[q].scope, request[q].key) = {}
      PROVE  KeysUnique'
    <2> DEFINE new == [id |-> id, scope |-> request[q].scope,
                       key |-> request[q].key, index |-> request[q].index]
    <2>1. /\ invoices' = invoices \cup {new}
          /\ new.scope = request[q].scope /\ new.key = request[q].key
        BY <1>2
    <2> HIDE DEF new
    <2>2. \A v \in invoices : ~(/\ v.scope = new.scope /\ v.key = new.key
                               /\ new.key /= NoKey)
        BY <1>2, <2>1 DEF WithKey
    <2> QED
        BY <2>1, <2>2 DEF KeysUnique
<1>3. CASE UNCHANGED vars
    BY <1>1, <1>3 DEF vars
<1>4. CASE Next
    <2>1. PICK q \in Requests :
              \/ Receive(q) \/ OpenCounter(q) \/ ReadIndex(q) \/ BumpIndex(q)
              \/ InsertInvoice(q) \/ Abandon(q)
        BY <1>4 DEF Next
    <2> QED
        BY <1>1, <1>2, <2>1, StepCases
<1> QED
    BY <1>3, <1>4

\* Both ways to answer, with a row found and with the row stored, name it.
LEMMA AnswersStep == Typed /\ AnswersNamed /\ [Next]_vars => AnswersNamed'
<1> SUFFICES ASSUME Typed, AnswersNamed, [Next]_vars PROVE AnswersNamed'
    OBVIOUS
<1>1. ASSUME UNCHANGED answered, invoices \subseteq invoices' PROVE AnswersNamed'
    BY <1>1 DEF AnswersNamed
<1>2. ASSUME NEW scope, NEW key, UNCHANGED invoices,
             AnswerWith(scope, key, {v.id : v \in WithKey(scope, key)})
      PROVE  AnswersNamed'
    <2>1. \A id \in {v.id : v \in WithKey(scope, key)} : \E v \in invoices :
              v.id = id /\ v.scope = scope /\ v.key = key
        BY DEF WithKey
    <2>2. \A a \in answered : \E v \in invoices :
              v.id = a.id /\ v.scope = a.scope /\ v.key = a.key
        BY DEF AnswersNamed
    <2> DEFINE ids == {v.id : v \in WithKey(scope, key)}
    <2>3. AnswerWith(scope, key, ids)
        BY <1>2
    <2>4. \A x \in ids : \E v \in invoices : v.id = x /\ v.scope = scope /\ v.key = key
        BY <2>1
    <2> HIDE DEF ids
    <2>5. \A a \in answered' : \E v \in invoices :
              v.id = a.id /\ v.scope = a.scope /\ v.key = a.key
        BY <2>2, <2>3, <2>4, AnswerNamed
    <2> QED
        BY <1>2, <2>5 DEF AnswersNamed
<1>3. ASSUME NEW q \in Requests, Receive(q) PROVE AnswersNamed'
    <2>1. UNCHANGED invoices
        BY <1>3 DEF Receive
    <2>2. PICK scope \in Scopes, key \in Keys \cup {NoKey} :
              \/ AnswerWith(scope, key, {v.id : v \in WithKey(scope, key)})
              \/ UNCHANGED answered
        BY <1>3 DEF Receive
    <2> QED
        BY <1>1, <1>2, <2>1, <2>2
<1>4. ASSUME NEW q \in Requests, InsertInvoice(q) PROVE AnswersNamed'
    <2> DEFINE job == request[q]
               id == Cardinality(invoices)
               new == [id |-> id, scope |-> job.scope, key |-> job.key,
                       index |-> job.index]
    <2>1. CASE WithKey(job.scope, job.key) /= {}
        BY <1>2, <1>4, <2>1 DEF InsertInvoice
    <2>2. CASE WithKey(job.scope, job.key) = {}
        <3>1. invoices' = invoices \cup {new} /\ AnswerWith(job.scope, job.key, {id})
            BY <1>4, <2>2 DEF InsertInvoice
        <3>2. \A x \in {id} : \E v \in invoices' :
                  v.id = x /\ v.scope = job.scope /\ v.key = job.key
            <4>1. new \in invoices'
                BY <3>1
            <4>2. new.id = id /\ new.scope = job.scope /\ new.key = job.key
                OBVIOUS
            <4> HIDE DEF new, job, id
            <4> QED
                BY <4>1, <4>2
        <3>3. \A a \in answered : \E v \in invoices' :
                  v.id = a.id /\ v.scope = a.scope /\ v.key = a.key
            BY <3>1 DEF AnswersNamed
        <3>4. \A a \in answered' : \E v \in invoices' :
                  v.id = a.id /\ v.scope = a.scope /\ v.key = a.key
            BY <3>1, <3>2, <3>3, AnswerNamed
        <3> QED
            BY <3>4 DEF AnswersNamed
    <2> QED
        BY <2>1, <2>2
<1>5. ASSUME NEW q \in Requests,
             OpenCounter(q) \/ ReadIndex(q) \/ BumpIndex(q) \/ Abandon(q)
      PROVE  AnswersNamed'
    BY <1>1, <1>5 DEF OpenCounter, ReadIndex, BumpIndex, Abandon
<1>6. CASE UNCHANGED vars
    BY <1>1, <1>6 DEF vars
<1> QED
    BY <1>3, <1>4, <1>5, <1>6 DEF Next

\* On both databases all requests with one key in one scope are answered with
\* one invoice, and it is one of that scope and key (create_invoice,
\* create_public_payment_link_invoice, build_invoice).
THEOREM KeysAnswerOneInvoice == Spec => []SameKeySameInvoice
<1> DEFINE Inv == KeysUnique /\ AnswersNamed
<1>1. Init => Inv
    BY DEF Init, KeysUnique, AnswersNamed
<1>2. Typed /\ Inv /\ [Next]_vars => Inv'
    BY KeysStep, AnswersStep
<1>3. Typed /\ Inv => SameKeySameInvoice
    <2> SUFFICES ASSUME Typed, Inv, NEW a \in answered, NEW b \in answered,
                        a.scope = b.scope, a.key = b.key
                 PROVE  a.id = b.id
        BY DEF SameKeySameInvoice, AnswersNamed
    <2>1. a.key \in Keys /\ a.key /= NoKey
        BY CreationAssumption DEF Typed, TypeOK, Answer
    <2>2. PICK v \in invoices : v.id = a.id /\ v.scope = a.scope /\ v.key = a.key
        BY DEF AnswersNamed
    <2>3. PICK w \in invoices : w.id = b.id /\ w.scope = b.scope /\ w.key = b.key
        BY DEF AnswersNamed
    <2>4. v = w
        BY <2>1, <2>2, <2>3 DEF KeysUnique
    <2> QED
        BY <2>2, <2>3, <2>4
<1> HIDE DEF Inv
<1> QED
    BY <1>1, <1>2, <1>3, AlwaysTyped, PTL DEF Spec

------------------------------------------------------------------------------
(* Rates: those in use are recent, and pricing changes nothing of how      *)
(* invoices are created, so that the theorems above hold with prices too.  *)

RateInv == R!RateTypeOK /\ R!AgesFit /\ R!RateIsRecent

LEMMA Kinds ==
    ASSUME NEW x \in {R!Nothing} \cup R!Asking \cup R!Given
    PROVE  /\ x.at = "nothing" => x = R!Nothing
           /\ x.at \in {"asking", "answered"} <=> x \in R!Asking
           /\ x.at = "given" <=> x \in R!Given
  BY DEF R!Nothing, R!Asking, R!Given

LEMMA RateInit == R!RateInit => RateInv
  BY PricingAssumption DEF RateInv, R!RateInit, R!RateTypeOK, R!AgesFit, R!RateIsRecent, R!Nothing

\* What one asker does keeps the invariant.
LEMMA AskerStep ==
    ASSUME RateInv, NEW q \in Requests,
           R!AskCache(q) \/ R!AskTicker(q) \/ R!Look(q) \/ R!Keep(q) \/ R!FallBack(q)
             \/ R!Forget(q)
    PROVE  RateInv'
PROOF
  <1> USE DEF RateInv, R!RateTypeOK, R!AgesFit, R!RateIsRecent
  <1>0. asker[q] \in {R!Nothing} \cup R!Asking \cup R!Given
    OBVIOUS
  <1>1. CASE R!AskCache(q) \/ R!FallBack(q)
    <2>1. cache \in R!Kept /\ cache.price <= StaleAfter + Timeout
      BY <1>1, PricingAssumption DEF R!AskCache, R!FallBack, R!Fresh, R!Kept, R!Nothing
    <2>2. asker' = [asker EXCEPT ![q] = [at |-> "given", price |-> cache.price]]
          /\ cache' = cache
      BY <1>1 DEF R!AskCache, R!FallBack, R!Give
    <2>3. [at |-> "given", price |-> cache.price] \in R!Given
      BY <2>1 DEF R!Given, R!Kept
    <2>4. QED
      BY <2>1, <2>2, <2>3
  <1>2. CASE R!AskTicker(q)
    <2>1. [at |-> "asking", since |-> 0, price |-> 0] \in R!Asking
      BY PricingAssumption DEF R!Asking
    <2>2. QED
      BY <1>2, <2>1, PricingAssumption DEF R!AskTicker
  <1>3. CASE R!Look(q)
    <2>1. asker[q] \in R!Asking
      BY <1>3, <1>0, Kinds DEF R!Look
    <2>2. [asker[q] EXCEPT !.at = "answered"] \in R!Asking
      BY <2>1 DEF R!Asking
    <2>3. asker' = [asker EXCEPT ![q] = [asker[q] EXCEPT !.at = "answered"]]
          /\ cache' = cache
      BY <1>3 DEF R!Look
    <2>4. QED
      BY <1>3, <2>1, <2>2, <2>3 DEF R!Asking, R!Look
  <1>4. CASE R!Keep(q)
    <2>1. asker[q] \in R!Asking /\ asker[q].price <= Timeout
      BY <1>4, <1>0, Kinds, PricingAssumption DEF R!Keep, R!Asking
    <2>2. [at |-> "given", price |-> asker[q].price] \in R!Given
      BY <2>1 DEF R!Given, R!Asking
    <2>3. /\ cache' = [at |-> "kept", since |-> 0, price |-> asker[q].price]
          /\ asker' = [asker EXCEPT ![q] = [at |-> "given", price |-> asker[q].price]]
      BY <1>4 DEF R!Keep, R!Give
    <2>4. cache' \in R!Kept
      BY <2>1, <2>3, PricingAssumption DEF R!Kept, R!Asking
    <2>5. asker[q].price \in Nat
      BY <2>1 DEF R!Asking
    <2>6. QED
      BY <2>1, <2>2, <2>3, <2>4, <2>5, PricingAssumption
  <1>5. CASE R!Forget(q)
    BY <1>5 DEF R!Forget, R!Nothing
  <1>6. QED
    BY <1>1, <1>2, <1>3, <1>4, <1>5

LEMMA OlderNat ==
    ASSUME NEW n \in 0..MaxAge
    PROVE  /\ R!Older(n) \in 0..MaxAge
           /\ R!Older(n) = n + 1 \/ (n = MaxAge /\ R!Older(n) = n)
  BY PricingAssumption DEF R!Older

LEMMA TimeStep == RateInv /\ R!RateTick => RateInv'
PROOF
  <1> SUFFICES ASSUME RateInv, R!RateTick PROVE RateInv'
    OBVIOUS
  <1> USE DEF RateInv, R!RateTypeOK, R!AgesFit, R!RateIsRecent
  <1>1. cache' \in {R!Nothing} \cup R!Kept
        /\ (cache' /= R!Nothing => cache'.price <= cache'.since + Timeout)
    <2>1. CASE cache = R!Nothing
      BY <2>1 DEF R!RateTick
    <2>2. CASE cache \in R!Kept /\ cache /= R!Nothing
      <3>1. cache' = [cache EXCEPT !.since = R!Older(cache.since),
                                   !.price = R!Older(cache.price)]
        BY <2>2 DEF R!RateTick
      <3>2. cache.since \in 0..MaxAge /\ cache.price \in 0..MaxAge
            /\ cache.price <= cache.since + Timeout
        BY <2>2 DEF R!Kept
      <3>3. /\ cache' \in R!Kept
            /\ cache'.since = R!Older(cache.since)
            /\ cache'.price = R!Older(cache.price)
        BY <2>2, <3>1, <3>2, OlderNat DEF R!Kept
      <3>4. R!Older(cache.price) <= R!Older(cache.since) + Timeout
        BY <3>2, OlderNat, PricingAssumption
      <3>5. QED
        BY <3>3, <3>4
    <2>3. QED
      BY <2>1, <2>2
  <1>2. ASSUME NEW a \in Requests
        PROVE  /\ asker'[a] \in {R!Nothing} \cup R!Asking \cup R!Given
               /\ asker'[a].at \in {"asking", "answered"} =>
                    asker'[a].price <= asker'[a].since /\ asker'[a].since <= Timeout
               /\ asker'[a].at = "given" => asker'[a].price <= StaleAfter + Timeout
    <2>0. asker[a] \in {R!Nothing} \cup R!Asking \cup R!Given
      OBVIOUS
    <2>1. CASE asker[a].at \in {"asking", "answered"}
      <3>1. asker[a] \in R!Asking /\ asker[a].since < Timeout
            /\ asker[a].price <= asker[a].since
        BY <2>1, <2>0, Kinds DEF R!RateTick
      <3>2. asker[a].since \in 0..MaxAge /\ asker[a].price \in 0..MaxAge
        BY <3>1 DEF R!Asking
      <3>3. /\ R!Older(asker[a].since) = asker[a].since + 1
            /\ R!Older(asker[a].since) <= Timeout
            /\ R!Older(asker[a].price) = asker[a].price + 1
        BY <3>1, <3>2, OlderNat, PricingAssumption
      <3>4. CASE asker[a].at = "asking"
        <4>1. asker'[a] = [asker[a] EXCEPT !.since = R!Older(asker[a].since)]
          BY <3>4 DEF R!RateTick
        <4>2. asker'[a] \in R!Asking
              /\ asker'[a].since = R!Older(asker[a].since)
              /\ asker'[a].price = asker[a].price
          BY <3>1, <3>2, <4>1, OlderNat DEF R!Asking
        <4>3. asker'[a].at /= "given"
          BY <4>2 DEF R!Asking
        <4>4. QED
          BY <3>1, <3>2, <3>3, <4>2, <4>3
      <3>5. CASE asker[a].at = "answered"
        <4>1. asker'[a] = [asker[a] EXCEPT !.since = R!Older(asker[a].since),
                                           !.price = R!Older(asker[a].price)]
          BY <3>5 DEF R!RateTick
        <4>2. asker'[a] \in R!Asking
              /\ asker'[a].since = R!Older(asker[a].since)
              /\ asker'[a].price = R!Older(asker[a].price)
          BY <3>1, <3>2, <4>1, OlderNat DEF R!Asking
        <4>3. asker'[a].at /= "given"
          BY <4>2 DEF R!Asking
        <4>4. QED
          BY <3>1, <3>2, <3>3, <4>2, <4>3
      <3>6. QED
        BY <2>1, <3>4, <3>5
    <2>2. CASE asker[a].at \notin {"asking", "answered"}
      <3>1. asker'[a] = asker[a]
        BY <2>2 DEF R!RateTick
      <3>2. QED
        BY <2>0, <2>2, <3>1
    <2>3. QED
      BY <2>1, <2>2
  <1>3. asker' = [a \in Requests |-> asker'[a]]
    BY DEF R!RateTick
  <1>4. QED
    BY <1>1, <1>2, <1>3

\* An invoice is priced at a recent rate, for any number of requests that share the
\* cache and any time to live and timeout (btc_rate).
THEOREM RatesAreRecent == PricedSpec => []RateIsRecent
PROOF
  <1>1. PricedInit => RateInv
    BY RateInit DEF PricedInit
  <1>2. RateInv /\ [PricedNext]_pricedVars => RateInv'
    <2> SUFFICES ASSUME RateInv, [PricedNext]_pricedVars PROVE RateInv'
      OBVIOUS
    <2>1. CASE UNCHANGED rateVars
      BY <2>1 DEF rateVars, RateInv, R!RateTypeOK, R!AgesFit, R!RateIsRecent
    <2>2. CASE R!RateTick
      BY <2>2, TimeStep
    <2>3. CASE \E q \in Requests : Price(q) \/ R!Forget(q)
      BY <2>3, AskerStep DEF Price
    <2>4. QED
      BY <2>1, <2>2, <2>3 DEF PricedNext, pricedVars, rateVars, Reserve
  <1>3. RateInv => RateIsRecent
    BY DEF RateInv, RateIsRecent
  <1>4. QED
    BY <1>1, <1>2, <1>3, PTL DEF PricedSpec

\* Pricing is invisible to the rest: what PricedInvoices does, InvoiceCreation does
\* (build_invoice calls btc_rate before reserve_address_index).
THEOREM PricingImplementsCreation == PricedSpec => Spec
PROOF
  <1>1. PricedInit => Init
    BY DEF PricedInit
  <1>2. [PricedNext]_pricedVars => [Next]_vars
    BY DEF PricedNext, pricedVars, Price, Reserve, Next
  <1>3. QED
    BY <1>1, <1>2, PTL DEF PricedSpec, Spec
==============================================================================
