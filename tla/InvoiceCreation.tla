--------------------------- MODULE InvoiceCreation ---------------------------
(***************************************************************************)
(* How requests to the API and to public payment links become invoices     *)
(* with an address of their own (create_invoice,                           *)
(* create_public_payment_link_invoice and build_invoice in src/api.rs,     *)
(* reserve_address_index and insert_invoice in src/storage.rs).            *)
(*                                                                         *)
(* The index is reserved in a transaction of three statements: insert the  *)
(* counter's row unless it is there, read it, increment it.  SQLite has    *)
(* one writer: the first statement takes the write lock until the commit.  *)
(* Postgres runs the statements of several transactions in turn, each      *)
(* reading what is committed by then; only the transaction that inserts    *)
(* the row makes the others wait.                                          *)
(***************************************************************************)
EXTENDS Naturals, FiniteSets

CONSTANTS
    Requests,       \* concurrent requests
    Links,          \* payment links
    NoLink,         \* the authenticated API, which has a key space of its own
    Keys, NoKey,    \* Idempotency-Key values; the header is absent
    Database,       \* "sqlite" or "postgres"
    Nobody,         \* no transaction makes others wait
    MaxIndex,       \* bound: indexes handed out
    MaxInvoices     \* bound: invoices stored

ASSUME CreationAssumption ==
    /\ NoLink \notin Links
    /\ NoKey \notin Keys
    /\ Database \in {"sqlite", "postgres"}
    /\ Nobody \notin Requests
    /\ {MaxIndex, MaxInvoices} \subseteq Nat

VARIABLES
    next,           \* store_counters.next_onchain_index
    writer,         \* the transaction the others wait for
    invoices,       \* the rows of invoices; the id stands for the whole row
    request,        \* where each request is
    answered        \* what requests with a key were answered

vars == <<next, writer, invoices, request, answered>>

Scopes == Links \cup {NoLink}
Invoice == [id : Nat, scope : Scopes, key : Keys \cup {NoKey}, index : Nat]
Answer == [scope : Scopes, key : Keys, id : Nat]

Idle == [at |-> "idle"]
Phases == {"building", "opened", "read", "inserting"}
Job == [at : Phases, scope : Scopes, key : Keys \cup {NoKey}, index : Nat]

TypeOK ==
    /\ next \in Nat
    /\ writer \in Requests \cup {Nobody}
    /\ invoices \subseteq Invoice
    /\ request \in [Requests -> {Idle} \cup Job]
    /\ answered \subseteq Answer

Init ==
    /\ next = 0
    /\ writer = Nobody
    /\ invoices = {}
    /\ request = [q \in Requests |-> Idle]
    /\ answered = {}

\* Mutant: the key is looked up among those of every payment link.
WithKeyAnywhere(scope, key) == {v \in invoices : key /= NoKey /\ v.key = key}

\* The rows one of the two unique indexes lets at most one of exist.
WithKey(scope, key) ==
    {v \in invoices : key /= NoKey /\ v.scope = scope /\ v.key = key}

\* Mutant: a request without a key is remembered like one with a key.
AnswerAnyWith(scope, key, ids) ==
    answered' = answered \cup [scope : {scope}, key : {key}, id : ids]

AnswerWith(scope, key, ids) ==
    answered' = answered \cup
        {a \in [scope : {scope}, key : {key}, id : ids] : key /= NoKey}

Move(q, phase, index) ==
    request' = [request EXCEPT ![q].at = phase, ![q].index = index]

\* The request looks its key up among those of its own scope.
Receive(q) ==
    /\ request[q] = Idle
    /\ \E scope \in Scopes, key \in Keys \cup {NoKey} :
        IF WithKey(scope, key) /= {}
        THEN /\ AnswerWith(scope, key, {v.id : v \in WithKey(scope, key)})
             /\ UNCHANGED request
        ELSE /\ request' = [request EXCEPT ![q] =
                    [at |-> "building", scope |-> scope, key |-> key, index |-> 0]]
             /\ UNCHANGED answered
    /\ UNCHANGED <<next, writer, invoices>>

\* Mutant: the first statement takes no lock.
OpenCounterUnlocked(q) ==
    /\ request[q].at = "building"
    /\ Move(q, "opened", 0)
    /\ UNCHANGED <<next, writer, invoices, answered>>

\* The row is committed with its first increment.
RowExists == next > 0

\* reserve_address_index opens its transaction by inserting the counter's row.
OpenCounter(q) ==
    /\ request[q].at = "building"
    /\ IF Database = "sqlite" \/ ~RowExists
       THEN writer = Nobody /\ writer' = q
       ELSE UNCHANGED writer
    /\ Move(q, "opened", 0)
    /\ UNCHANGED <<next, invoices, answered>>

ReadIndex(q) ==
    /\ request[q].at = "opened"
    /\ Move(q, "read", next)
    /\ UNCHANGED <<next, writer, invoices, answered>>

\* The increment is relative to what is stored, not to what was read.
BumpIndex(q) ==
    /\ request[q].at = "read"
    /\ next < MaxIndex
    /\ next' = next + 1
    /\ writer' = IF writer = q THEN Nobody ELSE writer
    /\ Move(q, "inserting", request[q].index)
    /\ UNCHANGED <<invoices, answered>>

\* After the address is derived and the Lightning backend has answered, the row
\* and its event are inserted; a key taken meanwhile answers with its row.
InsertInvoice(q) ==
    /\ request[q].at = "inserting"
    /\ Database = "sqlite" => writer = Nobody
    /\ LET job == request[q]
           taken == WithKey(job.scope, job.key)
           id == Cardinality(invoices)
       IN IF taken /= {}
          THEN /\ AnswerWith(job.scope, job.key, {v.id : v \in taken})
               /\ UNCHANGED invoices
          ELSE /\ id < MaxInvoices
               /\ invoices' = invoices \cup
                    {[id |-> id, scope |-> job.scope, key |-> job.key,
                      index |-> job.index]}
               /\ AnswerWith(job.scope, job.key, {id})
    /\ request' = [request EXCEPT ![q] = Idle]
    /\ UNCHANGED <<next, writer>>

\* Mutant: an invoice that fails to be built gives its index back.
AbandonReturnsIndex(q) ==
    /\ request[q] /= Idle
    /\ request' = [request EXCEPT ![q] = Idle]
    /\ writer' = IF writer = q THEN Nobody ELSE writer
    /\ next' = IF request[q].at = "inserting" THEN next - 1 ELSE next
    /\ UNCHANGED <<invoices, answered>>

\* The rate source, the descriptor or the Lightning backend fails, the client
\* goes away or the process stops: an open transaction is rolled back, and a
\* reserved index is lost.
Abandon(q) ==
    /\ request[q] /= Idle
    /\ request' = [request EXCEPT ![q] = Idle]
    /\ writer' = IF writer = q THEN Nobody ELSE writer
    /\ UNCHANGED <<next, invoices, answered>>

Next ==
    \E q \in Requests :
        \/ Receive(q) \/ OpenCounter(q) \/ ReadIndex(q) \/ BumpIndex(q)
        \/ InsertInvoice(q) \/ Abandon(q)

Spec == Init /\ [][Next]_vars

------------------------------------------------------------------------------
(* Properties                                                              *)

\* Each invoice has an address of its own, so that a payment tells which
\* invoice it is for (docs/wallet-descriptors.md: "generate one receive address
\* per invoice").
OneAddressPerInvoice ==
    \A v, w \in invoices : v.index = w.index => v = w

\* All requests with one key in one scope are answered with the same invoice,
\* and it is one of that scope and key (create_invoice, build_invoice).
SameKeySameInvoice ==
    \A a \in answered :
        /\ \A b \in answered : a.scope = b.scope /\ a.key = b.key => a.id = b.id
        /\ \E v \in invoices : v.id = a.id /\ v.scope = a.scope /\ v.key = a.key

\* An index handed out is never handed out again: the stored counter is beyond
\* every index of an invoice or of a request about to insert one
\* (docs/wallet-descriptors.md: "continues from the next unused address index").
CounterAhead ==
    /\ \A v \in invoices : v.index < next
    /\ \A q \in Requests : request[q].at = "inserting" => request[q].index < next

------------------------------------------------------------------------------
(* What makes them inductive.                                              *)

\* What a transaction has read is not beyond the counter.
ReadBehind ==
    \A q \in Requests : request[q].at = "read" => request[q].index <= next

\* On SQLite only the holder of the write lock is inside the transaction, and
\* what it has read is the counter.
LockHeld ==
    \A q \in Requests :
        /\ request[q].at \in {"opened", "read"} => writer = q
        /\ request[q].at = "read" => request[q].index = next

\* No two requests hold one index, nor does a request hold an invoice's.
ReservedApart ==
    /\ \A q, r \in Requests :
          /\ request[q].at = "inserting" /\ request[r].at = "inserting"
          /\ request[q].index = request[r].index
          => q = r
    /\ \A q \in Requests, v \in invoices :
          request[q].at = "inserting" => request[q].index /= v.index

\* A key of a scope has one row.
KeysUnique ==
    \A v, w \in invoices :
        v.scope = w.scope /\ v.key = w.key /\ v.key /= NoKey => v = w
==============================================================================
