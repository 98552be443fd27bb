----------------------------- MODULE Migrations -----------------------------
(***************************************************************************)
(* The database schema and the processes that bring it up to date: `serve` *)
(* with QPAYD_MIGRATE_ON_BOOT and `migrate` (src/main.rs), over the lists  *)
(* of migrations of the two backends (src/storage.rs).  A version's        *)
(* statements and its row in the ledger are one transaction; the list of   *)
(* versions already applied is read once, before the first of them.        *)
(*                                                                         *)
(* A statement is what it does to the set of tables, indexes and added     *)
(* columns, and what it needs to be there.  Postgres names carry a prefix  *)
(* (qpayd_) that is left out.                                              *)
(***************************************************************************)
EXTENDS Naturals, Sequences, FiniteSets

CONSTANTS
    Processes,
    Databases,   \* a subset of {"sqlite", "postgres"}
    MaxFaults,   \* bound: statements that fail for another reason
    MaxCrashes   \* bound: processes killed

ASSUME MigrationsAssumption ==
    /\ Databases \subseteq {"sqlite", "postgres"}
    /\ "none" \notin Processes
    /\ {MaxFaults, MaxCrashes} \subseteq Nat

VARIABLES
    database,
    role,        \* the command and QPAYD_MIGRATE_ON_BOOT of each process: "boot"
                 \* serves after migrating, "plain" serves, "migrate" only migrates
    schema,      \* what is committed: tables, indexes, added columns
    recorded,    \* versions in the ledger (schema_migrations)
    tx,          \* the transaction that holds the write lock
    proc,        \* where each process is, what it read, how far it got
    faults, crashes

------------------------------------------------------------------------------
(* Statements                                                              *)

Table(t) == [op |-> "create", obj |-> <<t>>, needs |-> {}]
Index(i, t, added) ==
    [op |-> "create", obj |-> <<"index", i>>, needs |-> {<<t>>} \cup ({t} \X added)]
Column(t, c) == [op |-> "add", obj |-> <<t, c>>, needs |-> {<<t>>}]
DropIndex(i) == [op |-> "drop", obj |-> <<"index", i>>, needs |-> {}]

\* Creations are IF NOT EXISTS and drops IF EXISTS; adding a column is not.
Runs(statement, s) ==
    \/ statement.op = "create" /\ (statement.obj \in s \/ statement.needs \subseteq s)
    \/ statement.op = "add" /\ statement.obj \notin s /\ statement.needs \subseteq s
    \/ statement.op = "drop"

After(statement, s) ==
    IF statement.op = "drop" THEN s \ {statement.obj} ELSE s \cup {statement.obj}

SqliteInvoices == <<
    <<Table("store_counters"), Table("invoices"),
      Index("invoices_store_created", "invoices", {}),
      Table("events"), Index("events_store_created", "events", {}),
      Table("webhook_deliveries"),
      Index("webhook_deliveries_due", "webhook_deliveries", {})>>,
    <<Column("invoices", "idempotency_key"),
      Index("invoices_store_idempotency_key", "invoices", {"idempotency_key"})>>,
    <<Column("invoices", "paid_sats"), Column("invoices", "confirmed_sats"),
      Column("invoices", "unconfirmed_sats")>> >>

SqliteRecords == <<
    <<Table("refunds"), Index("refunds_store_created", "refunds", {}),
      Table("lightning_sweeps"),
      Index("lightning_sweeps_store_created", "lightning_sweeps", {})>>,
    <<Column("invoices", "payment_link_id"),
      DropIndex("invoices_store_idempotency_key"),
      Index("invoices_store_admin_idempotency_key", "invoices",
            {"idempotency_key", "payment_link_id"}),
      Index("invoices_store_payment_link_idempotency_key", "invoices",
            {"idempotency_key", "payment_link_id"})>>,
    <<Column("refunds", "destination_type"), Column("refunds", "payment_proof"),
      Column("refunds", "failure_reason"), Column("refunds", "idempotency_key"),
      Index("refunds_store_idempotency_key", "refunds", {"idempotency_key"})>>,
    <<Column("refunds", "execution_claimed_by"),
      Column("refunds", "execution_lease_until"),
      Index("refunds_execution_due", "refunds", {"execution_lease_until"})>>,
    <<Column("refunds", "approval_status"),
      Index("refunds_approval_status", "refunds", {"approval_status"})>> >>

SqliteMigrations == SqliteInvoices \o SqliteRecords

\* The other backend's list is written out on its own, as in the code.
PostgresInvoices == <<
    <<Table("store_counters"), Table("invoices"),
      Index("invoices_store_created", "invoices", {}),
      Table("events"), Index("events_store_created", "events", {}),
      Table("webhook_deliveries"),
      Index("webhook_deliveries_due", "webhook_deliveries", {})>>,
    <<Column("invoices", "idempotency_key"),
      Index("invoices_store_idempotency_key", "invoices", {"idempotency_key"})>>,
    <<Column("invoices", "paid_sats"), Column("invoices", "confirmed_sats"),
      Column("invoices", "unconfirmed_sats")>> >>

PostgresRecords == <<
    <<Table("refunds"), Index("refunds_store_created", "refunds", {}),
      Table("lightning_sweeps"),
      Index("lightning_sweeps_store_created", "lightning_sweeps", {})>>,
    <<Column("invoices", "payment_link_id"),
      DropIndex("invoices_store_idempotency_key"),
      Index("invoices_store_admin_idempotency_key", "invoices",
            {"idempotency_key", "payment_link_id"}),
      Index("invoices_store_payment_link_idempotency_key", "invoices",
            {"idempotency_key", "payment_link_id"})>>,
    <<Column("refunds", "destination_type"), Column("refunds", "payment_proof"),
      Column("refunds", "failure_reason"), Column("refunds", "idempotency_key"),
      Index("refunds_store_idempotency_key", "refunds", {"idempotency_key"})>>,
    <<Column("refunds", "execution_claimed_by"),
      Column("refunds", "execution_lease_until"),
      Index("refunds_execution_due", "refunds", {"execution_lease_until"})>>,
    <<Column("refunds", "approval_status"),
      Index("refunds_approval_status", "refunds", {"approval_status"})>> >>

PostgresMigrations == PostgresInvoices \o PostgresRecords

Versions == DOMAIN SqliteMigrations
Statements(v) ==
    IF database = "sqlite" THEN SqliteMigrations[v] ELSE PostgresMigrations[v]

\* What a database holds after the statements of one version, and of all
\* versions up to one.
Ran(statements, s) ==
    LET after[k \in 0..Len(statements)] ==
            IF k = 0 THEN s ELSE After(statements[k], after[k - 1])
    IN after[Len(statements)]

SchemaAfter[v \in 0..Len(SqliteMigrations)] ==
    IF v = 0 THEN {} ELSE Ran(SqliteMigrations[v], SchemaAfter[v - 1])

Ledger == <<"schema_migrations">>

------------------------------------------------------------------------------
NoTx == [by |-> "none"]
At(p) == proc[p].at
Holds(p) == tx.by = p
Roles == {"boot", "plain", "migrate"}
Ends == {"stopped", "refused", "serving", "done", "fault", "overtaken"}

\* Mutant: the list read is not consulted.
LeftAll(p) == {v \in Versions : v > proc[p].looked}

\* The versions a process has still to apply, by the list it read.
Left(p) == {v \in Versions : v > proc[p].looked /\ v \notin proc[p].applied}
IsNext(p, v) == v \in Left(p) /\ \A w \in Left(p) : v <= w

migrationVars == <<database, role, schema, recorded, tx, proc, faults, crashes>>

MigrationsTypeOK ==
    /\ database \in Databases /\ role \in [Processes -> Roles]
    /\ schema \subseteq SchemaAfter[Len(SqliteMigrations)] \cup SchemaAfter[4] \cup {Ledger}
    /\ recorded \subseteq Versions
    /\ \A p \in Processes :
          /\ At(p) \in Ends \cup {"opening", "reading", "migrating"}
          /\ proc[p].applied \subseteq recorded
          /\ proc[p].looked \in {0} \cup Versions
    /\ tx /= NoTx =>
          /\ tx.by \in Processes /\ At(tx.by) = "migrating"
          /\ IsNext(tx.by, tx.version)
          /\ tx.ran \in 0..Len(Statements(tx.version))
    /\ faults \in 0..MaxFaults /\ crashes \in 0..MaxCrashes

Stopped == [at |-> "stopped", applied |-> {}, looked |-> 0]

\* An earlier release left the schema at a version, 0 when there is none.
MigrationsInit(version) ==
    /\ database \in Databases
    /\ recorded = 1..version
    /\ schema = SchemaAfter[version] \cup (IF version = 0 THEN {} ELSE {Ledger})
    /\ tx = NoTx
    /\ proc = [p \in Processes |-> Stopped]
    /\ faults = 0 /\ crashes = 0

Enter(p, at) == proc' = [proc EXCEPT ![p].at = at]

\* A process starts, or is started again after it failed or was killed.
Start(p) ==
    /\ At(p) \in {"stopped", "fault", "overtaken"}
    /\ proc' = [proc EXCEPT ![p] =
           [Stopped EXCEPT !.at = IF role[p] = "plain" THEN "serving" ELSE "opening"]]
    /\ UNCHANGED <<database, role, schema, recorded, tx, faults, crashes>>

\* The ledger table is created unless it is there.
OpenLedger(p) ==
    /\ At(p) = "opening"
    /\ Ledger \in schema \/ tx = NoTx
    /\ schema' = schema \cup {Ledger}
    /\ Enter(p, "reading")
    /\ UNCHANGED <<database, role, recorded, tx, faults, crashes>>

ReadApplied(p) ==
    /\ At(p) = "reading"
    /\ proc' = [proc EXCEPT ![p] =
           [at |-> "migrating", applied |-> recorded, looked |-> @.looked]]
    /\ UNCHANGED <<database, role, schema, recorded, tx, faults, crashes>>

\* The versions left are taken in order, each in a transaction of its own; one
\* transaction writes at a time, a second one waits.
Begin(p) ==
    /\ At(p) = "migrating"
    /\ tx = NoTx
    /\ \E v \in Versions :
          /\ IsNext(p, v)
          /\ tx' = [by |-> p, version |-> v, ran |-> 0, schema |-> schema]
    /\ UNCHANGED <<database, role, schema, recorded, proc, faults, crashes>>

Statement1 == Statements(tx.version)[tx.ran + 1]

\* Mutant: the statements run outside the transaction.
RunStatementAtOnce(p) ==
    /\ Holds(p) /\ tx.ran < Len(Statements(tx.version))
    /\ Runs(Statement1, tx.schema)
    /\ tx' = [tx EXCEPT !.ran = @ + 1, !.schema = After(Statement1, @)]
    /\ schema' = After(Statement1, tx.schema)
    /\ UNCHANGED <<database, role, recorded, proc, faults, crashes>>

RunStatement(p) ==
    /\ Holds(p) /\ tx.ran < Len(Statements(tx.version))
    /\ Runs(Statement1, tx.schema)
    /\ tx' = [tx EXCEPT !.ran = @ + 1, !.schema = After(Statement1, @)]
    /\ UNCHANGED <<database, role, schema, recorded, proc, faults, crashes>>

\* The version is recorded and the transaction committed.
Commit(p) ==
    /\ Holds(p) /\ tx.ran = Len(Statements(tx.version))
    /\ tx.version \notin recorded
    /\ schema' = tx.schema
    /\ recorded' = recorded \cup {tx.version}
    /\ tx' = NoTx
    /\ proc' = [proc EXCEPT ![p].looked = tx.version]
    /\ UNCHANGED <<database, role, faults, crashes>>

\* Mutant: a failed transaction is left open.
ReleaseNothing(p) == tx' = tx

Release(p) == tx' = IF Holds(p) THEN NoTx ELSE tx

\* A statement cannot run on what is there, or the version is recorded already:
\* the transaction is rolled back and the process ends with the error.
Overtaken(p) ==
    /\ Holds(p)
    /\ IF tx.ran < Len(Statements(tx.version)) THEN ~Runs(Statement1, tx.schema)
       ELSE tx.version \in recorded
    /\ Enter(p, "overtaken")
    /\ Release(p)
    /\ UNCHANGED <<database, role, schema, recorded, faults, crashes>>

\* Any database call may fail: no connection, a lock not had in time.
Fault(p) ==
    /\ faults < MaxFaults
    /\ At(p) \in {"opening", "reading", "migrating"}
    /\ Enter(p, "fault")
    /\ Release(p)
    /\ faults' = faults + 1
    /\ UNCHANGED <<database, role, schema, recorded, crashes>>

\* A process is killed; its transaction is rolled back.
Kill(p) ==
    /\ crashes < MaxCrashes
    /\ At(p) \notin {"stopped", "refused", "done", "fault", "overtaken"}
    /\ proc' = [proc EXCEPT ![p] = Stopped]
    /\ Release(p)
    /\ crashes' = crashes + 1
    /\ UNCHANGED <<database, role, schema, recorded, faults>>

\* Mutant: the service is up before the versions left are applied.
MigratedTooSoon(p) ==
    /\ At(p) = "migrating" /\ ~Holds(p)
    /\ Enter(p, IF role[p] = "boot" THEN "serving" ELSE "done")
    /\ UNCHANGED <<database, role, schema, recorded, tx, faults, crashes>>

Migrated(p) ==
    /\ At(p) = "migrating" /\ Left(p) = {}
    /\ Enter(p, IF role[p] = "boot" THEN "serving" ELSE "done")
    /\ UNCHANGED <<database, role, schema, recorded, tx, faults, crashes>>

ProcessStep(p) ==
    \/ Start(p) \/ OpenLedger(p) \/ ReadApplied(p)
    \/ Begin(p) \/ RunStatement(p) \/ Commit(p) \/ Overtaken(p) \/ Migrated(p)

------------------------------------------------------------------------------
(* Properties                                                              *)

\* What is committed is at every moment exactly what the versions in the ledger
\* give when they run in order, on either backend: no crash, failed statement or
\* second migrating process leaves a version applied in part, twice or out of
\* order, and the two backends' lists build the same schema.
SchemaMatchesLedger ==
    \E v \in 0..Len(SqliteMigrations) :
        /\ recorded = 1..v
        /\ schema \ {Ledger} = SchemaAfter[v]

\* A process that migrates on boot, and a `migrate` that succeeded, found or left
\* every version applied.
ServesMigrated ==
    \A p \in Processes :
        role[p] /= "plain" /\ At(p) \in {"serving", "done"} => recorded = Versions
=============================================================================
