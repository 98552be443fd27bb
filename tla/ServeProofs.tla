----------------------------- MODULE ServeProofs -----------------------------
(***************************************************************************)
(* Proofs about Serve: who migrates serves a database that is up to date,  *)
(* what is committed is what the versions in the ledger give, tokens keep  *)
(* their role, a portal's session shows what the endpoints grant, and the  *)
(* model is typed, for any number of processes and any configurations.     *)
(***************************************************************************)
EXTENDS Serve, FiniteSetTheorems, SequenceTheorems, WellFoundedInduction, TLAPS

\* A process that is under way was started with a valid configuration.
ConfigInv ==
    /\ WellFormed(config)
    /\ \A p \in Processes : At(p) \notin {"stopped", "refused"} => Valid(config)

ProcTyped ==
    /\ role \in [Processes -> Roles]
    /\ recorded \subseteq Versions
    /\ proc \in [Processes -> [at : Ends \cup {"opening", "reading", "migrating"},
                               applied : SUBSET Versions, looked : {0} \cup Versions]]

\* What a process takes for applied is; the transaction that holds the lock is that
\* of a process that migrates, at the first version it has left.
Progress ==
    /\ \A p \in Processes :
          /\ proc[p].applied \subseteq recorded
          /\ \A v \in Versions : v <= proc[p].looked => v \in recorded
    /\ \/ tx = NoTx
       \/ /\ tx.by \in Processes /\ At(tx.by) = "migrating"
          /\ IsNext(tx.by, tx.version)

ServeInv == ConfigInv /\ ProcTyped /\ Progress /\ ServesMigrated

LEMMA VersionsAreNumbers == Versions \subseteq Nat \ {0}
PROOF
  <1>1. SqliteInvoices \in Seq({SqliteInvoices[1], SqliteInvoices[2], SqliteInvoices[3]})
    BY DEF SqliteInvoices
  <1>2. SqliteRecords \in Seq({SqliteRecords[1], SqliteRecords[2], SqliteRecords[3],
                               SqliteRecords[4], SqliteRecords[5]})
    BY DEF SqliteRecords
  <1>3. QED
    BY <1>1, <1>2 DEF Versions, SqliteMigrations

LEMMA ServeStarts == Init => ServeInv
PROOF
  <1>1. SUFFICES ASSUME Init
                 PROVE  ServeInv
    OBVIOUS
  <1>2. PICK start \in Starts :
          config = start.config /\ role = start.role /\ MigrationsInit(start.version)
    BY <1>1 DEF Init
  <1>3. WellFormed(config) /\ role \in [Processes -> Roles]
    BY <1>2, StartsAssumption
  <1>4. recorded \subseteq Versions
    BY <1>2, StartsAssumption DEF MigrationsInit, Versions
  <1>5. proc = [p \in Processes |-> Stopped] /\ tx = NoTx
    BY <1>2 DEF MigrationsInit
  <1>6. \A p \in Processes : At(p) = "stopped" /\ proc[p].applied = {} /\ proc[p].looked = 0
    BY <1>5 DEF At, Stopped
  <1>7. ConfigInv /\ ServesMigrated
    BY <1>3, <1>6 DEF ConfigInv, ServesMigrated
  <1>8. ProcTyped
    BY <1>3, <1>4, <1>5 DEF ProcTyped, Stopped, Ends
  <1>9. Progress
    BY <1>5, <1>6, VersionsAreNumbers DEF Progress
  <1>10. QED
    BY <1>7, <1>8, <1>9 DEF ServeInv

\* Who holds the lock is migrating.
LEMMA Holder ==
    ASSUME ServeInv, NEW p \in Processes, Holds(p)
    PROVE  At(p) = "migrating" /\ IsNext(p, tx.version)
  BY MigrationsAssumption DEF ServeInv, Progress, Holds, NoTx

\* Only what is not under way is started, and that with a valid configuration.
LEMMA ConfigStep == ASSUME ServeInv, [Next]_vars PROVE ConfigInv'
PROOF
  <1> USE DEF ServeInv, ConfigInv, ProcTyped, At
  <1>1. ASSUME NEW p \in Processes, Refuse(p)
        PROVE  ConfigInv'
    BY <1>1 DEF Refuse, Enter
  <1>2. ASSUME NEW p \in Processes, Run(p)
        PROVE  ConfigInv'
    <2>1. CASE Start(p)
      BY <1>2, <2>1 DEF Run, Start
    <2>2. CASE OpenLedger(p) \/ ReadApplied(p) \/ Begin(p) \/ Migrated(p)
      BY <1>2, <2>2 DEF Run, OpenLedger, ReadApplied, Begin, Migrated
    <2>3. CASE RunStatement(p) \/ Commit(p) \/ Overtaken(p)
      <3>1. At(p) = "migrating"
        BY <2>3, Holder DEF RunStatement, Commit, Overtaken
      <3>2. QED
        BY <1>2, <3>1 DEF Run
    <2>4. QED
      BY <1>2, <2>1, <2>2, <2>3 DEF Run, ProcessStep
  <1>3. ASSUME NEW p \in Processes, Fault(p) \/ Kill(p), config' = config
        PROVE  ConfigInv'
    BY <1>3 DEF Fault, Kill, Enter, Stopped
  <1>4. CASE UNCHANGED vars
    BY <1>4 DEF vars, migrationVars
  <1>5. QED
    BY <1>1, <1>2, <1>3, <1>4 DEF Next

\* Entering a place leaves what a process read and how far it got.
LEMMA EnterTyped ==
    ASSUME ProcTyped, NEW p \in Processes,
           NEW at \in Ends \cup {"opening", "reading", "migrating"}, Enter(p, at)
    PROVE  /\ proc' \in [Processes -> [at : Ends \cup {"opening", "reading", "migrating"},
                                       applied : SUBSET Versions, looked : {0} \cup Versions]]
           /\ At(p)' = at
           /\ \A q \in Processes \ {p} : proc'[q] = proc[q]
           /\ proc'[p].applied = proc[p].applied /\ proc'[p].looked = proc[p].looked
  BY DEF ProcTyped, Enter, At

\* A step that only moves a process without the lock, to a place that is no end of
\* the migration, and records nothing.
LEMMA Moves ==
    ASSUME ServeInv, NEW p \in Processes, ~Holds(p) \/ tx' = NoTx,
           NEW at \in (Ends \cup {"opening", "reading", "migrating"}), Enter(p, at),
           at \notin {"serving", "done"}, UNCHANGED <<role, recorded>>,
           tx' = tx \/ tx' = NoTx
    PROVE  ProcTyped' /\ Progress' /\ ServesMigrated'
PROOF
  <1>1. ProcTyped'
    BY EnterTyped DEF ServeInv, ProcTyped
  <1>2. ServesMigrated'
    BY EnterTyped DEF ServeInv, ServesMigrated, At
  <1>3. \A q \in Processes : proc'[q].applied = proc[q].applied /\ proc'[q].looked = proc[q].looked
    BY EnterTyped DEF ServeInv
  <1>4. \A q \in Processes : /\ proc'[q].applied \subseteq recorded'
                             /\ \A v \in Versions : v <= proc'[q].looked => v \in recorded'
    BY <1>3 DEF ServeInv, Progress
  <1>5. ASSUME tx' = NoTx
        PROVE  Progress'
    BY <1>4, <1>5 DEF Progress, NoTx
  <1>6. ASSUME tx' = tx, tx /= NoTx, ~Holds(p)
        PROVE  Progress'
    <2>1. tx.by \in Processes \ {p} /\ At(tx.by) = "migrating" /\ IsNext(tx.by, tx.version)
      BY <1>6 DEF ServeInv, Progress, Holds
    <2>2. proc'[tx.by] = proc[tx.by]
      BY <2>1, EnterTyped DEF ServeInv
    <2>3. At(tx.by)' = "migrating" /\ IsNext(tx.by, tx.version)'
      BY <1>6, <2>1, <2>2 DEF At, IsNext, Left
    <2>4. QED
      BY <1>4, <1>6, <2>1, <2>3 DEF Progress
  <1>7. QED
    BY <1>1, <1>2, <1>5, <1>6

\* What a process has not left is recorded.
LEMMA SeenIsRecorded ==
    ASSUME ServeInv, NEW p \in Processes, NEW v \in Versions, v \notin Left(p)
    PROVE  v \in recorded
PROOF
  <1>1. v \in Nat
    BY VersionsAreNumbers
  <1>2. proc[p].looked \in Nat
    <2>1. proc[p].looked \in {0} \cup Versions
      BY DEF ServeInv, ProcTyped
    <2>2. \A n \in {0} \cup Versions : n \in Nat
      BY VersionsAreNumbers
    <2>3. QED
      BY <2>1, <2>2
  <1>3. v <= proc[p].looked \/ v \in proc[p].applied
    BY <1>1, <1>2 DEF Left
  <1>4. QED
    BY <1>3 DEF ServeInv, Progress

\* Every step of a process keeps what it knows true, and serves only behind the
\* last version.
LEMMA ProcessSteps ==
    ASSUME ServeInv, NEW p \in Processes, ProcessStep(p)
    PROVE  ProcTyped' /\ Progress' /\ ServesMigrated'
PROOF
  <1> USE DEF ServeInv
  <1>1. CASE Start(p)
    <2>1. ~Holds(p)
      BY <1>1, Holder DEF Start
    <2>2. PICK at \in {"serving", "opening"} :
            /\ at = "serving" <=> role[p] = "plain"
            /\ proc' = [proc EXCEPT ![p] = [at |-> at, applied |-> {}, looked |-> 0]]
      <3>1. \A at : [Stopped EXCEPT !.at = at] = [at |-> at, applied |-> {}, looked |-> 0]
        BY DEF Stopped
      <3>2. QED
        BY <1>1, <3>1 DEF Start
    <2>3. UNCHANGED <<role, recorded, tx>>
      BY <1>1 DEF Start
    <2>4. ProcTyped' /\ ServesMigrated'
      BY <2>2, <2>3 DEF ProcTyped, Ends, ServesMigrated, At
    <2>5. \A q \in Processes \ {p} : proc'[q] = proc[q]
      BY <2>2 DEF ProcTyped
    <2>6. proc'[p].applied = {} /\ proc'[p].looked = 0
      BY <2>2 DEF ProcTyped
    <2>7. \A q \in Processes : /\ proc'[q].applied \subseteq recorded'
                               /\ \A v \in Versions : v <= proc'[q].looked => v \in recorded'
      BY <2>3, <2>5, <2>6, VersionsAreNumbers DEF Progress
    <2>8. tx /= NoTx => tx.by \in Processes \ {p} /\ proc'[tx.by] = proc[tx.by]
      BY <2>1, <2>5 DEF Progress, Holds
    <2>9. Progress'
      BY <2>3, <2>7, <2>8 DEF Progress, At, IsNext, Left
    <2>10. QED
      BY <2>4, <2>9
  <1>2. CASE OpenLedger(p)
    <2>1. ~Holds(p)
      BY <1>2, Holder DEF OpenLedger
    <2>2. QED
      BY <1>2, <2>1, Moves DEF OpenLedger
  <1>3. CASE ReadApplied(p)
    <2>1. ~Holds(p)
      BY <1>3, Holder DEF ReadApplied
    <2>2. /\ proc' = [proc EXCEPT ![p] = [at |-> "migrating", applied |-> recorded,
                                         looked |-> proc[p].looked]]
          /\ UNCHANGED <<role, recorded, tx>>
      BY <1>3 DEF ReadApplied
    <2>3. ProcTyped' /\ ServesMigrated'
      BY <2>2 DEF ProcTyped, ServesMigrated, At
    <2>4. \A q \in Processes \ {p} : proc'[q] = proc[q]
      BY <2>2 DEF ProcTyped
    <2>5. \A q \in Processes : /\ proc'[q].applied \subseteq recorded'
                               /\ \A v \in Versions : v <= proc'[q].looked => v \in recorded'
      BY <2>2, <2>4 DEF Progress, ProcTyped
    <2>6. tx /= NoTx => tx.by \in Processes \ {p} /\ proc'[tx.by] = proc[tx.by]
      BY <2>1, <2>4 DEF Progress, Holds
    <2>7. Progress'
      BY <2>2, <2>5, <2>6 DEF Progress, At, IsNext, Left
    <2>8. QED
      BY <2>3, <2>7
  <1>4. CASE Begin(p)
    <2>1. PICK v \in Versions :
            IsNext(p, v) /\ tx' = [by |-> p, version |-> v, ran |-> 0, schema |-> schema]
      BY <1>4 DEF Begin
    <2>2. At(p) = "migrating" /\ UNCHANGED <<role, recorded, proc>>
      BY <1>4 DEF Begin
    <2>3. tx'.by = p /\ tx'.version = v
      BY <2>1
    <2>4. IsNext(p, v)'
      BY <2>1, <2>2 DEF IsNext, Left
    <2>5. Progress'
      BY <2>2, <2>3, <2>4 DEF Progress, At
    <2>6. QED
      BY <2>2, <2>5 DEF ProcTyped, ServesMigrated, At
  <1>5. CASE RunStatement(p)
    <2>1. /\ At(p) = "migrating" /\ IsNext(p, tx.version)
          /\ UNCHANGED <<role, recorded, proc>>
      BY <1>5, Holder DEF RunStatement
    <2>2. tx /= NoTx /\ tx.by = p
      BY <1>5, MigrationsAssumption DEF RunStatement, Holds, NoTx
    <2>3. tx'.by = tx.by /\ tx'.version = tx.version
      BY <1>5 DEF RunStatement
    <2>4. QED
      BY <2>1, <2>2, <2>3 DEF ProcTyped, Progress, ServesMigrated, At, IsNext, Left
  <1>6. CASE Commit(p)
    <2>1. /\ At(p) = "migrating" /\ IsNext(p, tx.version) /\ tx.version \in Versions
          /\ UNCHANGED role /\ tx' = NoTx
          /\ recorded' = recorded \cup {tx.version}
          /\ proc' = [proc EXCEPT ![p] = [proc[p] EXCEPT !.looked = tx.version]]
      BY <1>6, Holder DEF Commit, IsNext, Left
    <2>2. ProcTyped'
      BY <2>1 DEF ProcTyped
    <2>3. \A q \in Processes \ {p} : proc'[q] = proc[q]
      BY <2>1 DEF ProcTyped
    <2>4. /\ proc'[p].at = "migrating" /\ proc'[p].applied = proc[p].applied
          /\ proc'[p].looked = tx.version
      BY <2>1 DEF ProcTyped, At
    <2>5. \A v \in Versions : v <= tx.version => v \in recorded'
      <3>1. SUFFICES ASSUME NEW v \in Versions, v <= tx.version, v /= tx.version
                     PROVE  v \in recorded
        BY <2>1
      <3>2. v \notin Left(p)
        BY <2>1, <3>1, VersionsAreNumbers DEF IsNext
      <3>3. QED
        BY <3>2, SeenIsRecorded
    <2>6. \A q \in Processes : /\ proc'[q].applied \subseteq recorded'
                               /\ \A v \in Versions : v <= proc'[q].looked => v \in recorded'
      BY <2>1, <2>3, <2>4, <2>5 DEF Progress
    <2>7. ServesMigrated'
      BY <2>1, <2>2, <2>3, <2>4 DEF ServesMigrated, At, ProcTyped
    <2>8. QED
      BY <2>1, <2>2, <2>6, <2>7 DEF Progress
  <1>7. CASE Overtaken(p)
    <2>1. tx' = NoTx
      BY <1>7 DEF Overtaken, Release
    <2>2. QED
      BY <1>7, <2>1, Moves DEF Overtaken, Ends
  <1>8. CASE Migrated(p)
    <2>1. ~Holds(p)
      BY <1>8, Holder DEF Migrated, IsNext
    <2>2. PICK at \in Ends : Enter(p, at) /\ at \in {"serving", "done"}
      BY <1>8 DEF Migrated, Ends
    <2>3. UNCHANGED <<role, recorded, tx>> /\ Left(p) = {}
      BY <1>8 DEF Migrated
    <2>4. recorded = Versions
      BY <2>3, SeenIsRecorded DEF ProcTyped
    <2>5. ProcTyped'
      BY <2>2, <2>3, EnterTyped DEF ProcTyped
    <2>6. ServesMigrated'
      BY <2>3, <2>4 DEF ServesMigrated
    <2>7. \A q \in Processes : proc'[q].applied = proc[q].applied /\ proc'[q].looked = proc[q].looked
      BY <2>2, EnterTyped
    <2>8. tx /= NoTx => tx.by \in Processes \ {p} /\ proc'[tx.by] = proc[tx.by]
      BY <2>1, <2>2, EnterTyped DEF Progress, Holds
    <2>9. Progress'
      BY <2>3, <2>7, <2>8 DEF Progress, At, IsNext, Left
    <2>10. QED
      BY <2>5, <2>6, <2>9
  <1>9. QED
    BY <1>1, <1>2, <1>3, <1>4, <1>5, <1>6, <1>7, <1>8 DEF ProcessStep

LEMMA ServeSteps == ASSUME ServeInv, [Next]_vars PROVE ServeInv'
PROOF
  <1>1. ConfigInv'
    BY ConfigStep
  <1>2. ASSUME NEW p \in Processes, Refuse(p)
        PROVE  ProcTyped' /\ Progress' /\ ServesMigrated'
    <2>1. ~Holds(p)
      BY <1>2, Holder DEF Refuse
    <2>2. QED
      BY <1>2, <2>1, Moves DEF Refuse, Ends
  <1>3. ASSUME NEW p \in Processes, Fault(p)
        PROVE  ProcTyped' /\ Progress' /\ ServesMigrated'
    BY <1>3, Moves DEF Fault, Release, Ends
  <1>4. ASSUME NEW p \in Processes, Kill(p)
        PROVE  ProcTyped' /\ Progress' /\ ServesMigrated'
    <2> USE DEF ServeInv
    <2>1. /\ proc' = [proc EXCEPT ![p] = Stopped] /\ UNCHANGED <<role, recorded>>
          /\ tx' = IF Holds(p) THEN NoTx ELSE tx
      BY <1>4 DEF Kill, Release
    <2>2. ProcTyped' /\ ServesMigrated'
      BY <2>1 DEF ProcTyped, ServesMigrated, Stopped, Ends, At
    <2>3. \A q \in Processes \ {p} : proc'[q] = proc[q]
      BY <2>1 DEF ProcTyped
    <2>4. proc'[p].applied = {} /\ proc'[p].looked = 0
      BY <2>1 DEF ProcTyped, Stopped
    <2>5. \A q \in Processes : /\ proc'[q].applied \subseteq recorded'
                               /\ \A v \in Versions : v <= proc'[q].looked => v \in recorded'
      BY <2>1, <2>3, <2>4, VersionsAreNumbers DEF Progress
    <2>6. Progress'
      <3>1. CASE tx' = NoTx
        BY <2>5, <3>1 DEF Progress, NoTx
      <3>2. CASE tx' = tx /\ tx /= NoTx /\ tx.by /= p
        <4>1. proc'[tx.by] = proc[tx.by]
          BY <2>3, <3>2 DEF Progress
        <4>2. QED
          BY <2>5, <3>2, <4>1 DEF Progress, At, IsNext, Left
      <3>3. QED
        BY <2>1, <3>1, <3>2 DEF Holds
    <2>7. QED
      BY <2>2, <2>6
  <1>5. CASE UNCHANGED vars
    <2>1. UNCHANGED <<role, recorded, proc, tx>>
      BY <1>5 DEF vars, migrationVars
    <2>2. ProcTyped' /\ ServesMigrated'
      BY <2>1 DEF ServeInv, ProcTyped, ServesMigrated, At
    <2>3. Progress'
      BY <2>1 DEF ServeInv, Progress, At, IsNext, Left
    <2>4. QED
      BY <1>1, <2>2, <2>3 DEF ServeInv
  <1>6. QED
    BY <1>1, <1>2, <1>3, <1>4, <1>5, ProcessSteps DEF Next, Run, ServeInv

LEMMA ServeIsInductive == Spec => []ServeInv
  BY ServeStarts, ServeSteps, PTL DEF Spec

\* A process that migrates serves, or is done, only when every version is applied:
\* whatever other processes apply meanwhile, and wherever processes fail or are
\* killed (serve, migrate_sqlite, migrate_postgres).
THEOREM MigratedBeforeServing == Spec => []ServesMigrated
  BY ServeIsInductive, PTL DEF ServeInv

------------------------------------------------------------------------------
\* The variables that count as a store's tokens, in a valid configuration.
LEMMA TokenNames ==
    ASSUME NEW c, WellFormed(c), Valid(c), NEW s \in DOMAIN c.stores
    PROVE  /\ {ApiName(c, s), AdminName(c, s), PayoutName(c, s)} \subseteq Names
           /\ AdminConfigured(c, s) => AdminName(c, s) /= ApiName(c, s)
           /\ PayoutConfigured(c, s) => PayoutName(c, s) \notin {ApiName(c, s), AdminName(c, s)}
PROOF
  <1>1. ValidStore(c, s)
    BY DEF Valid
  <1>2. ApiName(c, s) \in Names
    BY <1>1 DEF ValidStore, ApiName, First, WellFormed, Settings
  <1>3. AdminName(c, s) \in Names
    BY <1>2 DEF AdminName, First, WellFormed, Settings
  <1>4. PayoutName(c, s) \in Names
    BY <1>3 DEF PayoutName, First, WellFormed, Settings
  <1>5. QED
    BY <1>1, <1>2, <1>3, <1>4 DEF ValidStore

LEMMA RolesHold == ServeInv => TokensKeepTheirRole
PROOF
  <1>1. SUFFICES ASSUME ServeInv, Up, Distinct(config),
                        NEW s \in DOMAIN config.stores, NEW t \in Tokens
                 PROVE  /\ AdminConfigured(config, s) /\ AuthorizeAdmin(config, s, t) =>
                              ~AuthorizeApi(config, s, t)
                        /\ PayoutConfigured(config, s) /\ AuthorizePayout(config, s, t) =>
                              \/ ~AuthorizeApi(config, s, t) /\ ~AuthorizeAdmin(config, s, t)
                              \/ AuthorizeAdmin(config, s, t) /\ AdminTokenCanPayout(config, s)
    BY DEF TokensKeepTheirRole
  <1>2. WellFormed(config) /\ Valid(config)
    BY <1>1 DEF ServeInv, ConfigInv, Up
  <1> DEFINE Api == ApiName(config, s)
             Admin == AdminName(config, s)
             Pay == PayoutName(config, s)
  <1>3. /\ {Api, Admin, Pay} \subseteq Names
        /\ AdminConfigured(config, s) => Admin /= Api
        /\ PayoutConfigured(config, s) => Pay \notin {Api, Admin}
    BY <1>2, TokenNames
  <1>4. \A n, m \in Names : config.env[n] = t /\ config.env[m] = t => n = m
    BY <1>1, AccessAssumption DEF Distinct
  <1>5. QED
    BY <1>3, <1>4 DEF AuthorizeApi, AuthorizeAdmin, AuthorizePayout, Is

\* Without two variables of one value, a token of a process that serves has the role
\* the configuration gives it and no other, in any configuration that is accepted
\* (validate, authorize_api, authorize_admin, authorize_payout).
THEOREM RolesAreKept == Spec => []TokensKeepTheirRole
  BY ServeIsInductive, RolesHold, PTL

LEMMA SessionHolds == SessionMatchesEndpoints
PROOF
  <1>1. SUFFICES ASSUME NEW t \in Tokens, NEW o \in Origins \cup {NoOrigin}
        PROVE LET accepted(s) == {scope \in {"admin", "payout"} :
                      /\ AdminOrigin(config, s, o)
                      /\ IF scope = "admin" THEN AuthorizeAdmin(config, s, t)
                         ELSE AuthorizePayout(config, s, t)}
              IN \/ Session(config, t, o) = UNION {{s} \X accepted(s) : s \in DOMAIN config.stores}
                 \/ Session(config, t, o) = {} /\ \E s \in DOMAIN config.stores : LacksVariable(config, s)
    BY DEF SessionMatchesEndpoints
  <1> DEFINE accepted(s) == {scope \in {"admin", "payout"} :
                 /\ AdminOrigin(config, s, o)
                 /\ IF scope = "admin" THEN AuthorizeAdmin(config, s, t)
                    ELSE AuthorizePayout(config, s, t)}
             granted == UNION {{s} \X accepted(s) : s \in DOMAIN config.stores}
  <1>2. CASE ~SessionOrigin(config, o)
    <2>1. \A s \in DOMAIN config.stores : accepted(s) = {}
      BY <1>2 DEF SessionOrigin
    <2>2. granted = {}
      BY <2>1
    <2>3. QED
      BY <1>2, <2>2 DEF Session
  <1>3. CASE \E s \in Reached(config, o) : LacksVariable(config, s)
    BY <1>3 DEF Session, Reached
  <1>4. CASE /\ SessionOrigin(config, o)
             /\ \A s \in Reached(config, o) : ~LacksVariable(config, s)
    <2>1. \A s \in Reached(config, o) : accepted(s) = Scopes(config, s, t)
      BY <1>4 DEF Reached, LacksVariable, Scopes, AuthorizeAdmin, AuthorizePayout, Is
    <2>2. \A s \in DOMAIN config.stores : s \notin Reached(config, o) => accepted(s) = {}
      BY DEF Reached
    <2>3. granted = UNION {{s} \X Scopes(config, s, t) : s \in Reached(config, o)}
      BY <2>1, <2>2 DEF Reached
    <2>4. QED
      BY <1>4, <2>3 DEF Session
  <1>5. QED
    BY <1>2, <1>3, <1>4

\* What signing in answers is what the endpoints accept, store by store and scope by
\* scope, for every configuration, token and origin, but for a variable that is
\* missing (admin_session, authorize_admin, authorize_payout).
THEOREM SessionsTellTheTruth == Spec => []SessionMatchesEndpoints
  BY SessionHolds, PTL

------------------------------------------------------------------------------
(* Statements one after the other.  Every claim about all of them is proved *)
(* by the first one it fails for.                                           *)

LEMMA Smallest ==
    ASSUME NEW N \in Nat, NEW T \in SUBSET (0..N), T /= {}
    PROVE  \E n \in T : \A m \in T : n <= m
PROOF
  <1> DEFINE S == 0..N
             starts == {0..n : n \in T}
  <1>1. IsFiniteSet(S)
    BY FS_Interval
  <1>2. IsWellFoundedOn(StrictSubsetOrdering(S), FiniteSubsetsOf(S))
    BY <1>1, FS_StrictSubsetOrderingWellFounded
  <1>3. FiniteSubsetsOf(S) = SUBSET S
    BY <1>1, FS_FiniteSubsetsOfFinite
  <1>4. starts \in SUBSET (SUBSET S) /\ starts /= {}
    <2>1. \A n \in T : n \in 0..N
      OBVIOUS
    <2>2. \A n \in 0..N : 0..n \subseteq S
      OBVIOUS
    <2> HIDE DEF S
    <2>3. QED
      BY <2>1, <2>2
  <1>5. PICK U \in starts : \A V \in starts : <<V, U>> \notin StrictSubsetOrdering(S)
    <2> HIDE DEF S, starts
    <2>1. QED
      BY <1>2, <1>3, <1>4, WFMin
  <1>6. PICK n \in T : U = 0..n
    OBVIOUS
  <1>7. ASSUME NEW m \in T, ~(n <= m)
        PROVE  FALSE
    <2>1. 0..m \in starts /\ 0..m \subseteq 0..n /\ 0..m /= 0..n /\ 0..n \subseteq S
      BY <1>7
    <2>2. QED
      BY <1>5, <1>6, <2>1 DEF StrictSubsetOrdering
  <1>8. QED
    BY <1>7

\* The recursive function of Ran, entry by entry.
Follows(after, statements, s) ==
    after = [k \in 0..Len(statements) |->
                IF k = 0 THEN s ELSE After(statements[k], after[k - 1])]

AfterEach(statements, s) == CHOOSE after : Follows(after, statements, s)

LEMMA RanIsLast ==
    ASSUME NEW statements, NEW s
    PROVE  Ran(statements, s) = AfterEach(statements, s)[Len(statements)]
  BY DEF Ran, AfterEach, Follows

LEMMA AfterEachExists ==
    ASSUME NEW statements, NEW s, Len(statements) \in Nat
    PROVE  Follows(AfterEach(statements, s), statements, s)
PROOF
  <1> DEFINE N == Len(statements)
             after(g, n) == g = [k \in 0..n |->
                                    IF k = 0 THEN s ELSE After(statements[k], g[k - 1])]
             Flawed == {n \in 0..N : ~ \E g : after(g, n)}
  <1>1. SUFFICES \E g : after(g, N)
    BY DEF AfterEach, Follows
  <1>2. SUFFICES ASSUME Flawed /= {}
                 PROVE  FALSE
    OBVIOUS
  <1>3. PICK n \in Flawed : \A m \in Flawed : n <= m
    <2>1. Flawed \in SUBSET (0..N)
      OBVIOUS
    <2> HIDE DEF Flawed
    <2>2. QED
      BY <1>2, <2>1, Smallest
  <1>4. n \in 0..N /\ ~ \E g : after(g, n)
    OBVIOUS
  <1>5. CASE n = 0
    <2>1. [k \in 0..0 |-> IF k = 0 THEN s ELSE After(statements[k], [j \in 0..0 |-> s][k - 1])]
             = [k \in 0..0 |-> s]
      OBVIOUS
    <2>2. QED
      BY <1>4, <1>5, <2>1
  <1>6. CASE n /= 0
    <2>1. n - 1 \in 0..N /\ n - 1 \notin Flawed
      BY <1>3, <1>4, <1>6
    <2>2. PICK h : after(h, n - 1)
      BY <2>1
    <2> DEFINE g == [k \in 0..n |-> IF k = n THEN After(statements[n], h[n - 1]) ELSE h[k]]
    <2>3. \A k \in 0..(n - 1) : h[k] = IF k = 0 THEN s ELSE After(statements[k], h[k - 1])
      <3> HIDE DEF After
      <3> DEFINE entry(k) == IF k = 0 THEN s ELSE After(statements[k], h[k - 1])
      <3>1. h = [k \in 0..(n - 1) |-> entry(k)]
        BY <2>2
      <3> HIDE DEF entry
      <3>2. \A k \in 0..(n - 1) : h[k] = entry(k)
        BY <3>1
      <3>3. QED
        BY <3>2 DEF entry
    <2>4. g[n] = After(statements[n], h[n - 1]) /\ \A k \in 0..(n - 1) : g[k] = h[k]
      BY <1>4
    <2>5. \A k \in 0..n : g[k] = IF k = 0 THEN s ELSE After(statements[k], g[k - 1])
      <3>1. TAKE k \in 0..n
      <3>2. CASE k = n
        <4>1. n - 1 \in 0..(n - 1)
          BY <1>4, <1>6
        <4> HIDE DEF g
        <4>2. QED
          BY <1>6, <2>4, <3>2, <4>1
      <3>3. CASE k /= n
        <4>1. k \in 0..(n - 1) /\ (k /= 0 => k - 1 \in 0..(n - 1))
          BY <1>4, <3>3
        <4> HIDE DEF g
        <4>2. QED
          BY <2>3, <2>4, <4>1
      <3>4. QED
        BY <3>2, <3>3
    <2>6. after(g, n)
      <3> DEFINE entry(k) == IF k = 0 THEN s ELSE After(statements[k], g[k - 1])
      <3>1. \A k \in 0..n : g[k] = entry(k)
        BY <2>5
      <3>2. g = [k \in 0..n |-> g[k]]
        OBVIOUS
      <3> HIDE DEF g, entry
      <3>3. g = [k \in 0..n |-> entry(k)]
        BY <3>1, <3>2
      <3>4. QED
        BY <3>3 DEF entry
    <2>7. QED
      BY <1>4, <2>6
  <1>7. QED
    BY <1>5, <1>6

LEMMA AfterEachEntries ==
    ASSUME NEW statements, NEW s, Len(statements) \in Nat
    PROVE  /\ AfterEach(statements, s)[0] = s
           /\ \A k \in 1..Len(statements) :
                 AfterEach(statements, s)[k]
                     = After(statements[k], AfterEach(statements, s)[k - 1])
PROOF
  <1> DEFINE after == AfterEach(statements, s)
             entry(k) == IF k = 0 THEN s ELSE After(statements[k], after[k - 1])
  <1>1. after = [k \in 0..Len(statements) |-> entry(k)]
    BY AfterEachExists DEF Follows
  <1> HIDE DEF entry, after
  <1>2. \A k \in 0..Len(statements) : after[k] = entry(k)
    BY <1>1
  <1>3. after[0] = entry(0) /\ \A k \in 1..Len(statements) : after[k] = entry(k) /\ k /= 0
    BY <1>2
  <1>4. QED
    BY <1>3 DEF entry, after


LEMMA TheMigrations ==
    /\ Len(SqliteMigrations) = 8 /\ Versions = 1..8
    /\ PostgresMigrations = SqliteMigrations
    /\ \A v \in 1..3 : SqliteMigrations[v] = SqliteInvoices[v]
    /\ \A v \in 4..8 : SqliteMigrations[v] = SqliteRecords[v - 3]
PROOF
  <1> DEFINE Lists == {SqliteInvoices[i] : i \in 1..3} \cup {SqliteRecords[i] : i \in 1..5}
  <1>1. SqliteInvoices \in Seq(Lists) /\ Len(SqliteInvoices) = 3
    <2>1. /\ Len(SqliteInvoices) = 3
          /\ SqliteInvoices \in Seq({SqliteInvoices[1], SqliteInvoices[2], SqliteInvoices[3]})
      BY DEF SqliteInvoices
    <2>2. QED
      BY <2>1
  <1>2. SqliteRecords \in Seq(Lists) /\ Len(SqliteRecords) = 5
    <2>1. /\ Len(SqliteRecords) = 5
          /\ SqliteRecords \in Seq({SqliteRecords[1], SqliteRecords[2], SqliteRecords[3],
                                    SqliteRecords[4], SqliteRecords[5]})
      BY DEF SqliteRecords
    <2>2. QED
      BY <2>1
  <1>3. PostgresMigrations = SqliteMigrations
    BY DEF PostgresInvoices, SqliteInvoices, PostgresRecords, SqliteRecords,
           PostgresMigrations, SqliteMigrations
  <1> HIDE DEF Lists
  <1>4. /\ SqliteMigrations \in Seq(Lists) /\ Len(SqliteMigrations) = 3 + 5
        /\ \A v \in 1..(3 + 5) : SqliteMigrations[v] =
              IF v <= 3 THEN SqliteInvoices[v] ELSE SqliteRecords[v - 3]
    <2>1. /\ SqliteInvoices \o SqliteRecords \in Seq(Lists)
          /\ Len(SqliteInvoices \o SqliteRecords) = Len(SqliteInvoices) + Len(SqliteRecords)
          /\ \A v \in 1..(Len(SqliteInvoices) + Len(SqliteRecords)) :
                (SqliteInvoices \o SqliteRecords)[v] =
                    IF v <= Len(SqliteInvoices) THEN SqliteInvoices[v]
                    ELSE SqliteRecords[v - Len(SqliteInvoices)]
      BY <1>1, <1>2, ConcatProperties
    <2>2. QED
      BY <1>1, <1>2, <2>1 DEF SqliteMigrations
  <1>5. 3 + 5 = 8
    OBVIOUS
  <1>6. Versions = 1..8
    BY <1>4, <1>5 DEF Versions
  <1>7. QED
    BY <1>3, <1>4, <1>5, <1>6

LEMMA StatementsAre == ASSUME NEW v PROVE Statements(v) = SqliteMigrations[v]
  BY TheMigrations DEF Statements

\* No statement is about the ledger, and only the fifth version drops something.
Harmless(statement) == statement.obj /= Ledger
Grows(statement) == statement.op /= "drop"

LEMMA HarmlessStatements ==
    ASSUME NEW a, NEW b, NEW c
    PROVE  /\ a /= "schema_migrations" => Harmless(Table(a))
           /\ Grows(Table(a))
           /\ Harmless(Index(a, b, c)) /\ Grows(Index(a, b, c))
           /\ Harmless(Column(a, b)) /\ Grows(Column(a, b))
           /\ Harmless(DropIndex(a))
  BY DEF Table, Index, Column, DropIndex, Harmless, Grows, Ledger

LEMMA TablesAreHarmless ==
    \A t \in {"store_counters", "invoices", "events", "webhook_deliveries", "refunds",
              "lightning_sweeps"} : Harmless(Table(t))
  BY HarmlessStatements

Fine(statement) == Harmless(statement) /\ Grows(statement)

\* The statements of each version, one by one.
LEMMA InvoiceStatements ==
    \A v \in 1..3 : Len(SqliteInvoices[v]) \in Nat /\
        \A k \in 1..Len(SqliteInvoices[v]) : Fine(SqliteInvoices[v][k])
PROOF
  <1>1. Len(SqliteInvoices[1]) = 7 /\ \A k \in 1..7 : Fine(SqliteInvoices[1][k])
    <2>1. Len(SqliteInvoices[1]) = 7
      BY DEF SqliteInvoices
    <2>2. /\ Fine(SqliteInvoices[1][1]) /\ Fine(SqliteInvoices[1][2]) /\ Fine(SqliteInvoices[1][3])
          /\ Fine(SqliteInvoices[1][4]) /\ Fine(SqliteInvoices[1][5]) /\ Fine(SqliteInvoices[1][6])
          /\ Fine(SqliteInvoices[1][7])
      BY HarmlessStatements, TablesAreHarmless DEF Fine, SqliteInvoices
    <2>3. \A k \in 1..7 : k \in {1, 2, 3, 4, 5, 6, 7}
      OBVIOUS
    <2>4. QED
      BY <2>1, <2>2, <2>3
  <1>2. Len(SqliteInvoices[2]) = 2 /\ \A k \in 1..2 : Fine(SqliteInvoices[2][k])
    <2>1. Len(SqliteInvoices[2]) = 2
      BY DEF SqliteInvoices
    <2>2. /\ Fine(SqliteInvoices[2][1]) /\ Fine(SqliteInvoices[2][2])
      BY HarmlessStatements, TablesAreHarmless DEF Fine, SqliteInvoices
    <2>3. \A k \in 1..2 : k \in {1, 2}
      OBVIOUS
    <2>4. QED
      BY <2>1, <2>2, <2>3
  <1>3. Len(SqliteInvoices[3]) = 3 /\ \A k \in 1..3 : Fine(SqliteInvoices[3][k])
    <2>1. Len(SqliteInvoices[3]) = 3
      BY DEF SqliteInvoices
    <2>2. /\ Fine(SqliteInvoices[3][1]) /\ Fine(SqliteInvoices[3][2]) /\ Fine(SqliteInvoices[3][3])
      BY HarmlessStatements, TablesAreHarmless DEF Fine, SqliteInvoices
    <2>3. \A k \in 1..3 : k \in {1, 2, 3}
      OBVIOUS
    <2>4. QED
      BY <2>1, <2>2, <2>3
  <1>4. \A v \in 1..3 : v \in {1, 2, 3}
    OBVIOUS
  <1>5. QED
    BY <1>1, <1>2, <1>3, <1>4

LEMMA RecordStatements ==
    \A v \in 1..5 : Len(SqliteRecords[v]) \in Nat /\
        \A k \in 1..Len(SqliteRecords[v]) :
            Harmless(SqliteRecords[v][k]) /\ (v /= 2 => Grows(SqliteRecords[v][k]))
PROOF
  <1>1. Len(SqliteRecords[1]) = 4 /\ \A k \in 1..4 : Fine(SqliteRecords[1][k])
    <2>1. Len(SqliteRecords[1]) = 4
      BY DEF SqliteRecords
    <2>2. /\ Fine(SqliteRecords[1][1]) /\ Fine(SqliteRecords[1][2]) /\ Fine(SqliteRecords[1][3])
          /\ Fine(SqliteRecords[1][4])
      BY HarmlessStatements, TablesAreHarmless DEF Fine, SqliteRecords
    <2>3. \A k \in 1..4 : k \in {1, 2, 3, 4}
      OBVIOUS
    <2>4. QED
      BY <2>1, <2>2, <2>3
  <1>2. Len(SqliteRecords[2]) = 4 /\ \A k \in 1..4 : Harmless(SqliteRecords[2][k])
    <2>1. Len(SqliteRecords[2]) = 4
      BY DEF SqliteRecords
    <2>2. /\ Harmless(SqliteRecords[2][1]) /\ Harmless(SqliteRecords[2][2])
          /\ Harmless(SqliteRecords[2][3]) /\ Harmless(SqliteRecords[2][4])
      BY HarmlessStatements, TablesAreHarmless DEF SqliteRecords
    <2>3. \A k \in 1..4 : k \in {1, 2, 3, 4}
      OBVIOUS
    <2>4. QED
      BY <2>1, <2>2, <2>3
  <1>3. Len(SqliteRecords[3]) = 5 /\ \A k \in 1..5 : Fine(SqliteRecords[3][k])
    <2>1. Len(SqliteRecords[3]) = 5
      BY DEF SqliteRecords
    <2>2. /\ Fine(SqliteRecords[3][1]) /\ Fine(SqliteRecords[3][2]) /\ Fine(SqliteRecords[3][3])
          /\ Fine(SqliteRecords[3][4]) /\ Fine(SqliteRecords[3][5])
      BY HarmlessStatements, TablesAreHarmless DEF Fine, SqliteRecords
    <2>3. \A k \in 1..5 : k \in {1, 2, 3, 4, 5}
      OBVIOUS
    <2>4. QED
      BY <2>1, <2>2, <2>3
  <1>4. Len(SqliteRecords[4]) = 3 /\ \A k \in 1..3 : Fine(SqliteRecords[4][k])
    <2>1. Len(SqliteRecords[4]) = 3
      BY DEF SqliteRecords
    <2>2. /\ Fine(SqliteRecords[4][1]) /\ Fine(SqliteRecords[4][2]) /\ Fine(SqliteRecords[4][3])
      BY HarmlessStatements, TablesAreHarmless DEF Fine, SqliteRecords
    <2>3. \A k \in 1..3 : k \in {1, 2, 3}
      OBVIOUS
    <2>4. QED
      BY <2>1, <2>2, <2>3
  <1>5. Len(SqliteRecords[5]) = 2 /\ \A k \in 1..2 : Fine(SqliteRecords[5][k])
    <2>1. Len(SqliteRecords[5]) = 2
      BY DEF SqliteRecords
    <2>2. /\ Fine(SqliteRecords[5][1]) /\ Fine(SqliteRecords[5][2])
      BY HarmlessStatements, TablesAreHarmless DEF Fine, SqliteRecords
    <2>3. \A k \in 1..2 : k \in {1, 2}
      OBVIOUS
    <2>4. QED
      BY <2>1, <2>2, <2>3
  <1>6. \A v \in 1..5 : v \in {1, 2, 3, 4, 5}
    OBVIOUS
  <1>7. QED
    BY <1>1, <1>2, <1>3, <1>4, <1>5, <1>6 DEF Fine

LEMMA StatementsAreFine ==
    ASSUME NEW v \in 1..8
    PROVE  /\ Len(SqliteMigrations[v]) \in Nat
           /\ \A k \in 1..Len(SqliteMigrations[v]) :
                 /\ Harmless(SqliteMigrations[v][k])
                 /\ v /= 5 => Grows(SqliteMigrations[v][k])
PROOF
  <1>1. CASE v \in 1..3
    BY <1>1, TheMigrations, InvoiceStatements DEF Fine
  <1>2. CASE v \in 4..8
    <2>1. v - 3 \in 1..5 /\ (v /= 5 => v - 3 /= 2) /\ SqliteMigrations[v] = SqliteRecords[v - 3]
      BY <1>2, TheMigrations
    <2>2. QED
      BY <2>1, RecordStatements
  <1>3. QED
    BY <1>1, <1>2


\* SchemaAfter, version by version.
Builds(after) ==
    after = [v \in 0..Len(SqliteMigrations) |->
                IF v = 0 THEN {} ELSE Ran(SqliteMigrations[v], after[v - 1])]

LEMMA SchemaAfterExists == Builds(SchemaAfter)
PROOF
  <1> DEFINE N == Len(SqliteMigrations)
             after(g, n) == g = [v \in 0..n |->
                                    IF v = 0 THEN {} ELSE Ran(SqliteMigrations[v], g[v - 1])]
             Flawed == {n \in 0..N : ~ \E g : after(g, n)}
  <1>1. SUFFICES \E g : after(g, N)
    BY DEF SchemaAfter, Builds
  <1> HIDE DEF N
  <1>0. N \in Nat
    BY TheMigrations DEF N
  <1>2. SUFFICES ASSUME Flawed /= {}
                 PROVE  FALSE
    <2> HIDE DEF after
    <2>1. QED
      BY <1>0
  <1>3. PICK n \in Flawed : \A m \in Flawed : n <= m
    <2>1. Flawed \in SUBSET (0..N)
      OBVIOUS
    <2> HIDE DEF Flawed
    <2>2. QED
      BY <1>0, <1>2, <2>1, Smallest
  <1>4. n \in 0..N /\ ~ \E g : after(g, n)
    OBVIOUS
  <1>5. CASE n = 0
    <2>1. [v \in 0..0 |-> IF v = 0 THEN {}
                           ELSE Ran(SqliteMigrations[v], [j \in 0..0 |-> {}][v - 1])]
             = [v \in 0..0 |-> {}]
      OBVIOUS
    <2>2. QED
      BY <1>4, <1>5, <2>1
  <1>6. CASE n /= 0
    <2>1. n - 1 \in 0..N /\ n - 1 \notin Flawed
      <3>1. n \in 0..N
        OBVIOUS
      <3> HIDE DEF Flawed
      <3>2. QED
        BY <1>0, <1>3, <1>6, <3>1
    <2>2. PICK h : after(h, n - 1)
      BY <2>1
    <2> DEFINE g == [v \in 0..n |-> IF v = n THEN Ran(SqliteMigrations[n], h[n - 1]) ELSE h[v]]
    <2>3. \A v \in 0..(n - 1) : h[v] = IF v = 0 THEN {} ELSE Ran(SqliteMigrations[v], h[v - 1])
      <3> DEFINE entry(v) == IF v = 0 THEN {} ELSE Ran(SqliteMigrations[v], h[v - 1])
      <3>1. h = [v \in 0..(n - 1) |-> entry(v)]
        BY <2>2
      <3> HIDE DEF entry
      <3>2. \A v \in 0..(n - 1) : h[v] = entry(v)
        BY <3>1
      <3>3. QED
        BY <3>2 DEF entry
    <2>4. g[n] = Ran(SqliteMigrations[n], h[n - 1]) /\ \A v \in 0..(n - 1) : g[v] = h[v]
      BY <1>4
    <2>5. \A v \in 0..n : g[v] = IF v = 0 THEN {} ELSE Ran(SqliteMigrations[v], g[v - 1])
      <3>1. TAKE v \in 0..n
      <3>2. CASE v = n
        <4>1. n - 1 \in 0..(n - 1)
          BY <1>4, <1>6
        <4> HIDE DEF g
        <4>2. QED
          BY <1>6, <2>4, <3>2, <4>1
      <3>3. CASE v /= n
        <4>1. v \in 0..(n - 1) /\ (v /= 0 => v - 1 \in 0..(n - 1))
          BY <1>4, <3>3
        <4> HIDE DEF g
        <4>2. QED
          BY <2>3, <2>4, <4>1
      <3>4. QED
        BY <3>2, <3>3
    <2>6. after(g, n)
      <3> DEFINE entry(v) == IF v = 0 THEN {} ELSE Ran(SqliteMigrations[v], g[v - 1])
      <3>1. \A v \in 0..n : g[v] = entry(v)
        BY <2>5
      <3>2. g = [v \in 0..n |-> g[v]]
        OBVIOUS
      <3> HIDE DEF g, entry
      <3>3. g = [v \in 0..n |-> entry(v)]
        BY <3>1, <3>2
      <3>4. QED
        BY <3>3 DEF entry
    <2>7. QED
      BY <1>4, <2>6
  <1>7. QED
    BY <1>5, <1>6

LEMMA SchemaAfterEntries ==
    /\ SchemaAfter[0] = {}
    /\ \A v \in 1..8 : SchemaAfter[v] = Ran(SqliteMigrations[v], SchemaAfter[v - 1])
PROOF
  <1> DEFINE after == SchemaAfter
             entry(v) == IF v = 0 THEN {} ELSE Ran(SqliteMigrations[v], after[v - 1])
  <1>1. after = [v \in 0..8 |-> entry(v)]
    BY SchemaAfterExists, TheMigrations DEF Builds
  <1> HIDE DEF entry, after
  <1>2. \A v \in 0..8 : after[v] = entry(v)
    BY <1>1
  <1>3. after[0] = entry(0) /\ \A v \in 1..8 : after[v] = entry(v) /\ v /= 0
    BY <1>2
  <1>4. QED
    BY <1>3 DEF entry, after

\* Statements that drop nothing leave what is there; none brings the ledger.
LEMMA RanGrows ==
    ASSUME NEW list, Len(list) \in Nat, \A k \in 1..Len(list) : Grows(list[k]), NEW s
    PROVE  s \subseteq Ran(list, s)
PROOF
  <1> DEFINE N == Len(list)
             after == AfterEach(list, s)
             Flawed == {k \in 0..N : ~(s \subseteq after[k])}
  <1>1. after[0] = s /\ \A k \in 1..N : after[k] = After(list[k], after[k - 1])
    BY AfterEachEntries
  <1>2. SUFFICES ASSUME Flawed /= {}
                 PROVE  FALSE
    BY RanIsLast
  <1> HIDE DEF after
  <1>3. PICK n \in Flawed : \A m \in Flawed : n <= m
    <2>1. Flawed \in SUBSET (0..N)
      OBVIOUS
    <2> HIDE DEF Flawed
    <2>2. QED
      BY <1>2, <2>1, Smallest
  <1>4. n \in 1..N /\ n - 1 \in 0..N /\ n - 1 \notin Flawed /\ ~(s \subseteq after[n])
    BY <1>1, <1>3
  <1>5. s \subseteq after[n - 1] /\ after[n] = After(list[n], after[n - 1]) /\ Grows(list[n])
    BY <1>1, <1>4
  <1>6. QED
    BY <1>4, <1>5 DEF After, Grows

LEMMA RanWithoutLedger ==
    ASSUME NEW list, Len(list) \in Nat, \A k \in 1..Len(list) : Harmless(list[k]),
           NEW s, Ledger \notin s
    PROVE  Ledger \notin Ran(list, s)
PROOF
  <1> DEFINE N == Len(list)
             after == AfterEach(list, s)
             Flawed == {k \in 0..N : Ledger \in after[k]}
  <1>1. after[0] = s /\ \A k \in 1..N : after[k] = After(list[k], after[k - 1])
    BY AfterEachEntries
  <1>2. SUFFICES ASSUME Flawed /= {}
                 PROVE  FALSE
    BY RanIsLast
  <1> HIDE DEF after
  <1>3. PICK n \in Flawed : \A m \in Flawed : n <= m
    <2>1. Flawed \in SUBSET (0..N)
      OBVIOUS
    <2> HIDE DEF Flawed
    <2>2. QED
      BY <1>2, <2>1, Smallest
  <1>4. n \in 1..N /\ n - 1 \in 0..N /\ n - 1 \notin Flawed /\ Ledger \in after[n]
    BY <1>1, <1>3
  <1>5. /\ Ledger \notin after[n - 1] /\ after[n] = After(list[n], after[n - 1])
        /\ Harmless(list[n])
    BY <1>1, <1>4
  <1>6. QED
    BY <1>4, <1>5 DEF After, Harmless

LEMMA AfterIgnoresLedger ==
    ASSUME NEW statement, Harmless(statement), NEW s
    PROVE  After(statement, s) \ {Ledger} = After(statement, s \ {Ledger})
  BY DEF After, Harmless

LEMMA SchemasWithoutLedger == \A v \in 0..8 : Ledger \notin SchemaAfter[v]
PROOF
  <1>1. \A v \in 1..8 : Ledger \notin SchemaAfter[v - 1] => Ledger \notin SchemaAfter[v]
    BY SchemaAfterEntries, StatementsAreFine, RanWithoutLedger
  <1>2. Ledger \notin SchemaAfter[0]
    BY SchemaAfterEntries
  <1>3. Ledger \notin SchemaAfter[1] /\ Ledger \notin SchemaAfter[2] /\ Ledger \notin SchemaAfter[3]
    BY <1>1, <1>2
  <1>4. Ledger \notin SchemaAfter[4] /\ Ledger \notin SchemaAfter[5] /\ Ledger \notin SchemaAfter[6]
    BY <1>1, <1>3
  <1>5. Ledger \notin SchemaAfter[7] /\ Ledger \notin SchemaAfter[8]
    BY <1>1, <1>4
  <1>6. QED
    BY <1>2, <1>3, <1>4, <1>5

\* The fourth and the last schema hold between them all that any version has.
LEMMA LargestSchemas ==
    ASSUME NEW v \in 0..8
    PROVE  SchemaAfter[v] \subseteq SchemaAfter[8] \cup SchemaAfter[4]
PROOF
  <1>1. \A w \in 1..8 : w /= 5 => SchemaAfter[w - 1] \subseteq SchemaAfter[w]
    <2>1. SUFFICES ASSUME NEW w \in 1..8, w /= 5
                   PROVE  SchemaAfter[w - 1] \subseteq Ran(SqliteMigrations[w], SchemaAfter[w - 1])
      BY SchemaAfterEntries
    <2>2. QED
      BY <2>1, StatementsAreFine, RanGrows
  <1>2. /\ SchemaAfter[0] \subseteq SchemaAfter[1] /\ SchemaAfter[1] \subseteq SchemaAfter[2]
        /\ SchemaAfter[2] \subseteq SchemaAfter[3] /\ SchemaAfter[3] \subseteq SchemaAfter[4]
    BY <1>1
  <1>3. /\ SchemaAfter[5] \subseteq SchemaAfter[6] /\ SchemaAfter[6] \subseteq SchemaAfter[7]
        /\ SchemaAfter[7] \subseteq SchemaAfter[8]
    BY <1>1
  <1>4. CASE v \in {0, 1, 2, 3, 4}
    BY <1>2, <1>4
  <1>5. CASE v \in {5, 6, 7, 8}
    BY <1>3, <1>5
  <1>6. QED
    BY <1>4, <1>5


------------------------------------------------------------------------------
(* What is committed and what a transaction has done so far.               *)

\* A transaction for a version nobody has recorded is so many statements into it,
\* from what the versions before it give.
TxFits ==
    tx /= NoTx =>
        /\ tx = [by |-> tx.by, version |-> tx.version, ran |-> tx.ran, schema |-> tx.schema]
        /\ tx.ran \in 0..Len(SqliteMigrations[tx.version])
        /\ tx.version \notin recorded =>
              tx.schema \ {Ledger} =
                  AfterEach(SqliteMigrations[tx.version], SchemaAfter[tx.version - 1])[tx.ran]

MigrateInv == ServeInv /\ SchemaMatchesLedger /\ TxFits

LEMMA MigrateStarts == Init => MigrateInv
PROOF
  <1>1. SUFFICES ASSUME Init
                 PROVE  SchemaMatchesLedger /\ TxFits
    BY ServeStarts DEF MigrateInv
  <1>2. PICK start \in Starts : MigrationsInit(start.version)
    BY <1>1 DEF Init
  <1>3. start.version \in 0..Len(SqliteMigrations) /\ start.version \in 0..8
    BY StartsAssumption, TheMigrations
  <1>4. /\ recorded = 1..start.version /\ tx = NoTx
        /\ schema \ {Ledger} = SchemaAfter[start.version] \ {Ledger}
    BY <1>2 DEF MigrationsInit
  <1>5. Ledger \notin SchemaAfter[start.version]
    BY <1>3, SchemasWithoutLedger
  <1>6. schema \ {Ledger} = SchemaAfter[start.version]
    BY <1>4, <1>5
  <1>7. QED
    BY <1>3, <1>4, <1>6 DEF SchemaMatchesLedger, TxFits

\* Steps that record nothing, change no table but the ledger, and go on with a
\* transaction as it is or end it.
LEMMA Quiet ==
    ASSUME MigrateInv, tx' \in {tx, NoTx}, recorded' = recorded,
           schema' \ {Ledger} = schema \ {Ledger}
    PROVE  SchemaMatchesLedger' /\ TxFits'
PROOF
  <1>1. SchemaMatchesLedger'
    BY DEF MigrateInv, SchemaMatchesLedger
  <1>2. CASE tx' = tx
    BY <1>1, <1>2 DEF MigrateInv, TxFits
  <1>3. CASE tx' = NoTx
    BY <1>1, <1>3 DEF TxFits, NoTx
  <1>4. QED
    BY <1>1, <1>2, <1>3

\* The first version a process has left is the next one, unless it is recorded.
LEMMA NextVersion ==
    ASSUME MigrateInv, NEW p \in Processes, NEW v, IsNext(p, v), v \notin recorded
    PROVE  /\ v \in 1..8 /\ recorded = 1..(v - 1)
           /\ schema \ {Ledger} = SchemaAfter[v - 1]
PROOF
  <1>1. v \in 1..8
    BY TheMigrations DEF IsNext, Left
  <1>2. PICK u \in 0..8 : recorded = 1..u /\ schema \ {Ledger} = SchemaAfter[u]
    BY TheMigrations DEF MigrateInv, SchemaMatchesLedger
  <1>3. ASSUME NEW w \in 1..8, w < v
        PROVE  w \in recorded
    <2>1. w \notin Left(p)
      BY <1>1, <1>3 DEF IsNext
    <2>2. QED
      BY <2>1, SeenIsRecorded, TheMigrations DEF MigrateInv
  <1>4. u = v - 1
    <2>1. u < v
      BY <1>1, <1>2
    <2>2. v = 1 \/ v - 1 \in recorded
      BY <1>1, <1>3
    <2>3. QED
      BY <1>1, <1>2, <2>1, <2>2
  <1>5. QED
    BY <1>1, <1>2, <1>4

LEMMA BeginFits ==
    ASSUME MigrateInv, NEW p \in Processes, Begin(p)
    PROVE  SchemaMatchesLedger' /\ TxFits'
PROOF
  <1>1. PICK v \in Versions :
          IsNext(p, v) /\ tx' = [by |-> p, version |-> v, ran |-> 0, schema |-> schema]
    BY DEF Begin
  <1>2. recorded' = recorded /\ schema' = schema
    BY DEF Begin
  <1>3. SchemaMatchesLedger'
    BY <1>2 DEF MigrateInv, SchemaMatchesLedger
  <1>4. /\ tx'.by = p /\ tx'.version = v /\ tx'.ran = 0 /\ tx'.schema = schema
        /\ tx' = [by |-> p, version |-> v, ran |-> 0, schema |-> schema]
    BY <1>1
  <1>5. v \in 1..8 /\ Len(SqliteMigrations[v]) \in Nat
    BY TheMigrations, StatementsAreFine
  <1>6. ASSUME v \notin recorded
        PROVE  schema \ {Ledger} = AfterEach(SqliteMigrations[v], SchemaAfter[v - 1])[0]
    BY <1>1, <1>5, <1>6, NextVersion, AfterEachEntries
  <1>7. QED
    BY <1>2, <1>3, <1>4, <1>5, <1>6 DEF TxFits

\* The transaction that is under way.
LEMMA Transaction ==
    ASSUME MigrateInv, NEW p \in Processes, Holds(p)
    PROVE  /\ tx /= NoTx /\ tx.by = p /\ IsNext(p, tx.version) /\ tx.version \in 1..8
           /\ Len(SqliteMigrations[tx.version]) \in Nat
PROOF
  <1>1. tx /= NoTx /\ tx.by = p
    BY MigrationsAssumption DEF Holds, NoTx
  <1>2. IsNext(p, tx.version)
    BY Holder DEF MigrateInv
  <1>3. tx.version \in 1..8
    BY <1>2, TheMigrations DEF IsNext, Left
  <1>4. QED
    BY <1>1, <1>2, <1>3, StatementsAreFine

\* The two fields that a statement changes.
LEMMA GoesOn ==
    ASSUME NEW p, NEW v, NEW n, NEW done, NEW m, NEW s, NEW t, NEW u,
           t = [by |-> p, version |-> v, ran |-> n, schema |-> done],
           u = [t EXCEPT !.ran = m, !.schema = s]
    PROVE  u = [by |-> p, version |-> v, ran |-> m, schema |-> s]
  OBVIOUS

LEMMA StatementFits ==
    ASSUME MigrateInv, NEW p \in Processes, RunStatement(p)
    PROVE  SchemaMatchesLedger' /\ TxFits'
PROOF
  <1> DEFINE list == SqliteMigrations[tx.version]
             start == SchemaAfter[tx.version - 1]
             n == tx.ran
             done == tx.schema
  <1>1. Holds(p)
    BY DEF RunStatement
  <1>2. /\ tx /= NoTx /\ tx.by = p /\ tx.version \in 1..8 /\ Len(list) \in Nat
    BY <1>1, Transaction
  <1>3. /\ tx = [by |-> p, version |-> tx.version, ran |-> n, schema |-> done]
        /\ n \in 0..Len(list)
        /\ tx.version \notin recorded => done \ {Ledger} = AfterEach(list, start)[n]
    BY <1>2 DEF MigrateInv, TxFits
  <1>4. /\ n < Len(list) /\ schema' = schema /\ recorded' = recorded
        /\ tx' = [tx EXCEPT !.ran = n + 1, !.schema = After(list[n + 1], done)]
    BY StatementsAre DEF RunStatement, Statement1
  <1>5. tx' = [by |-> p, version |-> tx.version, ran |-> n + 1,
               schema |-> After(list[n + 1], done)]
    <2> HIDE DEF list, n, done
    <2>1. PICK v, k, d, m, s :
            v = tx.version /\ k = n /\ d = done /\ m = n + 1 /\ s = After(list[n + 1], done)
      OBVIOUS
    <2>2. tx = [by |-> p, version |-> v, ran |-> k, schema |-> d]
      BY <1>3, <2>1
    <2>3. tx' = [tx EXCEPT !.ran = m, !.schema = s]
      BY <1>4, <2>1
    <2>4. tx' = [by |-> p, version |-> v, ran |-> m, schema |-> s]
      BY <2>2, <2>3, GoesOn
    <2>5. QED
      BY <2>1, <2>4
  <1>6. n + 1 \in 0..Len(list) /\ n + 1 \in 1..Len(list)
    <2> HIDE DEF list, n
    <2>1. QED
      BY <1>2, <1>3, <1>4
  <1>7. Harmless(list[n + 1])
    BY <1>2, <1>6, StatementsAreFine
  <1>8. ASSUME tx.version \notin recorded
        PROVE  After(list[n + 1], done) \ {Ledger} = AfterEach(list, start)[n + 1]
    <2>1. AfterEach(list, start)[n + 1] = After(list[n + 1], AfterEach(list, start)[(n + 1) - 1])
      <3> HIDE DEF list, n, start
      <3>1. QED
        BY <1>2, <1>6, AfterEachEntries
    <2>2. (n + 1) - 1 = n
      <3> HIDE DEF list, n
      <3>1. QED
        BY <1>2, <1>3
    <2>3. After(list[n + 1], done) \ {Ledger} = After(list[n + 1], done \ {Ledger})
      <3> HIDE DEF list, n, done
      <3>1. QED
        BY <1>7, AfterIgnoresLedger
    <2>4. QED
      BY <1>3, <1>8, <2>1, <2>2, <2>3
  <1>9. SchemaMatchesLedger'
    BY <1>4 DEF MigrateInv, SchemaMatchesLedger
  <1>10. PICK v, m, s : v = tx.version /\ m = n + 1 /\ s = After(list[n + 1], done)
    OBVIOUS
  <1>11. tx' = [by |-> p, version |-> v, ran |-> m, schema |-> s]
    BY <1>5, <1>10
  <1>12. /\ m \in 0..Len(SqliteMigrations[v])
         /\ v \notin recorded =>
               s \ {Ledger} = AfterEach(SqliteMigrations[v], SchemaAfter[v - 1])[m]
    BY <1>6, <1>8, <1>10
  <1>13. TxFits'
    <2>1. tx'.by = p /\ tx'.version = v /\ tx'.ran = m /\ tx'.schema = s
      BY <1>11
    <2> HIDE DEF list, start, n, done
    <2>2. recorded' = recorded
      BY <1>4
    <2>3. QED
      BY <1>11, <1>12, <2>1, <2>2 DEF TxFits
  <1>14. QED
    BY <1>9, <1>13

LEMMA CommitFits ==
    ASSUME MigrateInv, NEW p \in Processes, Commit(p)
    PROVE  SchemaMatchesLedger' /\ TxFits'
PROOF
  <1> DEFINE v == tx.version
             list == SqliteMigrations[v]
  <1>1. Holds(p) /\ tx.ran = Len(list) /\ v \notin recorded
    BY StatementsAre DEF Commit
  <1>2. tx' = NoTx /\ schema' = tx.schema /\ recorded' = recorded \cup {v}
    BY DEF Commit
  <1>3. tx /= NoTx /\ IsNext(p, v) /\ v \in 1..8 /\ Len(list) \in Nat
    BY <1>1, Transaction
  <1>4. recorded = 1..(v - 1)
    BY <1>1, <1>3, NextVersion
  <1>5. tx.schema \ {Ledger} = AfterEach(list, SchemaAfter[v - 1])[Len(list)]
    BY <1>1, <1>3 DEF MigrateInv, TxFits
  <1>6. tx.schema \ {Ledger} = SchemaAfter[v]
    BY <1>3, <1>5, RanIsLast, SchemaAfterEntries
  <1>7. PICK u \in 1..8 : u = v
    BY <1>3
  <1>8. recorded' = 1..u /\ schema' \ {Ledger} = SchemaAfter[u]
    <2>1. 1..u = 1..(u - 1) \cup {u}
      OBVIOUS
    <2>2. QED
      BY <1>2, <1>4, <1>6, <1>7, <2>1
  <1>9. SchemaMatchesLedger'
    <2>1. u \in 0..Len(SqliteMigrations)
      BY TheMigrations
    <2>2. QED
      BY <1>8, <2>1 DEF SchemaMatchesLedger
  <1>10. QED
    BY <1>2, <1>9 DEF TxFits, NoTx

LEMMA MigrateSteps == ASSUME MigrateInv, [Next]_vars PROVE MigrateInv'
PROOF
  <1>1. ServeInv'
    BY ServeSteps DEF MigrateInv
  <1>2. ASSUME NEW p \in Processes, Refuse(p)
        PROVE  SchemaMatchesLedger' /\ TxFits'
    BY <1>2, Quiet DEF Refuse
  <1>3. ASSUME NEW p \in Processes, ProcessStep(p)
        PROVE  SchemaMatchesLedger' /\ TxFits'
    <2>1. CASE Start(p) \/ ReadApplied(p) \/ Migrated(p)
      BY <2>1, Quiet DEF Start, ReadApplied, Migrated
    <2>2. CASE OpenLedger(p)
      BY <2>2, Quiet DEF OpenLedger
    <2>3. CASE Overtaken(p)
      BY <2>3, Quiet DEF Overtaken, Release
    <2>4. QED
      BY <1>3, <2>1, <2>2, <2>3, BeginFits, StatementFits, CommitFits DEF ProcessStep
  <1>4. ASSUME NEW p \in Processes, Fault(p) \/ Kill(p)
        PROVE  SchemaMatchesLedger' /\ TxFits'
    <2>1. /\ tx' = IF Holds(p) THEN NoTx ELSE tx
          /\ UNCHANGED <<schema, recorded>>
      BY <1>4 DEF Fault, Kill, Release
    <2>2. QED
      BY <2>1, Quiet
  <1>5. CASE UNCHANGED vars
    <2>1. tx' = tx /\ recorded' = recorded /\ schema' = schema
      BY <1>5 DEF vars, migrationVars
    <2>2. SchemaMatchesLedger' /\ TxFits'
      BY <2>1, Quiet
    <2>3. QED
      BY <1>1, <2>2 DEF MigrateInv
  <1>6. QED
    BY <1>1, <1>2, <1>3, <1>4, <1>5 DEF Next, Run, MigrateInv

LEMMA MigrateIsInductive == Spec => []MigrateInv
  BY MigrateStarts, MigrateSteps, PTL DEF Spec

\* What is committed is at every moment what the versions in the ledger give when
\* they run in order, on either backend, with any number of processes that migrate
\* at once, fail and are killed (migrate_sqlite, migrate_postgres).
THEOREM SchemaFollowsLedger == Spec => []SchemaMatchesLedger
  BY MigrateIsInductive, PTL DEF MigrateInv


------------------------------------------------------------------------------
\* What no step touches, and the bounds of faults and crashes.
Bounds ==
    /\ config \in {start.config : start \in Starts}
    /\ database \in Databases
    /\ faults \in 0..MaxFaults /\ crashes \in 0..MaxCrashes

LEMMA BoundsHold ==
    /\ Init => Bounds
    /\ Bounds /\ [Next]_vars => Bounds'
PROOF
  <1>1. Init => Bounds
    BY MigrationsAssumption DEF Init, MigrationsInit, Bounds
  <1>2. ASSUME Bounds, [Next]_vars
        PROVE  Bounds'
    <2>1. config' = config /\ database' = database
      BY <1>2 DEF Next, Refuse, Run, ProcessStep, Start, OpenLedger, ReadApplied, Begin,
                  RunStatement, Commit, Overtaken, Migrated, Fault, Kill, vars, migrationVars
    <2>2. \/ faults' = faults /\ crashes' = crashes
          \/ faults < MaxFaults /\ faults' = faults + 1 /\ crashes' = crashes
          \/ crashes < MaxCrashes /\ crashes' = crashes + 1 /\ faults' = faults
      BY <1>2 DEF Next, Refuse, Run, ProcessStep, Start, OpenLedger, ReadApplied, Begin,
                  RunStatement, Commit, Overtaken, Migrated, Fault, Kill, vars, migrationVars
    <2>3. faults' \in 0..MaxFaults /\ crashes' \in 0..MaxCrashes
      BY <1>2, <2>2, MigrationsAssumption DEF Bounds
    <2>4. QED
      BY <1>2, <2>1, <2>3 DEF Bounds
  <1>3. QED
    BY <1>1, <1>2

LEMMA ServeTypes == ASSUME MigrateInv, Bounds PROVE TypeOK
PROOF
  <1>1. database \in Databases /\ role \in [Processes -> Roles] /\ recorded \subseteq Versions
    BY DEF MigrateInv, ServeInv, ProcTyped, Bounds
  <1>2. schema \subseteq SchemaAfter[Len(SqliteMigrations)] \cup SchemaAfter[4] \cup {Ledger}
    <2>1. PICK v \in 0..8 : schema \ {Ledger} = SchemaAfter[v]
      BY TheMigrations DEF MigrateInv, SchemaMatchesLedger
    <2>2. SchemaAfter[v] \subseteq SchemaAfter[8] \cup SchemaAfter[4]
      BY LargestSchemas
    <2>3. QED
      BY <2>1, <2>2, TheMigrations
  <1>3. \A p \in Processes :
          /\ At(p) \in Ends \cup {"opening", "reading", "migrating"}
          /\ proc[p].applied \subseteq recorded
          /\ proc[p].looked \in {0} \cup Versions
    BY DEF MigrateInv, ServeInv, ProcTyped, Progress, At
  <1>4. ASSUME tx /= NoTx
        PROVE  /\ tx.by \in Processes /\ At(tx.by) = "migrating"
               /\ IsNext(tx.by, tx.version)
               /\ tx.ran \in 0..Len(Statements(tx.version))
    BY <1>4, StatementsAre DEF MigrateInv, ServeInv, Progress, TxFits
  <1>5. MigrationsTypeOK
    BY <1>1, <1>2, <1>3, <1>4 DEF MigrationsTypeOK, Bounds
  <1>6. QED
    BY <1>5 DEF TypeOK, Bounds

\* The processes, their transaction and what is committed have the types the model
\* gives them: every schema is made of what some version has, and a process takes
\* nothing for applied that is not.
THEOREM ServeTyped == Spec => []TypeOK
PROOF
  <1>1. Spec => []Bounds
    BY BoundsHold, PTL DEF Spec
  <1>2. MigrateInv /\ Bounds => TypeOK
    BY ServeTypes
  <1>3. QED
    BY <1>1, <1>2, MigrateIsInductive, PTL
=============================================================================
