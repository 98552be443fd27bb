------------------------------- MODULE Serve -------------------------------
(***************************************************************************)
(* Processes that start with a configuration, bring the database up to     *)
(* date and serve (main and serve in src/main.rs).  The configuration is   *)
(* validated before anything else is done.                                 *)
(***************************************************************************)
EXTENDS Migrations, AccessRules

CONSTANT Starts    \* the configurations, roles and schemas to start with

ASSUME StartsAssumption ==
    \A start \in Starts :
        /\ WellFormed(start.config)
        /\ start.role \in [Processes -> Roles]
        /\ start.version \in 0..Len(SqliteMigrations)

VARIABLE config

vars == <<migrationVars, config>>

\* A configuration that is not valid ends the process.
Refuse(p) ==
    /\ At(p) = "stopped" /\ ~Valid(config)
    /\ Enter(p, "refused")
    /\ UNCHANGED <<database, role, schema, recorded, tx, faults, crashes, config>>

TypeOK ==
    /\ MigrationsTypeOK
    /\ config \in {start.config : start \in Starts}

Init ==
    \E start \in Starts :
        /\ config = start.config
        /\ role = start.role
        /\ MigrationsInit(start.version)

Run(p) == ProcessStep(p) /\ (At(p) = "stopped" => Valid(config)) /\ UNCHANGED config

Next ==
    \E p \in Processes :
        \/ Refuse(p)
        \/ Run(p)
        \/ (Fault(p) \/ Kill(p)) /\ UNCHANGED config

Spec == Init /\ [][Next]_vars

\* The deployments start a process again when it ended with an error.
Fairness == \A p \in Processes : WF_vars(Run(p))

FairSpec == Spec /\ Fairness

------------------------------------------------------------------------------
(* Properties                                                              *)

\* However many processes start at once on however old a schema, each of them ends
\* up serving (or done), if its configuration is valid and kills and faults come to
\* an end: one that finds a version applied meanwhile fails, and starts again
\* behind it (serve, migrate_sqlite, migrate_postgres).
AllMigrate ==
    \A p \in Processes : Valid(config) => <>[](At(p) \in {"serving", "done"})

Up == \E p \in Processes : At(p) = "serving"
Distinct(c) == \A n, m \in Names : c.env[n] = c.env[m] /\ c.env[n] /= Missing => n = m

\* Signing in tells a token and an origin exactly the stores and scopes the store's
\* endpoints then accept them for (docs/admin-portal.md: "qpayd returns the stores
\* and scopes available to the submitted token"), unless a variable of some store
\* is missing, when it may tell nothing (admin_session, authorize_payout).
SessionMatchesEndpoints ==
    Up => \A t \in Tokens, o \in Origins \cup {NoOrigin} :
        LET session == Session(config, t, o)
            accepted(s) == {scope \in {"admin", "payout"} :
                /\ AdminOrigin(config, s, o)
                /\ IF scope = "admin" THEN AuthorizeAdmin(config, s, t)
                   ELSE AuthorizePayout(config, s, t)}
        IN \/ session = UNION {{s} \X accepted(s) : s \in DOMAIN config.stores}
           \/ session = {} /\ \E s \in DOMAIN config.stores : LacksVariable(config, s)

\* In a process that serves, a token has no other role than its configuration says,
\* through every mix of defaults and overrides (docs/refunds.md: "If
\* payout_token_env is configured, refund create, finalize, fail, and cancel
\* requests must use that token"; docs/admin-portal.md: "If admin_token_env is
\* configured, admin API requests must use that token").
TokensKeepTheirRole ==
    Up /\ Distinct(config) => \A s \in DOMAIN config.stores, t \in Tokens :
        /\ AdminConfigured(config, s) /\ AuthorizeAdmin(config, s, t) =>
              ~AuthorizeApi(config, s, t)
        /\ PayoutConfigured(config, s) /\ AuthorizePayout(config, s, t) =>
              \/ ~AuthorizeApi(config, s, t) /\ ~AuthorizeAdmin(config, s, t)
              \/ AuthorizeAdmin(config, s, t) /\ AdminTokenCanPayout(config, s)
============================================================================
