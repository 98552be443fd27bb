---------------------------- MODULE AccessRules ----------------------------
(***************************************************************************)
(* Who may do what: the tokens of a configuration, which are variables of  *)
(* the environment (token functions and validate in src/config.rs), the    *)
(* endpoints that ask for them, and what signing in to the admin portal    *)
(* answers (authorize_*, admin_session and the CORS functions in           *)
(* src/api.rs).                                                            *)
(*                                                                         *)
(* A configuration has the defaults of [auth] and, per store, what it      *)
(* overrides and the browser origins its administrators may use; env is    *)
(* what the process finds in the environment.  Names of variables are      *)
(* well-formed.                                                            *)
(***************************************************************************)
EXTENDS Naturals

CONSTANTS
    Names, Unset,      \* environment variables; a setting left out
    Tokens, Missing,   \* their values; a variable that is not set
    Origins, NoOrigin  \* browser origins; a request without Origin

ASSUME AccessAssumption ==
    /\ Unset \notin Names
    /\ Missing \notin Tokens
    /\ NoOrigin \notin Origins

Settings == Names \cup {Unset}

WellFormed(c) ==
    /\ {c.auth.api, c.auth.admin, c.auth.payout} \subseteq Settings
    /\ \A s \in DOMAIN c.stores :
          {c.stores[s].api, c.stores[s].admin, c.stores[s].payout} \subseteq Settings
    /\ c.env \in [Names -> Tokens \cup {Missing}]

First(own, default) == IF own /= Unset THEN own ELSE default

ApiName(c, s) == First(c.stores[s].api, c.auth.api)
AdminName(c, s) == First(First(c.stores[s].admin, c.auth.admin), ApiName(c, s))

PayoutName(c, s) == First(First(c.stores[s].payout, c.auth.payout), AdminName(c, s))

AdminConfigured(c, s) == c.stores[s].admin /= Unset \/ c.auth.admin /= Unset
PayoutConfigured(c, s) == c.stores[s].payout /= Unset \/ c.auth.payout /= Unset

AdminTokenCanPayout(c, s) == First(c.stores[s].both, c.auth.both) = "yes"

------------------------------------------------------------------------------
(* Validation                                                              *)

ValidAuth(auth) ==
    /\ auth.admin /= Unset => auth.admin /= auth.api
    /\ auth.payout /= Unset => auth.payout \notin {auth.api, auth.admin}

\* Mutant: only the store's own settings are compared with each other.
ValidStoreOwn(c, s) ==
    LET own == c.stores[s]
    IN /\ ApiName(c, s) /= Unset
       /\ own.admin /= Unset => own.admin /= own.api
       /\ own.payout /= Unset => own.payout \notin {own.api, own.admin}

ValidStore(c, s) ==
    /\ ApiName(c, s) /= Unset
    /\ AdminConfigured(c, s) => AdminName(c, s) /= ApiName(c, s)
    /\ PayoutConfigured(c, s) =>
          PayoutName(c, s) \notin {ApiName(c, s), AdminName(c, s)}

Valid(c) == ValidAuth(c.auth) /\ \A s \in DOMAIN c.stores : ValidStore(c, s)

------------------------------------------------------------------------------
(* Endpoints                                                               *)

\* A missing variable matches no token.
Is(c, name, t) == c.env[name] = t

AuthorizeApi(c, s, t) == Is(c, ApiName(c, s), t)
AuthorizeAdmin(c, s, t) == Is(c, AdminName(c, s), t)

\* Without its variable the payout token is an error, whatever else is allowed.
AuthorizePayout(c, s, t) ==
    /\ c.env[PayoutName(c, s)] /= Missing
    /\ \/ Is(c, PayoutName(c, s), t)
       \/ AdminTokenCanPayout(c, s) /\ AuthorizeAdmin(c, s, t)

\* The middleware in front of the endpoints of a store.
AdminOrigin(c, s, o) == o = NoOrigin \/ o \in c.stores[s].origins

SessionOrigin(c, o) == \E s \in DOMAIN c.stores : AdminOrigin(c, s, o)

\* The stores signing in looks at; one of their variables missing fails it whole.
Reached(c, o) == {s \in DOMAIN c.stores : AdminOrigin(c, s, o)}
LacksVariable(c, s) == Missing \in {c.env[AdminName(c, s)], c.env[PayoutName(c, s)]}

\* Mutant: the payout scope is told from the payout token alone.
ScopesByToken(c, s, t) ==
    {scope \in {"admin", "payout"} :
        Is(c, IF scope = "admin" THEN AdminName(c, s) ELSE PayoutName(c, s), t)}

Scopes(c, s, t) ==
    {scope \in {"admin", "payout"} :
        IF scope = "admin" THEN Is(c, AdminName(c, s), t)
        ELSE \/ Is(c, PayoutName(c, s), t)
             \/ Is(c, AdminName(c, s), t) /\ AdminTokenCanPayout(c, s)}

\* What signing in with a token answers: stores with scopes, or none (an error).
Session(c, t, o) ==
    IF ~SessionOrigin(c, o) \/ \E s \in Reached(c, o) : LacksVariable(c, s) THEN {}
    ELSE UNION {{s} \X Scopes(c, s, t) : s \in Reached(c, o)}
============================================================================
