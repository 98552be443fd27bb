----------------------------- MODULE RefundRules -----------------------------
(***************************************************************************)
(* The pure rules of refund handling: which payout backend a destination   *)
(* is sent to, when a refund waits for an administrator, and how much of   *)
(* what an invoice received can still be refunded.  The refund API         *)
(* (src/api.rs), the refund executor (src/main.rs) and the payout drivers  *)
(* (src/payout.rs) each evaluate a part of them.                           *)
(***************************************************************************)
EXTENDS Naturals, FiniteSets, Functions

CONSTANTS
    Destinations,   \* refund destinations a request may name
    NoDest,         \* the request names no destination
    TypeOf,         \* destination -> the type refund_destination_type finds
    NoAddress,      \* destinations that are a bitcoin: URI without an address
    Bolt11Sats      \* Lightning destination -> the amount its invoice asks for

Rails == {"lightning", "bitcoin"}

DestTypes ==
    {"bitcoin_address", "bitcoin_uri", "lightning_invoice", "lnurl", "unknown"}

\* A store's payout table; threshold 0 stands for an absent
\* manual_approval_threshold_sats (a configured zero is refused).
PayoutTable == [enabled : BOOLEAN, max : Nat, daily : Nat, threshold : Nat]

\* The tables validate_refund_execution lets through.
ValidTable(table) ==
    /\ table \in PayoutTable
    /\ table.max > 0
    /\ table.daily >= table.max

ASSUME DestinationsAssumption ==
    /\ NoDest \notin Destinations
    /\ TypeOf \in [Destinations -> DestTypes]
    /\ NoAddress \subseteq {d \in Destinations : TypeOf[d] = "bitcoin_uri"}
    /\ Bolt11Sats \in [Destinations -> Nat]

------------------------------------------------------------------------------
\* The rails whose limits apply to a destination: its own for a recognised
\* type, either for an unknown or absent one.
RailsFor(dest) ==
    IF dest = NoDest \/ TypeOf[dest] = "unknown" THEN Rails
    ELSE IF TypeOf[dest] \in {"lightning_invoice", "lnurl"} THEN {"lightning"}
    ELSE {"bitcoin"}

EnabledRailsFor(config, dest) == {x \in RailsFor(dest) : config[x].enabled}

\* The executor takes the limits of a destination from the one enabled table
\* that matches it; an unknown destination that matches two has none.
HasExecutionTable(config, dest) ==
    Cardinality(EnabledRailsFor(config, dest)) = 1

ExecutionTable(config, dest) ==
    config[CHOOSE x \in EnabledRailsFor(config, dest) : TRUE]

RequiresManualApproval(config, dest, sats) ==
    \E x \in EnabledRailsFor(config, dest) :
        /\ config[x].threshold > 0
        /\ sats >= config[x].threshold

\* The destinations a payout driver accepts; the others end in one of the
\* errors is_terminal_refund_execution_error recognises.
HasDriver(dest) ==
    /\ dest \in Destinations \ NoAddress
    /\ TypeOf[dest] \in {"lightning_invoice", "bitcoin_address", "bitcoin_uri"}

\* What the backend sends: bitcoind is told the refund's amount, a Lightning
\* backend only gets the invoice and pays the amount written in it.
SatsSent(dest, sats) ==
    IF TypeOf[dest] = "lightning_invoice" THEN Bolt11Sats[dest] ELSE sats

------------------------------------------------------------------------------
\* Mutant: a refund that waits for approval may be executed.
AllowsExecutionAtOnce(approval) ==
    approval \in {"not_required", "pending", "approved"}

AllowsExecution(approval) == approval \in {"not_required", "approved"}

\* Refunds in these states count against the refundable balance.
CountedStatuses == {"pending", "processing", "succeeded"}

\* saturating_sub
Minus(a, b) == IF a > b THEN a - b ELSE 0
==============================================================================
