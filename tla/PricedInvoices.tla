--------------------------- MODULE PricedInvoices ---------------------------
(***************************************************************************)
(* Invoice creation with the rate each invoice is priced at: build_invoice *)
(* in src/api.rs asks for the rate before it reserves an address index.    *)
(***************************************************************************)
EXTENDS InvoiceCreation

CONSTANTS StaleAfter, Timeout, MaxAge

ASSUME PricingAssumption ==
    /\ {StaleAfter, Timeout, MaxAge} \subseteq Nat
    /\ MaxAge > StaleAfter + Timeout

VARIABLES cache, asker

R == INSTANCE RateCache WITH Askers <- Requests

rateVars == <<cache, asker>>
pricedVars == <<vars, rateVars>>

Priced(q) == asker[q].at = "given"

PricedInit == Init /\ R!RateInit

Price(q) ==
    /\ request[q].at = "building"
    /\ R!AskCache(q) \/ R!AskTicker(q) \/ R!Look(q) \/ R!Keep(q) \/ R!FallBack(q)
    /\ UNCHANGED vars

\* The index is reserved once the rate is known; the rest does not ask again.
Reserve(q) ==
    \/ OpenCounter(q) /\ Priced(q) /\ R!Forget(q)
    \/ (ReadIndex(q) \/ BumpIndex(q)) /\ UNCHANGED rateVars

PricedNext ==
    \/ \E q \in Requests :
          \/ Receive(q) /\ UNCHANGED rateVars
          \/ Price(q)
          \/ Reserve(q)
          \/ InsertInvoice(q) /\ UNCHANGED rateVars
          \/ Abandon(q) /\ R!Forget(q)
    \/ R!RateTick /\ UNCHANGED vars

PricedSpec == PricedInit /\ [][PricedNext]_pricedVars

\* The rate an invoice is priced at was the market's no longer ago than rates are
\* kept and an answer may take, whoever else asks at that time (btc_rate, called by
\* build_invoice).
RateIsRecent == R!RateIsRecent
==============================================================================
