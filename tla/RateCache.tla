----------------------------- MODULE RateCache -----------------------------
(***************************************************************************)
(* Where an invoice's rate comes from: btc_rate asks the ticker unless a   *)
(* recent answer is kept (src/pricing.rs), with the timeout of every HTTP  *)
(* client (src/http.rs).  The lock of the cache is not held while the      *)
(* ticker is asked, so that askers that miss all ask, and their answers    *)
(* are kept in the order they arrive in.                                   *)
(*                                                                         *)
(* One quote currency is modelled (BTC itself needs no rate).  Prices are  *)
(* told apart by their age; moments by the time since them.                *)
(***************************************************************************)
EXTENDS Naturals

CONSTANTS
    Askers,
    StaleAfter,   \* how long a rate is kept (pricing.stale_after_seconds)
    Timeout,      \* how long the ticker may take to answer (REQUEST_TIMEOUT)
    MaxAge        \* bound: ages are not told apart beyond it

VARIABLES
    cache,    \* the price kept and when it was, or nothing
    asker     \* what each asker is at, and the age of the price it was given

rateVars == <<cache, asker>>

Nothing == [at |-> "nothing"]
Kept == [at : {"kept"}, since : 0..MaxAge, price : 0..MaxAge]
Asking == [at : {"asking", "answered"}, since : 0..MaxAge, price : 0..MaxAge]
Given == [at : {"given"}, price : 0..MaxAge]

RateTypeOK ==
    /\ cache \in {Nothing} \cup Kept
    /\ asker \in [Askers -> {Nothing} \cup Asking \cup Given]

RateInit ==
    /\ cache = Nothing
    /\ asker = [a \in Askers |-> Nothing]

Older(n) == IF n < MaxAge THEN n + 1 ELSE n

\* Mutant: the price is kept for as long as it is asked for.
FreshAnyAge == cache /= Nothing

\* fresh_cached_rate.
Fresh == cache /= Nothing /\ cache.since <= StaleAfter

Give(a, price) == asker' = [asker EXCEPT ![a] = [at |-> "given", price |-> price]]

AskCache(a) ==
    /\ asker[a] = Nothing /\ Fresh
    /\ Give(a, cache.price)
    /\ UNCHANGED cache

AskTicker(a) ==
    /\ asker[a] = Nothing /\ ~Fresh
    /\ asker' = [asker EXCEPT ![a] = [at |-> "asking", since |-> 0, price |-> 0]]
    /\ UNCHANGED cache

\* The ticker looks up the last trade; its answer is on its way.
Look(a) ==
    /\ asker[a].at = "asking"
    /\ asker' = [asker EXCEPT ![a].at = "answered"]
    /\ UNCHANGED cache

\* The answer is kept as of now, whatever is kept already.
Keep(a) ==
    /\ asker[a].at = "answered"
    /\ cache' = [at |-> "kept", since |-> 0, price |-> asker[a].price]
    /\ Give(a, asker[a].price)

\* Without an answer a rate another asker got meanwhile will do.
FallBack(a) ==
    /\ asker[a].at \in {"asking", "answered"} /\ Fresh
    /\ Give(a, cache.price)
    /\ UNCHANGED cache

\* The asker is done with its rate, or gave up.
Forget(a) ==
    /\ asker' = [asker EXCEPT ![a] = Nothing]
    /\ UNCHANGED cache

\* Time passes; a request that took its time has ended.
RateTick ==
    /\ \A a \in Askers : asker[a].at \in {"asking", "answered"} => asker[a].since < Timeout
    /\ cache' = IF cache = Nothing THEN cache
                ELSE [cache EXCEPT !.since = Older(@), !.price = Older(@)]
    /\ asker' = [a \in Askers |->
          CASE asker[a].at = "asking" -> [asker[a] EXCEPT !.since = Older(@)]
            [] asker[a].at = "answered" ->
                   [asker[a] EXCEPT !.since = Older(@), !.price = Older(@)]
            [] OTHER -> asker[a]]

------------------------------------------------------------------------------
(* Properties                                                              *)

\* The price an invoice is given was current no longer ago than a rate is kept and
\* an answer may take, even when a slow answer displaced a newer one or the ticker
\* failed and another asker's rate was taken (btc_rate).
RateIsRecent ==
    \A a \in Askers : asker[a].at = "given" => asker[a].price <= StaleAfter + Timeout

\* What makes it inductive: a price is at most one answer older than the moment it
\* was kept at, and an answer under way no older than its request.
AgesFit ==
    /\ cache /= Nothing => cache.price <= cache.since + Timeout
    /\ \A a \in Askers : asker[a].at \in {"asking", "answered"} =>
          asker[a].price <= asker[a].since /\ asker[a].since <= Timeout
=============================================================================
