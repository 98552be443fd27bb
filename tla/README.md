# A verification of qpayd

qpayd is a payment daemon: it makes invoices that are paid on-chain or over
Lightning, watches for the payments, tells a merchant's server about them through
webhooks, and pays refunds. This directory holds TLA+ models of the parts that are
hard to test, the TLC runs that check them on small instances, and theorems about
them that TLAPS checks for every instance. `PROJECT.json` ties each definition to
the lines it models.

To check a run: `tlc -config <Run>.cfg <MC module>.tla`. To check the proofs:
`tlapm <module>.tla` for `SumTheorems`, `RefundsProofs`, `InvoiceSyncProofs`,
`CheckoutProofs`, `InvoiceCreationProofs`, `WebhookQueueProofs`, `ServeProofs` and
`SweepsProofs`.

## The system

| Part | Code | State | Operations |
|---|---|---|---|
| HTTP API | `src/api.rs` | none of its own | create invoices, refunds; approve, finalize, fail, cancel refunds; replay events; sweep |
| Storage | `src/storage.rs` | invoices, refunds, events, webhook deliveries, address counters, sweeps, in SQLite or Postgres | one transaction per operation |
| Invoice poller | `src/main.rs` `sync_once` | the lists of a run | observe payments, write statuses, expire |
| Status rules | `src/onchain.rs`, `src/lightning.rs` | none | `next_status` |
| Refund executor | `src/main.rs`, `src/payout.rs` | the refund it has claimed | claim, start, pay, record |
| Webhook loop | `src/main.rs`, `src/webhook.rs` | the batch of a pass | post, mark delivered or failed |
| Rate source | `src/pricing.rs` | cached rates | fetch, with a time to live |
| Sweeps | `src/main.rs`, `src/lightning.rs`, `src/api.rs` | sweep records | send a Lightning balance on-chain |
| Migrations | `src/storage.rs` | schema versions | apply in order |
| Configuration, authorization, CORS | `src/config.rs`, `src/api.rs` | none | parse, validate, decide |
| Checkout and admin pages | `js/packages` | a view of the server's | poll and show |

`serve` runs the API, the poller, the executor and the webhook loop as tasks of
one process over one connection pool. `sync-once`, `refunds` and `refunds-once`
run the poller or the executor in a process of their own, `sweep` the sweep loop,
and `migrate` the migrations; the documentation recommends a second host for the
executor (`docs/security-sidecar-split.md`). The
parts share nothing but the database: they interact through the rows they read and
write, and every handler or pass that awaits between a read and a write may find
the row changed when it writes.

What is hard here, therefore:

- checks made on a row read one or more awaits before the write (refund amounts,
  decisions about refunds, statuses written by the poller);
- payouts, which no transaction covers: a process may stop between the payment and
  its record, and a backend's error does not say whether the money left;
- leases that end while their holder works;
- two processes doing the same work over the same rows;
- payments that come in parts, late, twice over two rails, or vanish in a
  reorganization;
- a page that acts on an answer of any age and then stops asking;
- a retry queue that must neither lose a row nor let one hold up the others;
- SQLite and Postgres giving one sequence of statements a different meaning;
- a rate read from a cache that others fill while the ticker is asked;
- a wallet's balance read in one call and spent in another, while the loop, the API
  and the payouts share the wallet;
- processes that start together, fail and are killed over a schema they migrate;
- tokens whose variables come from a mix of defaults and overrides.

`PROJECT.json` lists these hazards one by one, at their lines.

## The modules

| Module | Models | Properties it is there for |
|---|---|---|
| `RefundRules` | the pure rules of refunds: payout tables, rails, limits, thresholds | used by `Refunds` |
| `Refunds` | the life of a store's refunds, from request to payout | paid once, within limits, approved, announced, taken up |
| `RefundLedger` | what refunds promise: owed, repaid, dropped | implemented by `Refunds` |
| `RefundsProofs` | theorems about `Refunds` | for all constants |
| `InvoiceRules` | `next_status` of both rails, the poller's selections | used by `InvoiceSync` |
| `InvoiceSync` | the poller over invoices, payments, blocks and the clock | final statuses, announcement, progress |
| `InvoiceSyncProofs` | theorems about `InvoiceSync` | for all constants |
| `Checkout` | `InvoiceSync` with the pages of its customers | what a page tells stays true, and is told |
| `CheckoutProofs` | theorems about `Checkout` | for all constants |
| `InvoiceCreation` | requests that become invoices with an address | one address, one invoice per key |
| `InvoiceCreationProofs` | theorems about `InvoiceCreation` and `PricedInvoices` | for all constants |
| `RateCache` | the cached rate, those that ask for it and the ticker | no rate is used too old |
| `PricedInvoices` | `InvoiceCreation` composed with `RateCache` | the same, and all of creation's |
| `WebhookQueue` | the delivery queue and its loops | bounded duplicates, nothing forgotten |
| `Delivery` | what the queue promises: owed, received, done | implemented by `WebhookQueue` |
| `WebhookQueueProofs` | theorems about `WebhookQueue` | for all constants |
| `Sweeps` | the sweep loop, sweeps asked for, and the wallets they share | target, records, progress |
| `SweepsProofs` | theorems about `Sweeps` | for all constants |
| `Migrations` | the schema, its versions and the processes that apply them | ledger and schema agree |
| `AccessRules` | tokens, scopes and origins as pure rules | used by `Serve` |
| `Serve` | `Migrations` and `AccessRules` composed: what a process does before it serves | served migrated, one role per token |
| `ServeProofs` | theorems about `Serve` | for all constants |
| `SumTheorems` | sums over finite sets | used by `RefundsProofs` and `SweepsProofs` |
| `MC...` | instances of these for TLC | |

The grain of atomicity is the same everywhere: a step is what runs between two
points where others can interfere, that is one database transaction, or one call
of a backend, the network or a receiver. Handlers and passes are small programs
whose place (`at`) and local data (what they read) are part of the state.

### Refunds

`status`, `approval`, `row`, `leased`, `stamp` are columns of `refunds`; `row`
holds those no statement changes after the insert. `stamp` is the day of
`updated_at` while a refund is processing and of `finalized_at` afterwards, the
only thing the daily limit reads. `deliveries` counts the webhook rows enqueued
for each event type. `client` and `executor` are the handlers and executor passes
under way. `paid` is `paid_sats` of `invoices`, which the poller may rewrite at any
time, also downwards, when a payment is replaced or orphaned; a creation reads it with
the invoice and checks its amount against what it has read. `most`, `sent`, `uncertain`
and `answered` are not in the program: they record the highest `paid_sats` ever was,
what left a wallet, what of it was reported as an error, and what idempotent requests
were told, for the properties to speak about. What is promised and sent is compared
with `most`: a refund made while more was paid is not taken back when the sum falls.

| Action | Code |
|---|---|
| `CreateRefund`, `ReadRefundable`, `InsertRefund` | the three stretches of `create_refund_for_invoice`: read the invoice and look the key up; read the refunds and check; insert, or answer with the row that took the key |
| `ObservePayments` | `update_invoice_status_event` of the poller, of which only the sum paid matters here |
| `ReadForApproval`, `ApproveRefund` | `approve_refund`, whose update repeats its condition |
| `ReadForDecision`, `DecideRefund` | `finalize_refund`, `fail_refund`, `cancel_refund`, whose update repeats none |
| `Claim` | `pending_refund_executions` and `claim_refund_execution`; as the second repeats every condition of the first, the stale list in between changes nothing |
| `Dispatch`, `Start` | the table, the limit of one refund and the day; then `try_start_refund_execution` |
| `PaySucceeds`, `PayRefused`, `PayErrs` | `payout::execute_refund` |
| `Record` | `update_refund_status` after the payout |
| `Crash` | the process stops, or a statement fails and the pass moves on |
| `LeaseExpires`, `Midnight` | the clock |

### Invoices

In `InvoiceSync` a poller visits three lists (`onchain`, `lightning`, `expiry`).
`List` reads one, `ObserveOnchain`, `ObserveLightning` and `Expire` decide about an
entry from that reading and from the world, and `Write` stores the decision over
whatever the row has become. The world (`chain`, `received`, `late`) changes at any
time: payments in parts, blocks, replaced payments, orphaned blocks, the deadline.
`inTime` records whether the full amount was on a rail before the deadline. Reading
the world and the clock is one step; the code reads the clock a moment later. The
status `invalid` of `InvoiceStatus` is left out of `InvoiceStatuses`: nothing in the
code assigns it.

`Checkout` adds a page for each invoice (`js/packages/checkout`). `Open` is
`openPaymentLink` and the first call of `poll`; `Ask` is the moment the server reads the
row for `getInvoice`, `Show` the arrival of its answer, whatever happened in between,
and `LoseRequest` the branch of an error. `Close` clears the timer, but not a request
that is under way: its answer still reaches `poll`, which may call the script of a page
that is gone. Opening reads the row and shows it in one step, since what it does
depends on that reading alone.

In `InvoiceCreation` the address index is reserved in the statements the code uses,
one step each, under the rules of each database. An invoice is its id, key space,
key and index.

In `RateCache` moments and prices are told apart by their age, which stops growing at
`MaxAge`. `AskCache`, `AskTicker`, `Look`, `Keep` and `FallBack` are the branches of
`btc_rate`; the cache is not locked while the ticker is asked, so any number of
requests ask at once and keep their answers in the order they arrive, an older one
over a newer if it was slower. `PricedInvoices` makes the requests of
`InvoiceCreation` the askers: `build_invoice` asks before it reserves an index, and a
request that is abandoned forgets its rate. One quote currency is modelled.

### Webhooks

`WebhookQueue` keeps the rows of `webhook_deliveries`. `next_attempt_at` is `wait`,
the time left in units of thirty seconds, and then the place of the row in `due`.
`BeginPass` takes the first rows with their attempts; `Skip`, `GiveUp`, `Accept`,
`Refuse` and `LoseAnswer` are what can become of one; `Mark` stores it. `Restart`
changes the configuration under rows that stay, when no pass is under way. A
configuration says of each store whether it has a `webhook_url`, without which nothing
is enqueued, and whether the variable of its secret is set, missing from the
environment, or not named (a store that is gone has neither); a url needs a name, as
`validate` has it. Only the secret decides what becomes of a row: a row
keeps its url, so that one of a store whose `webhook_url` alone was taken out is still
posted. A row whose secret has no name is passed over (`Skip`), and one whose secret is
missing ends the pass (`GiveUp`); neither is moved. `HeldUp` says which rows that
keeps from being posted. Rows keep the order in which their transactions commit; the
code orders by the event's time, which a slow request may set a little earlier. Rows
that fall due together line up in any order (`Tick`).

`Delivery` says in three actions what the queue is for. `Promise` in
`WebhookQueue` maps a row to its stage there: owed until a receiver accepted it,
received until a loop recorded that, done from then on.

### Refund ledger

`RefundLedger` is the same for refunds. `Ledger` in `Refunds` maps a row to owed while
its money may still leave, to repaid and dropped at its final statuses, and `left` to
the refunds of which something was sent. `received` is
`most`. Every step of `Refunds` under single creations must then be one of `Receive`,
`Owe`, `Send`, `Repay`, `Drop`, or none.

### Sweeps

`Sweeps` has the wallets of stores with an enabled sweep. `ReadBalance` and `Send` are
the two calls of `sweep_to_address`, between which others take from the wallet: `taken`
counts that, for the property to speak about. `Tick`, `SkipStore` and `TakeStore` are
the loop of `lightning_sweep_loop`; it counts whole seconds from a moment within the
pass, so that a store may or may not be due at exactly its interval (`NotDue`,
`IsDue`). A failing store ends the pass, as in the code. `AskSweep`, `InsertRecord`
and `Forget` are the request of the API, whose record is inserted after the money
moved. The loop's own sweeps are only logged; `sent` and `unrecorded` count the others.

### Start, schema and access

`Migrations` writes out both lists of versions, statement by statement: a statement is
the table, index or column it makes or drops, and what must be there for it to run.
The list of applied versions is read once (`ReadApplied`); each version left then runs
in a transaction (`Begin`, `RunStatement`, `Commit`) and its row in the ledger is its
last statement. One writer at a time is the rule of SQLite; on Postgres two
transactions may both begin, but the second waits at the first table both touch and
then fails, or finds what it would create, so the model lets it begin when the first
has ended. `AccessRules` has the fall-backs between the settings of `[auth]` and of a
store, validation, the checks of the endpoints, and separately what `admin_session`
answers. `Serve` puts them together: the configuration is validated first, then the
schema migrated, by processes whose `role` is `boot` (serve after migrating), `plain`
(serve) or `migrate`.

## The runs

Every bound is a constant of a configuration. Bounds on failures (`MaxCrashes`,
`MaxFaults`, `MaxStops`, `MaxAborts`, `MaxReorgs`) are one or two because a second
failure meets the states of a first: each failure returns an actor to its start and
leaves the rows to the others. Two clients and two executors suffice for races of
pairs, and every property speaks of pairs or sums. Amounts of one to six satoshis
are below, at and above each limit.

| Run | Instance | What it shows |
|---|---|---|
| `RefundExecution` | 1 refund, 2 clients with every operation, 2 executors, a crash, an error that may hide a payment | types; one payer at a time; paid once unless an error hid a payment; nothing large paid unapproved; every change announced |
| `RefundIdempotency` | 2 refunds, 2 invoices, 3 clients, 1 key | one refund per key |
| `RefundPayouts` | 2 refunds, 1 client that creates and approves, 2 executors, one day, a crash, an error that may hide a payment; 3 or 6 paid, refunds of 3 and 4 under limits of 3 for one and 4 for a day | sent within the most that was paid; the limits of a refund and of a day; the ledger is kept; every payable refund is taken up unless the limit is used up |
| `InvoicePolling` | 1 invoice of both rails and its page, 1 poller, a reorganization, an aborted run, any number of lost requests | types; final stays final, and covers the invoice; nothing late settled; each status announced once; payments recognized; unpaid invoices expire; what a page tells stays true; a settled invoice is told |
| `InvoiceCreation` | 2 requests, 1 link, 1 key, SQLite, rates kept for 1 tick, answers within 1 | types; one address per invoice; one invoice per key and scope; the counter stays ahead of every index; rates recent |
| `WebhookDelivery` | an event and its replay, 2 loops, 4 configurations, 2 stops, 2 restarts | types; duplicates only as many as loops and lost outcomes; the promise of `Delivery` is kept |
| `WebhookProgress` | 3 events, two of them of a store whose receiver refuses for ever and whose secret may lose its name or its value; 1 loop, batches of two | a delivery of a reliable store is made unless it is held up again and again |
| `Serve` | 2 processes, both databases, schemas at versions 0, 3, 4, 7 and 8, a fault, a kill; every mix of the token settings of a store with defaults, 3 variables, 3 tokens, 2 origins | types; ledger and schema agree; nothing serves an old schema; all migrate in the end; a session shows what the endpoints grant; one role per token |
| `SweepLoop` | 2 stores, the first never answers; the loop, one server, a payout, an error, a stop, two records | types; what requests sent is recorded or lost in a counted way; a sweep leaves the target; a surplus is swept |

Each sum or size is chosen at the boundary: in `SweepLoop` deposits of two and three
around a minimum of two, a target of one; in `InvoiceCreation` a time to live, a
time-out and an age beyond both; in `Serve` the versions before, at and after the one
that drops an index (5), an old release and none; in `InvoicePolling` payments of one
and two for an invoice of two, on both rails. A fourth index or a third record
would repeat what the third and second do.

What a run leaves out, it leaves out because the code does not promise it there.
`RefundPayouts` has one client, no midnight, no manual decision and no Lightning
destination: with two clients the sum of the promises is refuted (`RefundRace`); the
others are under "Not run" below. `InvoicePolling` has one poller: two may overwrite a
final status; that nothing late is settled and nothing announced twice is proved for
any number, and checked by TLC for one only. `InvoiceCreation` is refuted on Postgres
(`InvoiceAddressPostgres`).
`WebhookProgress` has enough undeliverable rows to fill a batch, and one that ends
every pass: the code does stop behind them, which no document promises it does not, and
`NoDeliveryForgotten` says that it stops behind nothing else. With either half of
`HeldUp` left out, or a batch and one row in place of a batch, TLC refutes it.
In `SweepLoop` the store that does not answer is not due at every tick: were it,
it would end every pass before the next store's turn.

The webhook runs and `Serve` do not check for deadlock: once the bounded events are
delivered, or all processes serve, and the bounded failures are used, nothing is left
to do. All others do.

### Disagreements found

Three runs expect a violation, each of a sentence of the documentation or an error
message; `PROJECT.json` quotes them under `findings`.

| Run | What happens |
|---|---|
| `RefundRace` | two creations check one balance before either is inserted |
| `RefundSplitHosts` | the public server applies no threshold, the wallet host pays |
| `InvoiceAddressPostgres` | two requests read the same index before either increments it |

Not run, but to be known when the models are read or their bounds changed:

- A manual decision is written over whatever the refund has become: a cancellation
  read while it was pending marks a refund canceled whose money is leaving
  (`DecideRefund`), and a final refund may change again.
- A payout that starts before midnight and ends after it counts against the next
  day, whose own payouts were checked without it (`Start`, `Record`).
- A Lightning invoice is paid in the amount written in it; the limits and the
  balance were checked with the refund's (`SatsSent`).
- A refund whose executor stopped while it was processing stays so, since nothing
  accepts it any more.
- A dual-rail invoice's Lightning pass copies an unconfirmed on-chain sum into
  `confirmed_sats` (`ObserveLightning`).
- `min_confirmations` is configured and shown, but `onchain::next_status` settles at
  the first confirmation.
- `expired` is left for `paid_late`, although the checkout page stops asking at it; and
  neither `onSettled` nor `onExpired` is called for an invoice the page sees paid late
  (`Callback`).
- A row whose secret variable is missing from the environment ends each pass, and
  every row behind it, of whatever store, waits (`GiveUp`).
- Rows of a store that is gone, or no longer names a secret, are passed over without
  being moved; twenty-five of them fill every batch and the rows behind wait (`Skip`,
  `BeginPass`). A store that only lost its `webhook_url` is still posted to.
- A poller that lowers `paid_sats` takes no refund back: more may then be promised, and
  sent, than the invoice shows as paid (`ObservePayments`).
- The second `refund.retry` of one refund has the event id of the first and is
  delivered with its payload: `EveryChangeAnnounced` counts the rows of each type and
  does not see that.
- Two pollers may overwrite a final status with what one of them read before it
  (`Write`).
- Two sweeps, or a sweep and a payout, that read one balance leave less than the
  target; how much less is what `KeepsTarget` bounds. The loop's sweeps leave no
  record, only a line of the log.
- A store whose backend always fails, comes first and is due at every pass keeps the
  loop from the stores behind it (`Fails`, `NextStore`).
- A server started without migrating serves an older schema: it sends a sweep's money
  and then fails to insert the record (`Forget`; role `plain` in `Serve`).
- One missing variable of one store makes signing in fail for every store the origin
  may reach (`LacksVariable`).
- Token settings are compared by the names of their variables; two variables with one
  value give a token two roles (`Distinct`).
- The origins a payment link adds are not those its invoices are polled with
  (`src/api.rs:1287`).
- A slow answer of the ticker may replace a newer rate; `RateIsRecent` holds
  nonetheless (`Keep`).

## Fairness

Safety runs assume none. The progress runs assume what the loops justify:

- an executor pass, a poller run or a delivery pass that has begun goes on, and
  intervals tick for ever (weak fairness of its steps);
- an executor offers every row it may claim in each pass, so a row claimable again
  and again is claimed (strong fairness of `Claim` per refund). The list is ordered
  by creation and cut at twenty: the model has fewer claimable rows than that;
- leases run out, deadlines come, time passes (weak fairness);
- the receiver of a reliable store accepts a row it is sent again and again (strong
  fairness of `AcceptRow`). Other receivers may refuse for ever;
- a process that ended with an error while starting is started again
  (`restart: unless-stopped` in `docs/digitalocean-doctl.md`, line 137), and one that
  runs goes on (weak fairness of `Run` in `Serve`). The policy is that of a server; for
  the `migrate` command it stands for an operator who repeats it until it succeeds;
- the sweep loop goes on, and a call to a backend that never answers runs into the
  client's time-out (weak fairness of `LoopStep` and of the loop's `Fails`);

- the page's timer ends, each of its requests is answered or lost in the end, and not
  all are lost (weak fairness of `Ask`, strong fairness of `Show`).

Nobody is made to open or close a page, to pay, to mine, to make a request, to stop or
to restart, and no backend is made to succeed: bounded errors are what remains once one
does.

## What is proved

Each theorem holds for any sets of rows, requests, pollers and executors and any
amounts, tables and bounds that meet the assumption of its module. It gives the types
of the constants, and says that the refunds of a store and the servers are finitely
many, without which their sums have no value. Further conditions are named in the
theorem.

| Theorem | Statement |
|---|---|
| `Typing` | `Spec => [](TypeOK /\ HeldRefundsExist)` |
| `OnePayer` | `Spec => []AtMostOnePayer` |
| `PaidOnce` | `Spec => []PaidOnceUnlessUncertain` |
| `NothingLargeUnapproved` | `Spec => []NothingLargePaidUnapproved`, if `ApiConfig = ExecConfig` |
| `KeysAnswerOnce` | `Spec => []OneRefundPerKey` |
| `ChangesAnnounced` | `Spec => EveryChangeAnnounced` |
| `MaxIsKept` | `Spec => []SentWithinMax`, if no destination is a Lightning invoice |
| `PromisesAreCovered` | `Spec => []PromisedWithinPaid`, if `NoDecisions` and `OneRequest` |
| `SentIsCovered` | `Spec => []SentWithinPaid`, if also no destination is a Lightning invoice |
| `DaysAreKept` | `Spec /\ QuietMidnights => []DailyLimitHolds`, if `NoDecisions` and some rail is enabled |
| `RefundsKeepTheLedger` | `Spec => KeepsTheLedger`, if `NoDecisions` and `OneRequest` |
| `PollingTyping` | `Spec => []TypeOK` |
| `NothingLateIsSettled` | `Spec => []SettledInTime` |
| `StatusAnnouncedOnce` | `Spec => []AnnouncedOnce` |
| `FinalStays` | `Spec => FinalIsFinal`, with one poller |
| `FinalCovers` | `Spec => []FinalIsCovered`, with one poller |
| `PageTyping` | `CheckoutSpec => []CheckoutTypeOK` |
| `WordIsKept` | `CheckoutSpec => []ToldForGood`, with one poller |
| `CreationTyping` | `Spec => []TypeOK` |
| `CounterStaysAhead` | `Spec => []CounterAhead` |
| `OneAddressOnSqlite` | `Spec => []OneAddressPerInvoice`, if `Database = "sqlite"` |
| `KeysAnswerOneInvoice` | `Spec => []SameKeySameInvoice` |
| `RatesAreRecent` | `PricedSpec => []RateIsRecent` |
| `PricingImplementsCreation` | `PricedSpec => Spec` |
| `QueueTyping` | `Spec => []TypeOK` |
| `DuplicatesAreBounded` | `Spec => []AcceptedOncePerLoop` |
| `QueueKeepsThePromise` | `Spec => KeepsThePromise` |
| `MigratedBeforeServing` | `Spec => []ServesMigrated` |
| `RolesAreKept` | `Spec => []TokensKeepTheirRole` |
| `SessionsTellTheTruth` | `Spec => []SessionMatchesEndpoints` |
| `SchemaFollowsLedger` | `Spec => []SchemaMatchesLedger` |
| `ServeTyped` | `Spec => []TypeOK` |
| `SweepsKeepTarget` | `Spec => KeepsTarget` |
| `SweepsAreRecorded` | `Spec => []SentIsRecorded` |
| `SweepsTyped` | `Spec => []TypeOK` |

### Sums (`SumTheorems`)

The models add up amounts with `SumFunctionOnSet` of the community modules, a
recursive function over the subsets of a set. The prover knows no induction, since the
library's rules take an operator. In its place stands the smallest counterexample: of
the subsets of a finite set for which a claim fails one is smallest
(`SmallestSubset`, from the well-foundedness of inclusion), and the claim holds for
what is left of it without one member. In this way the recursive function is shown to
exist (`TableExists`) and the sum to unfold to one summand and the rest
(`SumUnfolds`), any one of them (`SumTakesOut`); what the proofs below cite is
`SumAdds`, `SumIsMonotone`, `SumOfPart` and `SumIsExtensional`.

### Refunds (`RefundsProofs`)

From `RefundsAssumption`, `ConfigAssumption` and `DestinationsAssumption`:

1. *Types.* That rows a request or an executor holds exist (`HeldRefundsExist`) is
   needed for their columns to have types. Rows are never removed, their fixed
   columns never change, and approvals are never taken back (`RowsArePermanent`).
2. *One payer.* Two executors may hold one refund, since leases run out: claims
   exclude nothing. What excludes is `Start`, which moves the row out of pending, so
   the invariant adds `StartedNotPending`: a refund with a payout under way is not
   pending. Only the payer's own retry and an insertion write pending
   (`BecomesPending`), and the retry ends the payout.
3. *Paid once.* A refund is settled when more was sent than reported as an error.
   `SettledStaysOut` adds that a settled refund is not pending, and that whoever has
   it under way is only going to record its success. `SentMoves` says that a sending
   that is not reported as an error ends in that state or in a crash, and a crash
   leaves the row in processing, which nothing turns into pending again. It is the
   same rule that strands such a refund.
4. *Approval.* `ApprovalFits` relates an approval to the amount it was decided for,
   from the request's memory through the insertion to the payout; equal tables make
   it the executor's rule. `RefundSplitHosts` shows that the hypothesis is needed.
5. *Keys.* `KeysUnique` adds that no two rows share a key and that every answer
   names the row that has it. Any row of a key, however final, keeps the key taken.
6. *Announcements.* The types and `HeldRefundsExist` are enough: a status changes by
   the statement that announces it (`UpdateAnnounces`) or by the insertion of the row.
7. *The limit of a refund.* `MaxFits` carries the comparison `Dispatch` makes through
   the payout to the money that left: the row's amount and destination never change.
   A Lightning invoice is paid in its own amount, hence the hypothesis.

The four theorems below are about a store whose administrators approve refunds and
leave the rest to the executors (`NoDecisions`): a decision is written over whatever
the refund has become, and an executor's outcome over the decision, so with decisions
a canceled refund is paid and a failed one succeeds ("Not run" above). `Orderly` is
the invariant they share. `InHandOnce` says that a refund an executor has moved to
processing stays there until that one executor writes its outcome; `OutcomesFit`, that
a refund fails only if no backend would take it and succeeds only if its money left.

8. *Promises.* `OneRequest` says that there is one client, as in `RefundPayouts`:
   `RefundRace` shows what two do. `ReadingsFit` says that the sum a request has read is
   at most the highest ever observed, which only rises (`SumsMove`); `InsertionsFit`
   carries the comparison with the refundable balance to the insertion. In between the
   promises of an invoice only fall, since a refund that has failed is never promised
   again; the insertion adds one summand (`SumAdds`).
9. *Sent.* A payment that is not reported as an error is made once (`PaidOnce`) and
   for a refund that is processing or succeeded, so it is part of what is promised
   (`SentIsPromised`); a part has no larger sum (`SumOfPart`).
10. *The limit of a day.* `DaysAreWithin` is about what is reserved, that is finalized
    or processing under a day's stamp: `MayStart` compares that sum and the refund with
    the limit in the step that adds it. `SameDay` says that a success is stamped with
    the day that was asked. `QuietMidnights` is a condition on the behaviour, needed for
    just that: no day begins while an executor is between its choice of a day and the
    backend's answer. The code fixes the day twice, and a payout over midnight counts
    on a day it was not compared with.
11. *The ledger.* Every step of `Refunds` is one of `Receive`, `Owe`, `Send`, `Repay`
    and `Drop` or changes nothing the ledger sees. A sum that rises above all before is
    `Receive` (`ObservationReceives`). `Owe` is the insertion, whose bound is that of
    the promises; `Repay` and `Drop` rest on `OutcomesFit`. The sums of the two modules are the same
    function under two names (`LedgerSums`).

### The poller (`InvoiceSyncProofs`)

From `InvoiceAssumption`:

12. *Nothing late.* A poller may write from a reading of any age, over anything, so
    no invariant of the rows alone is inductive. `TimelyIsTrue` says that detected and
    settled are claimed rightly wherever they are: in the row, in every reading a
    poller holds, and in a status about to be written; and that before the deadline a
    full amount is already recorded as in time. `next_status` of both rails claims
    either status only before the deadline and for the full amount, or because the
    reading claimed it (`StatusTimely`), and the history never takes the record back
    (`EnvironmentTimely`), however blocks are orphaned.
13. *Announced once.* The statement that enqueues a delivery inserts the event first
    and stops if it is there. `OneDeliveryPerEvent` says that the deliveries count
    exactly the events, and that the status of a row, once not new, has its event:
    a write of the same status announces nothing, and one that returns to a status
    finds its event.
14. *Final statuses.* With one poller nobody writes between its reading and its
    writing. `ReadingsHold` says so: what it has read is what the rows say, of
    invoices that are not final, each once; and a final status it is about to write is
    covered by what it saw (`StatusCovered`). So a write finds no final status in its
    row, and leaves a covered one.

### Pages (`CheckoutProofs`)

From `InvoiceAssumption`. A page reads the invoices and changes nothing of them, so
`CheckoutSpec` implies `Spec` (`PollerUnderPages`) and the theorems above hold with
pages too.

15. *What is told.* A call is made with an answer of any age, so `AnswersHold` says of
    every answer on the way what `ToldForGood` says of every call. No write makes either
    untrue (`WordKept`): by `ReadingsHold` it finds the status its poller read, which was
    not settled, and by `ExpiredOnlyPaidLate` it writes nothing but a late payment over
    `expired`.

### Creation (`InvoiceCreationProofs`)

From `CreationAssumption`:

16. *The counter.* `ReadBehind` adds that an index read in a transaction is not
    beyond the counter: then the increment, of the counter in one database and of
    what was read in the other, leaves it beyond what was handed out.
17. *One address on SQLite.* `LockHeld` says that a request inside the transaction
    holds the write lock, and that what it has read is the counter. With the counter
    ahead, the index it hands out is in use by nobody, and `ReservedApart` carries
    that from the requests that hold an index to the rows. `LockHeld` is where
    Postgres differs, and `InvoiceAddressPostgres` shows that the theorem fails there.
18. *Keys.* `KeysUnique`: an insertion finds the key of its scope free, in the same
    step. `AnswersNamed`: every answer names a stored row with its scope and key.

### Rates (`InvoiceCreationProofs`)

From `CreationAssumption` and `PricingAssumption`:

19. *Recent rates.* `AgesFit` adds that a kept price is at most one answer older than
    the moment it was kept at, and an answer under way no older than its request; a
    request may not wait beyond its time-out. It does not matter which answer was
    kept last.
20. *Refinement.* Every step of the composition is a step of creation or leaves its
    variables alone, so what is proved of creation holds with prices too.

### Webhooks (`WebhookQueueProofs`)

From `QueueAssumption`, one part of which says that the powers of two up to
`MaxExponent` are positive, arithmetic that the provers are not told:

21. *Types.* `LineTypes` says that exactly the pending rows whose time has come are in
    line, once each. A batch is the first stretch of the line, so it names a row once
    too (`BatchesOK`), and what is marked is out of the line, or leaves it.
22. *Duplicates.* A loop posts what it read when its pass began, whatever has become of
    it. `OnceInv` therefore counts two things. A pending row was accepted no more often
    than loops have its acceptance still to record, beyond the outcomes that were lost:
    recording one ends that. A delivered row may still be accepted by the loops that
    have it in their batch, and nobody takes it up again, so its acceptances and these
    loops together are no more than the loops there are.
23. *The promise.* `AcceptedInv` says that a loop that is about to record an acceptance
    saw one, and that a delivered row was accepted: it gives the refinement's `Receive`
    before `Finish`. Delivered is final since a failure writes the attempts and the
    time of a row, never its status. Stops, restarts, replays and lost outcomes are
    stutters or new rows. `ReplaysInv` keeps the number of rows within the bound.

### Start and access (`ServeProofs`)

From the assumptions of the three modules:

24. *Serving migrated.* `Progress` says that whoever is past reading the ledger has seen
    applied only what is applied, and that versions up to the last it looked at are;
    the ledger only grows. Nothing left by a list read once therefore means that all
    is applied, whoever applied it.
25. *What is committed.* `TxFits` says that a transaction whose version nobody has
    recorded is so many statements into it, from the schema of the versions before
    (`NextVersion`: the first version a process has left is the next one, or is
    recorded). The ledger's own table is the only thing that may appear meanwhile, and
    no statement is about it (`StatementsAreFine`). A version that two processes run is
    committed once: the second finds it recorded. `Ran` and `SchemaAfter` are recursive
    functions; that they exist, and what they have in common with the steps, is proved
    by the first statement a claim fails for (`Smallest`), as with sums above.
26. *Types.* A schema is part of the fourth or the last, since only the fifth version
    drops anything (`LargestSchemas`).
27. *Roles and sessions.* `ServesMigrated` rests on the processes, these two on the
    configuration: a process that serves has validated it (`ConfigInv`), and the rules
    are compared case by case, for any number of stores.

### Sweeps (`SweepsProofs`)

From `SweepsAssumption`:

28. *The target.* `AmountFits`: an amount that was decided is at most the balance that
    was read less the target, that is at most the present balance less the target and
    plus what others took since. Deposits only help.
29. *Records.* Of each store, what was sent for requests is the sum of the records,
    of the amounts servers have still to record, and of what was lost: by a stop, by an
    answer that was lost, or by an insertion that failed. Each step moves an amount from
    one of these sums to the next (`Books`, with `SumTakesOut` for the one that moves).
30. *Types.* `MoneyFits` adds that a wallet never held more than it received, with what
    it lost: only then are the amounts within the bound on deposits.

Each strengthening was found to hold with TLC, on the instances of the runs, before
it was proved.

### Only model-checked

Liveness (`PayableIsTakenUp`, `PaymentIsRecognized`, `UnpaidExpires`, `SettledIsTold`,
`NoDeliveryForgotten`, `AllMigrate`, `SurplusIsSwept`) needs fairness and `ENABLED`,
which are out of this prover's reach.

All other properties of the runs are theorems. `PromisedWithinPaid`,
`NothingLargePaidUnapproved` and `OneAddressPerInvoice` are among them under conditions
that the runs which refute them do not meet.

## What is not modelled

- The origins of the public endpoints: a list per store, looked up once per request,
  without state. Of CORS the administrators' origins are modelled.
- Payloads, signatures, URIs, QR codes, HTML: formatting.
- Several stores, except in the webhook queue and in the sweep loop, which they share,
  and in the rules of access: no other row is read across stores, and only the daily
  limit's lock (per store) and the end of a poller run at its first error relate them.
- Several quote currencies: their cached rates do not meet. The ticker's answer is not
  parsed.
- Amounts, descriptors and the Lightning invoice of a new invoice.
- The admin page keeps no state; of the checkout its loop is modelled, not its looks.
- Precision of `Decimal` amounts: satoshis are whole numbers in every comparison.
- Deployment scripts, the site and the examples.

## The plan

Done: refunds, the poller and the pages over it, creation and rates, the webhook queue,
sweeps, migrations and access, with their runs; the refinements `KeepsThePromise`,
`KeepsTheLedger` and `PricingImplementsCreation`, and the theorems above.

1. A composition of `Refunds` and `WebhookQueue` through the event table: today the
   first counts the rows it enqueues, and the second begins with a row.
