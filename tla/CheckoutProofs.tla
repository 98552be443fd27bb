--------------------------- MODULE CheckoutProofs ---------------------------
(***************************************************************************)
(* A theorem about Checkout, for any invoices, amounts and answers: with   *)
(* one poller, what a page tells the merchant's script stays true.         *)
(***************************************************************************)
EXTENDS Checkout, InvoiceSyncProofs

\* Pages read the invoices and change nothing of them.
LEMMA PollerUnderPages == CheckoutSpec => Spec
<1>1. CheckoutInit => Init
    BY DEF CheckoutInit
<1>2. [CheckoutNext]_checkoutVars => [Next]_vars
    BY DEF CheckoutNext, PageStep, checkoutVars
<1> QED
    BY <1>1, <1>2, PTL DEF CheckoutSpec, Spec

------------------------------------------------------------------------------
(* Types.                                                                  *)

PageStates == {NotOpen, Pausing} \cup Answered \cup Stopped

LEMMA PageAt ==
    ASSUME CheckoutTypeOK, NEW i \in Invoices
    PROVE  page[i].at = "answered" => page[i] \in Answered
<1>1. page[i] \in {NotOpen, Pausing} \cup Answered \cup Stopped
    BY DEF CheckoutTypeOK
<1>2. NotOpen.at /= "answered" /\ Pausing.at /= "answered"
    BY DEF NotOpen, Pausing
<1>3. page[i] \in Stopped => page[i].at = "stopped"
    BY DEF Stopped
<1> QED
    BY <1>1, <1>2, <1>3

\* poll stops or pauses, and stops only for what it was shown, or closed.
LEMMA PollMoves ==
    ASSUME NEW i \in Invoices, NEW shown \in InvoiceStatuses, NEW closed \in BOOLEAN,
           Poll(i, shown, closed)
    PROVE  \E state \in {Pausing} \cup Stopped :
               /\ Become(i, state)
               /\ state.at = "stopped" => state.told \in {"nothing", shown}
<1>1. CASE closed \/ shown \in TerminalStatuses
    <2> DEFINE state == [at |-> "stopped", told |-> Callback(shown), closed |-> closed]
    <2>1. /\ Callback(shown) \in {"nothing", "settled", "expired"}
          /\ Callback(shown) \in {"nothing", shown}
        BY DEF Callback
    <2>2. state \in Stopped /\ state.told \in {"nothing", shown}
        BY <2>1 DEF Stopped
    <2>3. Become(i, state)
        BY <1>1 DEF Poll, Stop
    <2> HIDE DEF state
    <2> QED
        BY <2>2, <2>3
<1>2. CASE ~(closed \/ shown \in TerminalStatuses)
    BY <1>2 DEF Poll, Pausing
<1> QED
    BY <1>1, <1>2

LEMMA NoAnswer == \A state \in {Pausing} \cup Stopped : state.at /= "answered"
<1>1. Pausing.at /= "answered"
    BY DEF Pausing
<1>2. \A state \in Stopped : state.at = "stopped"
    BY DEF Stopped
<1> QED
    BY <1>1, <1>2

\* A page moves to a state that says nothing of its invoice but what the row says, or
\* what was on the way to it.
LEMMA PageMoves ==
    ASSUME TypeOK, CheckoutTypeOK, NEW i \in Invoices, PageStep(i)
    PROVE  \E state \in PageStates :
               /\ Become(i, state)
               /\ state.at = "answered" =>
                      \/ state.status = status[i]
                      \/ page[i].at = "answered" /\ state.status = page[i].status
               /\ state.at = "stopped" =>
                      \/ state.told \in {"nothing", status[i]}
                      \/ page[i].at = "answered" /\ state.told = page[i].status
<1>1. status[i] \in InvoiceStatuses
    BY DEF TypeOK
<1>2. CASE Open(i)
    <2>1. PICK state \in {Pausing} \cup Stopped :
              /\ Become(i, state)
              /\ state.at = "stopped" => state.told \in {"nothing", status[i]}
        BY <1>1, <1>2, PollMoves DEF Open
    <2> QED
        BY <2>1, NoAnswer DEF PageStates
<1>3. CASE Ask(i)
    <2> DEFINE state == [at |-> "answered", status |-> status[i], closed |-> FALSE]
    <2>1. state \in Answered /\ state.status = status[i] /\ state.at = "answered"
        BY <1>1 DEF Answered
    <2>2. Become(i, state)
        BY <1>3 DEF Ask
    <2> HIDE DEF state
    <2> QED
        BY <2>1, <2>2 DEF PageStates
<1>4. CASE Show(i)
    <2>1. page[i] \in Answered
        BY <1>4, PageAt DEF Show
    <2>2. page[i].status \in InvoiceStatuses /\ page[i].closed \in BOOLEAN
        BY <2>1 DEF Answered
    <2>3. PICK state \in {Pausing} \cup Stopped :
              /\ Become(i, state)
              /\ state.at = "stopped" => state.told \in {"nothing", page[i].status}
        BY <1>4, <2>2, PollMoves DEF Show
    <2> QED
        BY <1>4, <2>3, NoAnswer DEF PageStates, Show
<1>5. CASE LoseRequest(i) \/ Close(i)
    <2> DEFINE nothing == [at |-> "stopped", told |-> "nothing", closed |-> TRUE]
               closing == [page[i] EXCEPT !.closed = TRUE]
    <2>1. nothing \in Stopped /\ nothing.told = "nothing" /\ nothing.at = "stopped"
        BY DEF Stopped
    <2>2. CASE Become(i, nothing) \/ Become(i, Pausing)
        <3> HIDE DEF nothing
        <3> QED
            BY <2>1, <2>2 DEF PageStates, Pausing
    <2>3. CASE Become(i, closing) /\ page[i].at = "answered"
        <3>1. page[i] \in Answered
            BY <2>3, PageAt
        <3>2. closing \in Answered /\ closing.status = page[i].status
            BY <3>1 DEF Answered
        <3>3. closing.at = "answered"
            BY <3>2 DEF Answered
        <3> HIDE DEF closing
        <3> QED
            BY <2>3, <3>2, <3>3 DEF PageStates
    <2>4. Close(i) => Become(i, nothing) \/ (Become(i, closing) /\ page[i].at = "answered")
        BY DEF Close, Stop, Become
    <2>5. LoseRequest(i) => Become(i, nothing) \/ Become(i, Pausing)
        BY DEF LoseRequest, Stop
    <2> QED
        BY <1>5, <2>2, <2>3, <2>4, <2>5
<1> QED
    BY <1>2, <1>3, <1>4, <1>5 DEF PageStep

LEMMA PageTypedStep ==
    ASSUME TypeOK, CheckoutTypeOK, [CheckoutNext]_checkoutVars
    PROVE  CheckoutTypeOK'
<1>1. ASSUME NEW i \in Invoices, PageStep(i) PROVE CheckoutTypeOK'
    <2>1. PICK state \in PageStates : Become(i, state)
        BY <1>1, PageMoves
    <2> QED
        BY <2>1 DEF Become, CheckoutTypeOK, PageStates
<1>2. CASE UNCHANGED page
    BY <1>2 DEF CheckoutTypeOK
<1> QED
    BY <1>1, <1>2 DEF CheckoutNext, checkoutVars

\* Every page is where its loop can be, with an answer or a call that exists.
THEOREM PageTyping == CheckoutSpec => []CheckoutTypeOK
<1>1. CheckoutInit => CheckoutTypeOK
    BY DEF CheckoutInit, CheckoutTypeOK
<1>2. TypeOK /\ CheckoutTypeOK /\ [CheckoutNext]_checkoutVars => CheckoutTypeOK'
    BY PageTypedStep
<1> QED
    BY <1>1, <1>2, PollerUnderPages, PollingTyping, PTL DEF CheckoutSpec

------------------------------------------------------------------------------
(* What is said of an invoice stays true, with one poller.                 *)

\* next_status of an address leaves an expired invoice for paid_late alone.
LEMMA StatusOfExpired ==
    ASSUME NEW isLate \in BOOLEAN, NEW due \in Nat, NEW confirmed \in Nat,
           NEW unconfirmed \in Nat
    PROVE  OnchainStatus("expired", isLate, due, confirmed, unconfirmed)
               \in {"expired", "paid_late"}
    BY DEF OnchainStatus

LEMMA DecideLate ==
    ASSUME TypeOK, ExpiredOnlyPaidLate, NEW p \in Pollers,
           NEW x, NEW next, NEW seen, Decide(p, x, next, seen),
           x.status = "expired" => next \in {"expired", "paid_late"}
    PROVE  ExpiredOnlyPaidLate'
<1>1. \A q \in Pollers \ {p} : poller'[q] = poller[q]
    BY DEF Decide, TypeOK
<1>2. poller'[p].read = x /\ poller'[p].next = next
    BY DEF Decide, TypeOK
<1> QED
    BY <1>1, <1>2 DEF ExpiredOnlyPaidLate

\* Any poller decides so from what it read.
LEMMA PollerLate ==
    ASSUME TypeOK, ExpiredOnlyPaidLate, NEW p \in Pollers, RunStep(p) \/ AbortRun(p)
    PROVE  ExpiredOnlyPaidLate'
<1>1. CASE ObserveOnchain(p)
    <2>1. PICK x \in poller[p].queue :
              Decide(p, x,
                     OnchainStatus(x.status, late[x.invoice], Due[x.invoice],
                                   chain[x.invoice].confirmed,
                                   chain[x.invoice].unconfirmed),
                     Amounts(chain[x.invoice].confirmed, chain[x.invoice].unconfirmed))
        BY <1>1 DEF ObserveOnchain
    <2>2. x \in Snapshot
        BY <1>1, PollerAt DEF ObserveOnchain, Working
    <2>3. /\ late[x.invoice] \in BOOLEAN /\ Due[x.invoice] \in Nat
          /\ chain[x.invoice].confirmed \in Nat /\ chain[x.invoice].unconfirmed \in Nat
        BY <2>2, InvoiceAssumption DEF Snapshot, TypeOK
    <2> QED
        BY <2>1, <2>3, StatusOfExpired, DecideLate
<1>2. CASE ObserveLightning(p)
    <2>1. PICK x \in poller[p].queue :
              LET i == x.invoice
                  paid == received[i] >= Due[i]
                  sats == IF paid \/ (Backend = "phoenixd" /\ received[i] > 0)
                          THEN received[i] ELSE x.payment.paid
              IN Decide(p, x, LightningStatus(x.status, late[i], paid), Amounts(sats, 0))
        BY <1>2 DEF ObserveLightning
    <2> DEFINE paid == received[x.invoice] >= Due[x.invoice]
               sats == IF paid \/ (Backend = "phoenixd" /\ received[x.invoice] > 0)
                       THEN received[x.invoice] ELSE x.payment.paid
               next == LightningStatus(x.status, late[x.invoice], paid)
               seen == Amounts(sats, 0)
    <2>2. x \in Snapshot
        BY <1>2, PollerAt DEF ObserveLightning, Working
    <2>3. late[x.invoice] \in BOOLEAN /\ paid \in BOOLEAN
        BY <2>2 DEF Snapshot, TypeOK
    <2>4. x.status = "expired" => next \in {"expired", "paid_late"}
        BY <2>3 DEF LightningStatus
    <2>5. Decide(p, x, next, seen)
        BY <2>1
    <2> HIDE DEF next, seen, paid, sats
    <2> QED
        BY <2>4, <2>5, DecideLate
<1>3. CASE Expire(p)
    <2>1. PICK x \in poller[p].queue : Decide(p, x, "expired", x.payment)
        BY <1>3 DEF Expire
    <2> QED
        BY <2>1, DecideLate
<1>4. CASE BeginRun(p) \/ List(p) \/ Write(p) \/ EndPass(p) \/ AbortRun(p)
    <2>1. \A q \in Pollers \ {p} : poller'[q] = poller[q]
        BY <1>4 DEF BeginRun, List, Write, EndPass, AbortRun, Continue, TypeOK
    <2>2. ASSUME BeginRun(p) \/ AbortRun(p) PROVE poller'[p].at /= "writing"
        BY <2>2 DEF BeginRun, AbortRun, TypeOK, Waiting
    <2>3. ASSUME List(p) \/ Write(p) PROVE poller'[p].at /= "writing"
        BY <2>3 DEF List, Write, Continue, TypeOK
    <2>4. ASSUME EndPass(p) PROVE poller'[p].at /= "writing"
        <3>1. poller[p].pass \in Passes
            BY <2>4, PollerAt DEF EndPass, Working
        <3>2. poller'[p].at \in {"listing", "waiting"}
            BY <2>4, <3>1 DEF EndPass, Passes, TypeOK, Waiting
        <3> QED
            BY <3>2
    <2>5. poller'[p].at /= "writing"
        BY <1>4, <2>2, <2>3, <2>4
    <2> QED
        BY <2>1, <2>5 DEF ExpiredOnlyPaidLate
<1> QED
    BY <1>1, <1>2, <1>3, <1>4 DEF RunStep

LEMMA LateStep ==
    ASSUME TypeOK, ExpiredOnlyPaidLate, [Next]_vars
    PROVE  ExpiredOnlyPaidLate'
<1>1. CASE UNCHANGED poller
    BY <1>1 DEF ExpiredOnlyPaidLate
<1>2. ASSUME NEW p \in Pollers, RunStep(p) \/ AbortRun(p) PROVE ExpiredOnlyPaidLate'
    BY <1>2, PollerLate
<1>3. ASSUME NEW i \in Invoices, Environment(i) PROVE UNCHANGED poller
    BY <1>3 DEF Environment, PayOnchain, Mine, Reorganize, PayLightning, Deadline
<1> QED
    BY <1>1, <1>2, <1>3 DEF Next, vars

\* No write makes what was said of an invoice untrue.
LEMMA WordKept ==
    ASSUME TypeOK, ReadingsHold, ExpiredOnlyPaidLate, [Next]_vars,
           NEW i \in Invoices, NEW said, StillTrue(said, status[i])
    PROVE  StillTrue(said, status'[i])
<1>1. CASE UNCHANGED <<status, payment>>
    BY <1>1
<1>2. ASSUME NEW p \in Pollers, Write(p), i /= poller[p].read.invoice
      PROVE  status'[i] = status[i]
    BY <1>2, WriteMoves
<1>3. ASSUME NEW p \in Pollers, Write(p), i = poller[p].read.invoice
      PROVE  StillTrue(said, status'[i])
    <2>1. status[i] \notin Final /\ poller[p].read.status = status[i]
        BY <1>3, WriteMoves DEF Write, ReadingsHold, IsReading
    <2>2. status[i] = "expired" => poller[p].next \in {"expired", "paid_late"}
        BY <1>3, <2>1 DEF Write, ExpiredOnlyPaidLate
    <2>3. status'[i] \in {status[i], poller[p].next}
        BY <1>3 DEF Write, TypeOK
    <2> QED
        BY <2>1, <2>2, <2>3 DEF StillTrue, Final
<1> QED
    BY <1>1, <1>2, <1>3, RowsMove

\* With one poller a merchant whose script was called back with a settled invoice has
\* it settled for good, and with an expired one is at most paid late, however old the
\* answer was the page acted on (poll and handleTerminal over update_invoice_status).
THEOREM WordIsKept ==
    ASSUME \A p, q \in Pollers : p = q
    PROVE  CheckoutSpec => []ToldForGood
<1> DEFINE Types == TypeOK /\ CheckoutTypeOK /\ ReadingsHold
           Inv == ExpiredOnlyPaidLate /\ AnswersHold /\ ToldForGood
<1>1. CheckoutInit => Inv
    <2> SUFFICES ASSUME CheckoutInit PROVE Inv
        OBVIOUS
    <2>1. \A i \in Invoices : page[i].at = "not open"
        BY DEF CheckoutInit, NotOpen
    <2>2. \A p \in Pollers : poller[p].at = "waiting"
        BY DEF CheckoutInit, Init, Waiting
    <2> QED
        BY <2>1, <2>2 DEF ExpiredOnlyPaidLate, AnswersHold, ToldForGood
<1>2. Types /\ Inv /\ [CheckoutNext]_checkoutVars => Inv'
    <2> SUFFICES ASSUME Types, Inv, [CheckoutNext]_checkoutVars PROVE Inv'
        OBVIOUS
    <2>1. CASE [Next]_vars /\ UNCHANGED page
        <3>1. ExpiredOnlyPaidLate'
            BY <2>1, LateStep
        <3>2. AnswersHold' /\ ToldForGood'
            BY <2>1, WordKept DEF AnswersHold, ToldForGood
        <3> QED
            BY <3>1, <3>2
    <2>2. ASSUME NEW i \in Invoices, PageStep(i) PROVE Inv'
        <3>1. UNCHANGED <<status, poller>>
            BY <2>2 DEF PageStep, vars, rowVars
        <3>2. PICK state \in PageStates :
                  /\ Become(i, state)
                  /\ state.at = "answered" =>
                         \/ state.status = status[i]
                         \/ page[i].at = "answered" /\ state.status = page[i].status
                  /\ state.at = "stopped" =>
                         \/ state.told \in {"nothing", status[i]}
                         \/ page[i].at = "answered" /\ state.told = page[i].status
            BY <2>2, PageMoves
        <3>3. page'[i] = state /\ \A j \in Invoices \ {i} : page'[j] = page[j]
            BY <3>2 DEF Become, CheckoutTypeOK
        <3>4. StillTrue("nothing", status[i]) /\ StillTrue(status[i], status[i])
            BY DEF StillTrue
        <3>5. AnswersHold'
            BY <3>1, <3>2, <3>3, <3>4 DEF AnswersHold
        <3>6. ToldForGood'
            BY <3>1, <3>2, <3>3, <3>4 DEF AnswersHold, ToldForGood
        <3>7. ExpiredOnlyPaidLate'
            BY <3>1 DEF ExpiredOnlyPaidLate
        <3> QED
            BY <3>5, <3>6, <3>7
    <2> QED
        BY <2>1, <2>2 DEF CheckoutNext, checkoutVars
<1>3. CheckoutSpec => []Types
    BY PollerUnderPages, SoleReadingsHold, PageTyping, PTL
<1>4. Inv => ToldForGood
    OBVIOUS
<1> HIDE DEF Types, Inv
<1> QED
    BY <1>1, <1>2, <1>3, <1>4, PTL DEF CheckoutSpec
==============================================================================
