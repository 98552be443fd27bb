------------------------------ MODULE Checkout ------------------------------
(***************************************************************************)
(* The checkout page (js/packages/checkout) over the invoices the poller   *)
(* keeps: it asks the server for its invoice again and again until it is   *)
(* told a status it takes for the last, and calls the merchant's script    *)
(* back.  One request is under way at a time; it may fail, and the page    *)
(* may be closed at any moment.  The invoices are those of payment links,  *)
(* a page for each; how a page looks is left out.                          *)
(***************************************************************************)
EXTENDS InvoiceSync

VARIABLE page     \* invoice -> what its page is doing

checkoutVars == <<vars, page>>

TerminalStatuses == {"settled", "expired", "paid_late"}

NotOpen == [at |-> "not open"]
Pausing == [at |-> "pausing"]
Answered == [at : {"answered"}, status : InvoiceStatuses, closed : BOOLEAN]
Stopped == [at : {"stopped"}, told : {"nothing", "settled", "expired"}, closed : BOOLEAN]

CheckoutTypeOK ==
    page \in [Invoices -> {NotOpen, Pausing} \cup Answered \cup Stopped]

CheckoutInit == Init /\ page = [i \in Invoices |-> NotOpen]

Become(i, state) == page' = [page EXCEPT ![i] = state]

Stop(i, told, closed) ==
    Become(i, [at |-> "stopped", told |-> told, closed |-> closed])

\* Mutant: a payment that was seen is taken for settled.
CallbackEarly(shown) ==
    IF shown = "payment_detected" THEN "settled"
    ELSE IF shown \in {"settled", "expired"} THEN shown ELSE "nothing"

\* Mutant: the script is called back whatever the status it ends with.
CallbackAlways(shown) == shown

\* handleTerminal calls onSettled or onExpired, and neither for a late payment.
Callback(shown) == IF shown \in {"settled", "expired"} THEN shown ELSE "nothing"

\* poll: stop, or ask again after a pause.
Poll(i, shown, closed) ==
    IF closed \/ shown \in TerminalStatuses THEN Stop(i, Callback(shown), closed)
    ELSE Become(i, Pausing)

\* The page is opened with the invoice as it is, which was made for it or, for a key
\* that was used before, found.
Open(i) == page[i] = NotOpen /\ Poll(i, status[i], FALSE)

\* A request reaches the server; its answer is on the way.
Ask(i) ==
    /\ page[i] = Pausing
    /\ Become(i, [at |-> "answered", status |-> status[i], closed |-> FALSE])

Show(i) ==
    /\ page[i].at = "answered"
    /\ Poll(i, page[i].status, page[i].closed)

\* Mutant: an error ends the loop.
LoseRequestEnds(i) ==
    /\ page[i].at = "answered"
    /\ Stop(i, "nothing", page[i].closed)

\* The request or its answer is lost: what was shown before, an open invoice, stays.
LoseRequest(i) ==
    /\ page[i].at = "answered"
    /\ IF page[i].closed THEN Stop(i, "nothing", TRUE) ELSE Become(i, Pausing)

\* The customer closes the page; an answer that is on the way still comes.
Close(i) ==
    \/ page[i] = Pausing /\ Stop(i, "nothing", TRUE)
    \/ /\ page[i].at = "answered" /\ ~page[i].closed
       /\ page' = [page EXCEPT ![i].closed = TRUE]

PageStep(i) ==
    /\ Open(i) \/ Ask(i) \/ Show(i) \/ LoseRequest(i) \/ Close(i)
    /\ UNCHANGED vars

CheckoutNext ==
    \/ Next /\ UNCHANGED page
    \/ \E i \in Invoices : PageStep(i)

\* As for the poller; and the pause ends, every request is answered or lost, and not
\* all of them are lost.  Nobody opens or closes a page.
CheckoutFairness ==
    /\ \A p \in Pollers : WF_checkoutVars(RunStep(p) /\ UNCHANGED page)
    /\ \A i \in Invoices :
          /\ WF_checkoutVars(Deadline(i) /\ UNCHANGED page)
          /\ WF_checkoutVars(Ask(i) /\ UNCHANGED vars)
          /\ SF_checkoutVars(Show(i) /\ UNCHANGED vars)

CheckoutSpec == CheckoutInit /\ [][CheckoutNext]_checkoutVars /\ CheckoutFairness

------------------------------------------------------------------------------
(* Properties                                                              *)

\* What was once said of an invoice is still true of it.
StillTrue(said, now) ==
    /\ said = "settled" => now = "settled"
    /\ said = "expired" => now \in {"expired", "paid_late"}

\* What the merchant's script was told stays true, with one poller, although the page
\* acts on an answer of any age and does not ask again: a settled invoice is settled
\* for good, and one that expired is only paid late (poll, handleTerminal).
ToldForGood ==
    \A i \in Invoices : page[i].at = "stopped" => StillTrue(page[i].told, status[i])

\* A page that is open when its invoice is settled calls onSettled, unless it is
\* closed: lost requests and answers given before do not end its asking (poll).
SettledIsTold ==
    \A i \in Invoices :
        status[i] = "settled" /\ page[i].at \in {"pausing", "answered"}
            ~> page[i].at = "stopped" /\ (page[i].told = "settled" \/ page[i].closed)

------------------------------------------------------------------------------
(* What makes ToldForGood inductive, with ReadingsHold.                    *)

\* An answer that is on the way is as good as what was told.
AnswersHold ==
    \A i \in Invoices : page[i].at = "answered" => StillTrue(page[i].status, status[i])

\* A poller that read an expired invoice writes nothing else than a late payment.
ExpiredOnlyPaidLate ==
    \A p \in Pollers :
        poller[p].at = "writing" /\ poller[p].read.status = "expired" =>
            poller[p].next \in {"expired", "paid_late"}
==============================================================================
