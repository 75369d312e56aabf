--------------------------- MODULE PaymentLedger ---------------------------
(***************************************************************************)
(* Payments from their creation on: captures of the buyer, webhooks of the *)
(* providers and decisions of an administrator complete or fail a          *)
(* transaction, give its credits and write its invoice.                    *)
(*                                                                         *)
(* The handlers are synchronous bodies of async endpoints, so an API       *)
(* process handles one request at a time; there are several processes      *)
(* (UVI_WORKERS).  One action is one database transaction or one call of a *)
(* provider.  The providers' side is external.                             *)
(*                                                                         *)
(* Every write goes through BasePersistenceAdapter._execute_with_retry: it *)
(* may be answered without being made when the connection breaks, as       *)
(* DbRetry shows.                                                          *)
(***************************************************************************)
EXTENDS Integers, FiniteSets

CONSTANTS
  Tx,      \* payment transactions
  Api,     \* API processes
  Mishaps  \* bound on the requests cut off and the answered writes not made

ASSUME PaymentAssumption == Mishaps \in Nat

VARIABLES
  kind,     \* payment_transactions.provider; never changes
  order,    \* at the provider
  events,   \* webhooks the provider has sent and has no success answer for
  status,   \* payment_transactions.status
  ledger,   \* purchase entries of the transaction in credit_ledgers; 2 is several
  invoice,  \* invoices.status, by transaction
  request,  \* the request each API process handles
  overlap,  \* history: transactions two requests have worked on at once
  mishap,   \* requests cut off and answered writes not made so far
  cut,      \* history: transactions whose request died after completing them
  lost      \* history: writes of a transaction that were answered but not made

payVars == <<kind, order, events, status, ledger, invoice, request, overlap, mishap, cut, lost>>

-----------------------------------------------------------------------------
\* BITCOIN and BANK_TRANSFER are manual; an administrator makes a billed one
\* together with its invoice, and it has no order at a provider.
Kind == {"stripe", "paypal", "manual", "billed"}

\* _get_gateway takes PayPal for every provider but Stripe.
AtPayPal(t) == kind[t] \in {"paypal", "manual"}

\* CHECKOUT.ORDER.APPROVED, a success, and a failed attempt.
PayEvent == [tx : Tx, says : {"approved", "success", "failure"}]

Idle == [pc |-> "idle"]

\* Each request has read its transaction and goes on with what it read.
Request == {Idle} \cup
           [pc : {"gateway", "complete", "credit", "invoice", "fail", "cancel"},
            tx : Tx, by : {"buyer", "admin", "approved", "success", "failure"}]

PayTypeOK ==
  /\ kind \in [Tx -> Kind]
  /\ order \in [Tx -> {"open", "approved", "captured"}]
  /\ events \in SUBSET PayEvent
  /\ status \in [Tx -> {"AWAITING_PAYMENT", "PENDING", "COMPLETED", "FAILED"}]
  /\ ledger \in [Tx -> 0 .. 2]
  /\ invoice \in [Tx -> {"none", "pending", "paid", "cancelled"}]
  /\ request \in [Api -> Request]
  /\ overlap \in SUBSET Tx /\ cut \in SUBSET Tx /\ mishap \in 0 .. Mishaps
  /\ lost \in SUBSET (Tx \X {"completed", "credits"})

\* A manual payment is opened as awaiting and then made pending; the second
\* step may be missing, and so may the invoice of a billed one.
PayInit ==
  /\ kind \in [Tx -> Kind]
  /\ order = [t \in Tx |-> "open"]
  /\ events = {}
  /\ status \in [Tx -> {"AWAITING_PAYMENT", "PENDING"}]
  /\ \A t \in Tx : /\ kind[t] \in {"stripe", "paypal"} => status[t] = "AWAITING_PAYMENT"
                   /\ kind[t] = "billed" => status[t] = "PENDING"
  /\ ledger = [t \in Tx |-> 0]
  /\ invoice \in [Tx -> {"none", "pending"}]
  /\ \A t \in Tx : invoice[t] = "pending" => kind[t] = "billed"
  /\ request = [a \in Api |-> Idle]
  /\ overlap = {} /\ cut = {} /\ mishap = 0 /\ lost = {}

-----------------------------------------------------------------------------
(* The providers *)

Ours == <<kind, status, ledger, invoice, request, overlap, mishap, cut, lost>>

\* The buyer approves a PayPal order; the webhook CHECKOUT.ORDER.APPROVED.
PayPalApproved(t) ==
  /\ AtPayPal(t) /\ order[t] = "open"
  /\ order' = [order EXCEPT ![t] = "approved"]
  /\ events' = events \cup {[tx |-> t, says |-> "approved"]}
  /\ UNCHANGED Ours

\* A Stripe payment is captured as it succeeds; an attempt that fails leaves
\* the intent open.
StripePays(t) ==
  /\ kind[t] = "stripe" /\ order[t] = "open"
  /\ \/ /\ order' = [order EXCEPT ![t] = "captured"]
        /\ events' = events \cup {[tx |-> t, says |-> "success"]}
     \/ /\ UNCHANGED order
        /\ events' = events \cup {[tx |-> t, says |-> "failure"]}
  /\ UNCHANGED Ours

-----------------------------------------------------------------------------
(* Requests begin by reading the status *)

Free(a) == request[a] = Idle

Working(t) == {a \in Api : request[a] # Idle /\ request[a].tx = t}

Enter(a, t, pc, by) ==
  /\ request' = [request EXCEPT ![a] = [pc |-> pc, tx |-> t, by |-> by]]
  /\ overlap' = IF Working(t) = {} THEN overlap ELSE overlap \cup {t}

\* Mutant of Done: nothing is ever done.
DoneNever(t) == FALSE

\* Mutant of Done: a failed payment counts as done as well.
DoneIfDecided(t) == status[t] \in {"COMPLETED", "FAILED"}

Done(t) == status[t] = "COMPLETED"

\* capture_payment finds the transaction by its order; for one that is done it
\* returns at once.
BeginCapture(a, t) ==
  /\ Free(a) /\ kind[t] # "billed" /\ ~Done(t)
  /\ Enter(a, t, "gateway", "buyer")
  /\ UNCHANGED <<kind, order, events, status, ledger, invoice, mishap, cut, lost>>

\* process_webhook, which is answered at once when the transaction is done.
BeginWebhook(a, e) ==
  /\ Free(a) /\ e \in events
  /\ IF Done(e.tx)
       THEN events' = events \ {e} /\ UNCHANGED <<request, overlap>>
       ELSE /\ Enter(a, e.tx, IF e.says = "failure" THEN "fail" ELSE "complete", e.says)
            /\ UNCHANGED events
  /\ UNCHANGED <<kind, order, status, ledger, invoice, mishap, cut, lost>>

\* verify_manual_payment, of a transaction that is pending.
BeginVerify(a, t) ==
  /\ Free(a) /\ kind[t] \in {"manual", "billed"} /\ status[t] = "PENDING"
  /\ \E pc \in {"complete", "fail"} : Enter(a, t, pc, "admin")
  /\ UNCHANGED <<kind, order, events, status, ledger, invoice, mishap, cut, lost>>

-----------------------------------------------------------------------------
(* The steps of a request *)

At(a, pc) == request[a].pc = pc

Goto(a, pc) == request' = [request EXCEPT ![a].pc = pc]

End(a) == request' = [request EXCEPT ![a] = Idle]

Mishap == mishap < Mishaps /\ mishap' = mishap + 1

\* The request ends in the middle.
CutOff(a) == Mishap /\ End(a)

\* A write of the request is made, or it is only answered.
Made == UNCHANGED <<mishap, lost>>

OnlyAnswered(a, what) == Mishap /\ lost' = lost \cup {<<request[a].tx, what>>}

\* A webhook that ends well is not sent again.
Answered(a) == events' = events \ {[tx |-> request[a].tx, says |-> request[a].by]}

\* capture_order: Stripe is asked whether the intent has succeeded; PayPal
\* captures an order that is approved, and refuses any other, also one that is
\* captured already.  The request names the provider that is asked: the other
\* one does not know the order, and refuses too.
Gateway(a) ==
  LET t == request[a].tx IN
  /\ At(a, "gateway")
  /\ \/ /\ kind[t] = "stripe" /\ order[t] = "captured"
        /\ UNCHANGED <<order, events, mishap>> /\ Goto(a, "complete")
     \/ /\ AtPayPal(t) /\ order[t] = "approved"
        /\ order' = [order EXCEPT ![t] = "captured"]
        /\ events' = events \cup {[tx |-> t, says |-> "success"]}
        /\ \/ Goto(a, "complete") /\ UNCHANGED mishap
           \/ CutOff(a)
     \/ UNCHANGED <<order, events, mishap>> /\ Goto(a, "fail")
  /\ UNCHANGED <<kind, status, ledger, invoice, overlap, cut, lost>>

\* update_payment_transaction
Complete(a) ==
  /\ At(a, "complete")
  /\ \/ Made /\ status' = [status EXCEPT ![request[a].tx] = "COMPLETED"]
     \/ OnlyAnswered(a, "completed") /\ UNCHANGED status
  /\ Goto(a, "credit")
  /\ UNCHANGED <<kind, order, events, ledger, invoice, overlap, cut>>

\* create_ledger_entry_from_purchase: a new entry, whatever entries there are.
Credit(a) ==
  /\ At(a, "credit")
  /\ \/ Made /\ ledger' = [ledger EXCEPT ![request[a].tx] = IF @ = 0 THEN 1 ELSE 2]
     \/ OnlyAnswered(a, "credits") /\ UNCHANGED ledger
  /\ Goto(a, "invoice")
  /\ UNCHANGED <<kind, order, events, status, invoice, overlap, cut>>

\* The administrator's approval pays an invoice that is there; else the
\* invoice is inserted, which fails when the transaction has one.
WriteInvoice(a) ==
  LET t == request[a].tx IN
  /\ At(a, "invoice")
  /\ \/ /\ invoice[t] = "none" \/ request[a].by = "admin"
        /\ \/ invoice' = [invoice EXCEPT ![t] = "paid"] /\ UNCHANGED mishap
           \/ Mishap /\ UNCHANGED invoice
        /\ Answered(a)
     \/ /\ invoice[t] # "none" /\ request[a].by # "admin" /\ UNCHANGED <<invoice, events, mishap>>
  /\ End(a)
  /\ UNCHANGED <<kind, order, status, ledger, overlap, cut, lost>>

Fail(a) ==
  /\ At(a, "fail")
  /\ \/ status' = [status EXCEPT ![request[a].tx] = "FAILED"] /\ UNCHANGED mishap
     \/ Mishap /\ UNCHANGED status
  /\ IF request[a].by = "admin" THEN Goto(a, "cancel") /\ UNCHANGED events
                                ELSE End(a) /\ Answered(a)
  /\ UNCHANGED <<kind, order, ledger, invoice, overlap, cut, lost>>

\* A rejected manual payment cancels the invoice, if there is one.
CancelInvoice(a) ==
  /\ At(a, "cancel")
  /\ \/ /\ invoice' = [invoice EXCEPT ![request[a].tx] = IF @ = "none" THEN @ ELSE "cancelled"]
        /\ UNCHANGED mishap
     \/ Mishap /\ UNCHANGED invoice
  /\ End(a)
  /\ UNCHANGED <<kind, order, events, status, ledger, overlap, cut, lost>>

\* The process dies, or a database error ends the request.
Dies(a) ==
  /\ ~Free(a) /\ CutOff(a)
  /\ cut' = IF request[a].pc = "credit" THEN cut \cup {request[a].tx} ELSE cut
  /\ UNCHANGED <<kind, order, events, status, ledger, invoice, overlap, lost>>

-----------------------------------------------------------------------------
PayStep(a) == \/ Gateway(a) \/ Complete(a) \/ Credit(a) \/ WriteInvoice(a)
              \/ Fail(a) \/ CancelInvoice(a)

PayNext ==
  \/ \E t \in Tx : PayPalApproved(t) \/ StripePays(t)
  \/ \E a \in Api : \/ PayStep(a) \/ Dies(a)
                    \/ \E t \in Tx : BeginCapture(a, t) \/ BeginVerify(a, t)
                    \/ \E e \in events : BeginWebhook(a, e)

PaySpec == PayInit /\ [][PayNext]_payVars

\* A request proceeds, and a provider repeats a webhook until it is answered.
PayFairness ==
  /\ \A a \in Api : WF_payVars(PayStep(a))
  /\ \A e \in PayEvent : SF_payVars(\E a \in Api : BeginWebhook(a, e))

PayFairSpec == PaySpec /\ PayFairness

-----------------------------------------------------------------------------
(* Properties *)

\* Of a transaction whose requests never overlap, the credits are given at
\* most once: over repeated and reordered webhooks, repeated captures, answers
\* of a provider that are lost, crashes between any two steps, and answered
\* writes that were not made.  Exempt is a transaction whose mark COMPLETED is
\* such a write: the next webhook finds it unpaid.
CreditedOnce ==
  \A t \in Tx \ overlap : <<t, "completed">> \notin lost => ledger[t] <= 1

\* A payment that is completed stays so, unless requests overlap: a late
\* failure does not undo it.
CompletedStays ==
  [][\A t \in Tx \ overlap : status[t] = "COMPLETED" => status'[t] = "COMPLETED"]_payVars

\* An invoice says "paid" only when the credits have been given, or when
\* giving them was answered but not done.
PaidIsCredited ==
  \A t \in Tx : invoice[t] = "paid" => ledger[t] > 0 \/ <<t, "credits">> \in lost

\* A payment the provider has captured is credited in the end, unless a
\* request dies right after it has marked the transaction completed, or
\* giving the credits is answered but not done.
CapturedIsCredited ==
  \A t \in Tx : ([](t \notin cut /\ <<t, "credits">> \notin lost))
                  => ((order[t] = "captured") ~> (ledger[t] > 0))

\* capture_payment "checks DB state to prevent double provisioning".
NoDoubleProvisioning == \A t \in Tx : ledger[t] <= 1

\* process_webhook "captures payments automatically if not already captured".
CreditedIsCaptured ==
  \A t \in Tx : kind[t] = "paypal" /\ ledger[t] > 0 => order[t] = "captured"

\* A transaction that is completed and that nobody works on has its credits.
CompletedIsCredited ==
  \A t \in Tx : status[t] = "COMPLETED" /\ Working(t) = {} => ledger[t] > 0
=============================================================================
