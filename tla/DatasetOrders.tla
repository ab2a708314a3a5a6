---------------------------- MODULE DatasetOrders ----------------------------
(***************************************************************************)
(* Orders of single datasets, and the access they give.                    *)
(*                                                                         *)
(* A purchase commits a pending invoice; capturing it marks it paid, has   *)
(* its line item activated and then announces "invoice.paid", which grants *)
(* once more.  All of it runs in one request, which may die between any    *)
(* two of the steps.  A free order is captured by the request that placed  *)
(* it, a funded one by the payment provider, any time later or never.      *)
(*                                                                         *)
(* Here the events about orders come from invoices instead of anywhere,    *)
(* so every behaviour is one of DatasetAccess.  Capturing, refunding and   *)
(* taking a refund back are core's work, of which only the calls are known.*)
(***************************************************************************)
EXTENDS DatasetAccess

CONSTANTS Invoices, NoInvoice

ASSUME OrdersAssumption == NoInvoice \notin Invoices

VARIABLES
    invoice,  \* UserInvoice rows with a dataset line
    duty,     \* what is left of the request that captures an invoice
    lastWord, \* history: what was last done about a member's orders
    lost      \* history: members of whom some job was lost

orderVars == <<invoice, duty, lastWord, lost>>

\* price: whether the total is zero
Invoice == [status: {"none", "pending", "paid", "refunded"}, price: {"free", "funded"},
            member: Members \union {NoMember}]
Blank   == [status |-> "none", price |-> "free", member |-> NoMember]

\* The step the request is about to take
Duty   == [step: {"none", "capture", "line_item", "invoice_paid"},
           invoice: Invoices \union {NoInvoice}]
NoDuty == [step |-> "none", invoice |-> NoInvoice]

OrdersInit ==
    /\ Init
    /\ invoice = [i \in Invoices |-> Blank]
    /\ duty = [w \in Workers |-> NoDuty]
    /\ lastWord = [m \in Members |-> "none"]
    /\ lost = {}

Free(w)  == job[w].pc = "idle" /\ duty[w] = NoDuty
Buyer(i) == invoice[i].member

WrongCreateOrderUnowned(w, i, m, price) ==
    /\ Free(w)
    /\ Exists(m)
    /\ invoice[i].status = "none"
    /\ invoice' = [invoice EXCEPT ![i] = [status |-> "pending", price |-> price, member |-> NoMember]]
    /\ duty' = IF price = "free" THEN [duty EXCEPT ![w] = [step |-> "capture", invoice |-> i]]
                                 ELSE duty
    /\ UNCHANGED <<vars, lastWord, lost>>

\* create_one_time_order and the commit of the route
CreateOrder(w, i, m, price) ==
    /\ Free(w)
    /\ Exists(m)
    /\ invoice[i].status = "none"
    /\ invoice' = [invoice EXCEPT ![i] = [status |-> "pending", price |-> price, member |-> m]]
    /\ duty' = IF price = "free" THEN [duty EXCEPT ![w] = [step |-> "capture", invoice |-> i]]
                                 ELSE duty
    /\ UNCHANGED <<vars, lastWord, lost>>

MarkPaid(w, i) ==
    /\ invoice[i].status = "pending"
    /\ invoice' = [invoice EXCEPT ![i].status = "paid"]
    /\ duty' = [duty EXCEPT ![w] = [step |-> "line_item", invoice |-> i]]
    /\ lastWord' = [lastWord EXCEPT ![Buyer(i)] = "paid"]
    /\ UNCHANGED <<vars, lost>>

\* emit_payment_captured of the route
CaptureFree(w) ==
    /\ duty[w].step = "capture"
    /\ MarkPaid(w, duty[w].invoice)

CapturePayment(w, i) ==
    /\ Free(w)
    /\ invoice[i].price = "funded"
    /\ MarkPaid(w, i)

\* The line of a one-time order carries the plugin's tag, so the handler of
\* recurring lines takes it as well.
ActivateOrderLine(w) ==
    /\ duty[w].step = "line_item"
    /\ ActivateLineItem(w, Buyer(duty[w].invoice))
    /\ duty' = [duty EXCEPT ![w].step = "invoice_paid"]
    /\ UNCHANGED <<invoice, lastWord, lost>>

AnnouncePaid(w) ==
    /\ duty[w].step = "invoice_paid"
    /\ OnInvoicePaid(w, Buyer(duty[w].invoice))
    /\ duty' = [duty EXCEPT ![w] = NoDuty]
    /\ UNCHANGED <<invoice, lastWord, lost>>

WrongRefundSparesOther(w, i) ==
    /\ Free(w)
    /\ invoice[i].status = "paid"
    /\ IF \E k \in Invoices \ {i} : Buyer(k) = Buyer(i) /\ invoice[k].status = "paid"
       THEN RestoreLineItem(w, Buyer(i)) ELSE ReverseLineItem(w, Buyer(i))
    /\ invoice' = [invoice EXCEPT ![i].status = "refunded"]
    /\ lastWord' = [lastWord EXCEPT ![Buyer(i)] = "refunded"]
    /\ UNCHANGED <<duty, lost>>

Refund(w, i) ==
    /\ Free(w)
    /\ invoice[i].status = "paid"
    /\ ReverseLineItem(w, Buyer(i))
    /\ invoice' = [invoice EXCEPT ![i].status = "refunded"]
    /\ lastWord' = [lastWord EXCEPT ![Buyer(i)] = "refunded"]
    /\ UNCHANGED <<duty, lost>>

ReverseRefund(w, i) ==
    /\ Free(w)
    /\ invoice[i].status = "refunded"
    /\ RestoreLineItem(w, Buyer(i))
    /\ invoice' = [invoice EXCEPT ![i].status = "paid"]
    /\ lastWord' = [lastWord EXCEPT ![Buyer(i)] = "paid"]
    /\ UNCHANGED <<duty, lost>>

(***************************************************************************)
(* What else happens                                                       *)
(***************************************************************************)
InJob(w)  == IF job[w].pc = "idle" THEN {} ELSE job[w].todo \union ({job[w].target} \ {NoMember})
InDuty(w) == IF duty[w] = NoDuty THEN {} ELSE {Buyer(duty[w].invoice)}

\* A worker serves one request at a time.
Elsewhere(w) ==
    /\ \/ Free(w) /\ (SubscriptionEvent(w) \/ RevokeExpiredGraceAccess(w))
       \/ Find(w) \/ Commit(w) \/ Log(w)
    /\ UNCHANGED orderVars

\* The error ends the request, or core catches it and goes on with the capture.
FailJob(w) ==
    /\ Fail(w)
    /\ lost' = lost \union InJob(w)
    /\ duty' \in {duty, [duty EXCEPT ![w] = NoDuty]}
    /\ UNCHANGED <<invoice, lastWord>>

CrashRequest(w) ==
    /\ Crash(w)
    /\ lost' = lost \union InJob(w) \union InDuty(w)
    /\ duty' = [duty EXCEPT ![w] = NoDuty]
    /\ UNCHANGED <<invoice, lastWord>>

\* The request dies between two of its steps.
Abandon(w) ==
    /\ job[w].pc = "idle"
    /\ duty[w] # NoDuty
    /\ lost' = lost \union InDuty(w)
    /\ duty' = [duty EXCEPT ![w] = NoDuty]
    /\ UNCHANGED <<vars, invoice, lastWord>>

(***************************************************************************)
(* Specification                                                           *)
(***************************************************************************)
OrderStep(w) ==
    \/ CaptureFree(w) \/ ActivateOrderLine(w) \/ AnnouncePaid(w)
    \/ \E i \in Invoices :
          \/ CapturePayment(w, i) \/ Refund(w, i) \/ ReverseRefund(w, i)
          \/ \E m \in Members, price \in {"free", "funded"} : CreateOrder(w, i, m, price)

OrdersNext ==
    \/ \E w \in Workers :
          OrderStep(w) \/ Elsewhere(w) \/ FailJob(w) \/ CrashRequest(w) \/ Abandon(w)
    \/ (CatalogueChange \/ DayPasses) /\ UNCHANGED orderVars

OrdersSpec == OrdersInit /\ [][OrdersNext]_<<vars, orderVars>>

(***************************************************************************)
(* Properties                                                              *)
(***************************************************************************)
OrdersTypeOK ==
    /\ TypeOK
    /\ invoice \in [Invoices -> Invoice]
    /\ \A i \in Invoices : invoice[i].status # "none" => Buyer(i) \in Members
    /\ duty \in [Workers -> Duty]
    /\ \A w \in Workers : duty[w] # NoDuty =>
          duty[w].invoice \in Invoices /\ invoice[duty[w].invoice].status # "none"
    /\ lastWord \in [Members -> {"none", "paid", "refunded"}]
    /\ lost \subseteq Members

\* Nothing is under way for the member, nothing was lost on the way, and no
\* subscription had a part in the member's access.
OrdersOnly(m) ==
    /\ Exists(m)
    /\ m \notin lost
    /\ \A w \in Workers : m \notin InJob(w) \union InDuty(w)
    /\ \A i \in DOMAIN accessLog :
          About(accessLog[i], m) => accessLog[i].triggered_by # "subscription_event"

\* With one worker, access says what was last done about any of the member's orders:
\* a capture or a refund taken back opens it, a refund closes it, though another
\* order of the same dataset may still be paid, and an order that nobody paid gives
\* none.
AccessFollowsOrders ==
    \A m \in Members : OrdersOnly(m) =>
       membership[m].status = [none |-> "absent", paid |-> "active",
                               refunded |-> "revoked"][lastWord[m]]

=============================================================================
