------------------------ MODULE DatasetOrdersProofs ------------------------
(***************************************************************************)
(* Theorems about DatasetOrders: orders add nothing to what the access     *)
(* service may see, and with one worker a member's access says what was    *)
(* last done about the member's orders.                                    *)
(***************************************************************************)
EXTENDS DatasetOrders, DatasetAccessSoloProofs

(***************************************************************************)
(* Orders are events of the access service                                 *)
(***************************************************************************)

\* The invoice behind a duty has a buyer.
LEMMA DutyHasBuyer ==
    ASSUME OrdersTypeOK, NEW w \in Workers, duty[w] # NoDuty
    PROVE  duty[w].invoice \in Invoices /\ Buyer(duty[w].invoice) \in Members
BY DEF OrdersTypeOK

\* What a request does next is to start one transition of the access service
\* for one member, or nothing the service sees.
LEMMA OrderStepStarts ==
    ASSUME OrdersTypeOK, NEW w \in Workers, OrderStep(w)
    PROVE  OrderEvent(w) \/ UNCHANGED vars
<1>1. CASE CaptureFree(w)
  BY <1>1 DEF CaptureFree, MarkPaid
<1>2. CASE ActivateOrderLine(w)
  <2>1. PICK m \in Members : m = Buyer(duty[w].invoice)
    BY <1>2, DutyHasBuyer DEF ActivateOrderLine, NoDuty
  <2>2. ActivateLineItem(w, m)
    BY <1>2, <2>1 DEF ActivateOrderLine, ActivateLineItem, Handle
  <2>3. QED BY <2>2 DEF OrderEvent
<1>3. CASE AnnouncePaid(w)
  <2>1. PICK m \in Members : m = Buyer(duty[w].invoice)
    BY <1>3, DutyHasBuyer DEF AnnouncePaid, NoDuty
  <2>2. OnInvoicePaid(w, m)
    BY <1>3, <2>1 DEF AnnouncePaid, OnInvoicePaid, Handle
  <2>3. QED BY <2>2 DEF OrderEvent
<1>4. ASSUME NEW i \in Invoices, CapturePayment(w, i)
      PROVE  UNCHANGED vars
  BY <1>4 DEF CapturePayment, MarkPaid
<1>5. ASSUME NEW i \in Invoices, Refund(w, i)
      PROVE  OrderEvent(w)
  <2>1. PICK m \in Members : m = Buyer(i)
    BY <1>5 DEF Refund, OrdersTypeOK
  <2>2. ReverseLineItem(w, m)
    BY <1>5, <2>1 DEF Refund, ReverseLineItem, Handle
  <2>3. QED BY <2>2 DEF OrderEvent
<1>6. ASSUME NEW i \in Invoices, ReverseRefund(w, i)
      PROVE  OrderEvent(w)
  <2>1. PICK m \in Members : m = Buyer(i)
    BY <1>6 DEF ReverseRefund, OrdersTypeOK
  <2>2. RestoreLineItem(w, m)
    BY <1>6, <2>1 DEF ReverseRefund, RestoreLineItem, Handle
  <2>3. QED BY <2>2 DEF OrderEvent
<1>7. ASSUME NEW i \in Invoices, NEW m \in Members, NEW price \in {"free", "funded"},
             CreateOrder(w, i, m, price)
      PROVE  UNCHANGED vars
  BY <1>7 DEF CreateOrder
<1>8. QED
  BY <1>1, <1>2, <1>3, <1>4, <1>5, <1>6, <1>7 DEF OrderStep

LEMMA OrdersStepIsAccessStep ==
    OrdersTypeOK /\ [OrdersNext]_<<vars, orderVars>> => [Next]_vars
<1> SUFFICES ASSUME OrdersTypeOK, [OrdersNext]_<<vars, orderVars>>
             PROVE  [Next]_vars
  OBVIOUS
<1>1. ASSUME NEW w \in Workers, OrderStep(w)
      PROVE  [Next]_vars
  BY <1>1, OrderStepStarts DEF Next
<1>2. ASSUME NEW w \in Workers, Elsewhere(w)
      PROVE  [Next]_vars
  BY <1>2 DEF Elsewhere, Next, JobStep
<1>3. ASSUME NEW w \in Workers, FailJob(w) \/ CrashRequest(w) \/ Abandon(w)
      PROVE  [Next]_vars
  BY <1>3 DEF FailJob, CrashRequest, Abandon, Next, JobStep
<1>4. QED
  BY <1>1, <1>2, <1>3 DEF OrdersNext, Next

\* The new variables keep their types; a duty is about an invoice with a buyer.
OrderRowsOK ==
    /\ invoice \in [Invoices -> Invoice]
    /\ \A i \in Invoices : invoice[i].status # "none" => Buyer(i) \in Members
    /\ duty \in [Workers -> Duty]
    /\ \A w \in Workers : duty[w] # NoDuty =>
          duty[w].invoice \in Invoices /\ invoice[duty[w].invoice].status # "none"
    /\ lastWord \in [Members -> {"none", "paid", "refunded"}]
    /\ lost \subseteq Members

LEMMA NoDutyType == NoDuty \in Duty /\ NoDuty.step = "none"
BY DEF NoDuty, Duty

\* An invoice that moves on from one status to the next keeps its buyer.
LEMMA InvoiceMoves ==
    ASSUME OrderRowsOK, NEW i \in Invoices, NEW s \in {"paid", "refunded"},
           invoice[i].status # "none", invoice' = [invoice EXCEPT ![i].status = s]
    PROVE  /\ invoice' \in [Invoices -> Invoice]
           /\ \A k \in Invoices : /\ Buyer(k)' = Buyer(k)
                                  /\ invoice'[k].status # "none" <=> invoice[k].status # "none"
           /\ \A k \in Invoices : invoice'[k].status # "none" => Buyer(k)' \in Members
           /\ Buyer(i) \in Members
BY DEF OrderRowsOK, Invoice, Buyer

LEMMA OrderRowsStep ==
    ASSUME OrdersTypeOK, [OrdersNext]_<<vars, orderVars>>
    PROVE  OrderRowsOK'
<1>0. OrderRowsOK /\ TypeOK /\ job \in [Workers -> Job]
  BY DEF OrdersTypeOK, OrderRowsOK, TypeOK
<1>1. ASSUME NEW w \in Workers, NEW i \in Invoices, MarkPaid(w, i)
      PROVE  OrderRowsOK'
  <2>1. [step |-> "line_item", invoice |-> i] \in Duty
    BY DEF Duty
  <2>2. QED
    BY <1>0, <1>1, <2>1, InvoiceMoves DEF MarkPaid, OrderRowsOK
<1>2. ASSUME NEW w \in Workers, CaptureFree(w)
      PROVE  OrderRowsOK'
  <2>1. PICK i \in Invoices : i = duty[w].invoice
    BY <1>2, DutyHasBuyer DEF CaptureFree, NoDuty
  <2>2. MarkPaid(w, i)
    BY <1>2, <2>1 DEF CaptureFree, MarkPaid, Buyer
  <2>3. QED BY <1>1, <2>2
<1>3. ASSUME NEW w \in Workers, ActivateOrderLine(w)
      PROVE  OrderRowsOK'
  <2>1. duty' = [duty EXCEPT ![w].step = "invoice_paid"] /\ duty[w] # NoDuty
    BY <1>3 DEF ActivateOrderLine, NoDuty
  <2>2. [duty[w] EXCEPT !.step = "invoice_paid"] \in Duty
    BY <1>0 DEF OrderRowsOK, Duty
  <2>3. /\ duty' \in [Workers -> Duty]
        /\ \A x \in Workers : duty'[x].invoice = duty[x].invoice
        /\ \A x \in Workers : x # w => duty'[x] = duty[x]
    BY <1>0, <2>1, <2>2 DEF OrderRowsOK, Duty
  <2>4. QED
    BY <1>0, <1>3, <2>1, <2>3 DEF ActivateOrderLine, OrderRowsOK, Buyer
<1>4. ASSUME NEW w \in Workers, AnnouncePaid(w)
      PROVE  OrderRowsOK'
  BY <1>0, <1>4, NoDutyType DEF AnnouncePaid, OrderRowsOK, Buyer
<1>5. ASSUME NEW w \in Workers, NEW i \in Invoices, CapturePayment(w, i)
      PROVE  OrderRowsOK'
  BY <1>1, <1>5 DEF CapturePayment
<1>6. ASSUME NEW w \in Workers, NEW i \in Invoices, Refund(w, i) \/ ReverseRefund(w, i)
      PROVE  OrderRowsOK'
  BY <1>0, <1>6, InvoiceMoves DEF Refund, ReverseRefund, OrderRowsOK
<1>7. ASSUME NEW w \in Workers, NEW i \in Invoices, NEW m \in Members,
             NEW price \in {"free", "funded"}, CreateOrder(w, i, m, price)
      PROVE  OrderRowsOK'
  <2>1. /\ [step |-> "capture", invoice |-> i] \in Duty
        /\ [status |-> "pending", price |-> price, member |-> m] \in Invoice
    BY DEF Duty, Invoice
  <2>2. QED
    BY <1>0, <1>7, <2>1 DEF CreateOrder, OrderRowsOK, Buyer
<1>8. ASSUME NEW w \in Workers, FailJob(w) \/ CrashRequest(w) \/ Abandon(w)
      PROVE  OrderRowsOK'
  <2>1. InJob(w) \subseteq Members
    BY <1>0 DEF InJob, Job
  <2>2. InDuty(w) \subseteq Members
    BY DutyHasBuyer DEF InDuty
  <2>3. QED
    BY <1>0, <1>8, <2>1, <2>2, NoDutyType
       DEF FailJob, CrashRequest, Abandon, OrderRowsOK, Buyer
<1>9. ASSUME UNCHANGED orderVars
      PROVE  OrderRowsOK'
  BY <1>0, <1>9 DEF orderVars, OrderRowsOK, Buyer
<1>10. QED
  BY <1>2, <1>3, <1>4, <1>5, <1>6, <1>7, <1>8, <1>9
     DEF OrdersNext, OrderStep, Elsewhere

LEMMA OrdersTypeInit == OrdersInit => OrdersTypeOK
<1> SUFFICES ASSUME OrdersInit PROVE OrdersTypeOK
  OBVIOUS
<1>1. TypeOK
  BY TypeInit DEF OrdersInit
<1>2. Blank \in Invoice /\ Blank.status = "none"
  BY DEF Blank, Invoice
<1>3. QED
  BY <1>1, <1>2, NoDutyType DEF OrdersInit, OrdersTypeOK

LEMMA OrdersTypeStep ==
    OrdersTypeOK /\ [OrdersNext]_<<vars, orderVars>> => OrdersTypeOK'
<1> SUFFICES ASSUME OrdersTypeOK, [OrdersNext]_<<vars, orderVars>>
             PROVE  OrdersTypeOK'
  OBVIOUS
<1>1. TypeOK'
  BY OrdersStepIsAccessStep, TypeStep DEF OrdersTypeOK
<1>2. OrderRowsOK'
  BY OrderRowsStep
<1>3. QED
  BY <1>1, <1>2 DEF OrdersTypeOK, OrderRowsOK

\* Invoices, duties and the rows of the access service keep their types, and a
\* request never works on an invoice that nobody placed.
THEOREM OrdersTypeCorrect == OrdersSpec => []OrdersTypeOK
BY OrdersTypeInit, OrdersTypeStep, PTL DEF OrdersSpec

\* Every behaviour of orders, captures, refunds and dying requests is one of the
\* access service: what is proved of DatasetAccess holds of it.
THEOREM OrdersImplementAccess == OrdersSpec => Spec
<1>1. OrdersInit => Init
  BY DEF OrdersInit
<1>2. QED
  BY <1>1, OrdersTypeInit, OrdersTypeStep, OrdersStepIsAccessStep, PTL DEF OrdersSpec, Spec

(***************************************************************************)
(* One worker: access follows the orders                                   *)
(***************************************************************************)

\* The member's access is no matter of orders alone, and never will be again:
\* the dataset is gone, a job was lost, or a subscription event is on record.
Touched(m) ==
    \/ ~Exists(m)
    \/ m \in lost
    \/ \E i \in DOMAIN accessLog : /\ About(accessLog[i], m)
                                   /\ accessLog[i].triggered_by = "subscription_event"

\* The status that the last word about the member's orders asks for
Said(m) == [none |-> "absent", paid |-> "active", refunded |-> "revoked"][lastWord[m]]

\* A job that still has the member's row to write
WillWrite(j, m) == \/ j.pc # "idle" /\ m \in j.todo
                   \/ j.pc = "commit" /\ j.target = m

\* A subscription's job that still has the member's audit entry to write
WillTouch(j, m) == /\ j.by = "subscription_event"
                   /\ WillWrite(j, m) \/ (j.pc = "log" /\ j.target = m)

\* The last word has been carried out or is on its way.
Follows(m) ==
    \/ Touched(m)
    \/ membership[m].status = Said(m)
    \/ \E w \in Workers :
          \/ WillTouch(job[w], m)
          \/ /\ WillWrite(job[w], m)
             /\ job[w].by \in {"line_item", "one_time_order"}
          \/ /\ job[w].pc = "idle" /\ duty[w].step = "line_item"
             /\ Buyer(duty[w].invoice) = m /\ lastWord[m] = "paid"

\* A grace period comes from a subscription.
GraceIsTouched(m) ==
    membership[m].status = "grace" => Touched(m) \/ \E w \in Workers : WillTouch(job[w], m)

RequestOK(w) ==
    /\ job[w].pc # "idle" => duty[w].step \in {"none", "invoice_paid"}
    /\ duty[w].step \in {"line_item", "invoice_paid"} => lastWord[Buyer(duty[w].invoice)] = "paid"
    /\ job[w].op = "grace_started" => job[w].by = "subscription_event"
    /\ job[w].by \in {"line_item", "one_time_order"} =>
          \A m \in Members : WillWrite(job[w], m) => StatusOf(job[w].op) = Said(m)
    /\ job[w].by = "scheduler" =>
          \A m \in Members : WillWrite(job[w], m) => Touched(m)

FollowInv ==
    /\ OrdersTypeOK
    /\ NewestInv
    /\ \A m \in Members : Follows(m) /\ GraceIsTouched(m)
    /\ \A w \in Workers : RequestOK(w)

\* With one worker, what the invariant says in terms of that worker.
LEMMA OneFollows ==
    ASSUME OneWorker, NEW w \in Workers, NEW m \in Members
    PROVE  /\ Follows(m) <=>
                 \/ Touched(m)
                 \/ membership[m].status = Said(m)
                 \/ WillTouch(job[w], m)
                 \/ /\ WillWrite(job[w], m)
                    /\ job[w].by \in {"line_item", "one_time_order"}
                 \/ /\ job[w].pc = "idle" /\ duty[w].step = "line_item"
                    /\ Buyer(duty[w].invoice) = m /\ lastWord[m] = "paid"
           /\ GraceIsTouched(m) <=>
                 (membership[m].status = "grace" => Touched(m) \/ WillTouch(job[w], m))
BY DEF OneWorker, Follows, GraceIsTouched

LEMMA FollowInit == OrdersInit => FollowInv
<1> SUFFICES ASSUME OrdersInit PROVE FollowInv
  OBVIOUS
<1>1. OrdersTypeOK /\ NewestInv
  BY OrdersTypeInit, NewestInit DEF OrdersInit
<1>2. \A m \in Members : Follows(m) /\ GraceIsTouched(m)
  BY DEF OrdersInit, Init, NoRow, Follows, GraceIsTouched, Said
<1>3. \A w \in Workers : RequestOK(w)
  BY DEF OrdersInit, Init, IdleJob, NoDuty, RequestOK, WillWrite
<1>4. QED
  BY <1>1, <1>2, <1>3 DEF FollowInv

\* Nothing takes back that a member was touched.
LEMMA TouchedStays ==
    ASSUME OrdersTypeOK, [OrdersNext]_<<vars, orderVars>>, NEW m \in Members, Touched(m)
    PROVE  Touched(m)'
<1>0. /\ datasets' \subseteq datasets
      /\ lost \subseteq lost'
      /\ \/ accessLog' = accessLog
         \/ \E e : accessLog' = Append(accessLog, e)
         \/ \E d \in Datasets : DeleteDataset(d)
  <2>1. lost \subseteq lost'
    BY DEF OrdersNext, OrderStep, CaptureFree, ActivateOrderLine, AnnouncePaid, CapturePayment,
           Refund, ReverseRefund, CreateOrder, MarkPaid, Elsewhere, FailJob, CrashRequest,
           Abandon, orderVars
  <2>2. TypeOK /\ [Next]_vars
    BY OrdersStepIsAccessStep DEF OrdersTypeOK
  <2>3. ASSUME NEW w \in Workers, SubscriptionEvent(w) \/ OrderEvent(w)
        PROVE  UNCHANGED <<datasets, accessLog>>
    BY <2>2, <2>3, EventIsHandle DEF Handle, TypeOK
  <2>4. \/ UNCHANGED <<datasets, accessLog>>
        \/ datasets' = datasets /\ \E e : accessLog' = Append(accessLog, e)
        \/ \E d \in Datasets : DeleteDataset(d)
    BY <2>2, <2>3 DEF Next, JobStep, RevokeExpiredGraceAccess, Find, Commit, Log, Fail, Crash,
                      CatalogueChange, SetTariffPlanLink, DayPasses, vars
  <2>5. QED
    BY <2>1, <2>4 DEF DeleteDataset
<1>1. accessLog \in Seq(LogEntry) /\ DOMAIN accessLog = 1..Len(accessLog) /\ Len(accessLog) \in Nat
  BY DEF OrdersTypeOK, TypeOK
<1>2. CASE ~Exists(m) \/ m \in lost
  BY <1>0, <1>2 DEF Touched, Exists
<1>3. CASE \E i \in DOMAIN accessLog : /\ About(accessLog[i], m)
                                       /\ accessLog[i].triggered_by = "subscription_event"
  <2>1. CASE accessLog' = accessLog
    BY <1>3, <2>1 DEF Touched, About
  <2>2. ASSUME NEW e, accessLog' = Append(accessLog, e)
        PROVE  Touched(m)'
    <3>1. /\ DOMAIN accessLog \subseteq DOMAIN accessLog'
          /\ \A i \in DOMAIN accessLog : accessLog'[i] = accessLog[i]
      BY <1>1, <2>2
    <3>2. QED
      BY <1>3, <3>1 DEF Touched, About
  <2>3. ASSUME NEW d \in Datasets, DeleteDataset(d)
        PROVE  Touched(m)'
    <3>1. CASE m[2] = d
      BY <2>3, <3>1 DEF DeleteDataset, Touched, Exists
    <3>2. CASE m[2] # d
      <4>1. DOMAIN accessLog' = DOMAIN accessLog
        BY <2>3 DEF DeleteDataset
      <4>2. \A i \in DOMAIN accessLog : About(accessLog[i], m) => accessLog'[i] = accessLog[i]
        BY <2>3, <3>2 DEF DeleteDataset, About
      <4>3. QED
        BY <1>3, <4>1, <4>2 DEF Touched, About
    <3>3. QED BY <3>1, <3>2
  <2>4. QED BY <1>0, <2>1, <2>2, <2>3
<1>4. QED BY <1>2, <1>3 DEF Touched

\* What must be shown of a step of the one worker.
FollowStepGoal(w) ==
    /\ \A m \in Members : Follows(m)' /\ GraceIsTouched(m)'
    /\ RequestOK(w)'

\* The worker starts a job: for an order, as the last word asks; or another.
LEMMA FollowStart ==
    ASSUME OneWorker, FollowInv, [OrdersNext]_<<vars, orderVars>>, NEW w \in Workers,
           NEW op \in Op, NEW by \in Trigger, NEW days \in Nat, NEW members \in SUBSET Members,
           Handle(w, op, by, days, members),
           duty'[w].step \in {"none", "invoice_paid"},
           duty'[w].step = "invoice_paid" => lastWord'[Buyer(duty[w].invoice)'] = "paid",
           op = "grace_started" => by = "subscription_event",
           by # "scheduler",
           by \in {"line_item", "one_time_order"} => \A m \in members : StatusOf(op) = Said(m)',
           \A m \in Members :
              \/ m \in members /\ by \in {"line_item", "one_time_order"}
              \/ /\ lastWord'[m] = lastWord[m]
                 /\ ~(duty[w].step = "line_item" /\ Buyer(duty[w].invoice) = m)
    PROVE  FollowStepGoal(w)
<1> DEFINE j == [IdleJob EXCEPT !.pc = "find", !.op = op, !.by = by,
                                  !.days = days, !.todo = members]
<1>1. /\ job[w].pc = "idle" /\ job'[w] = j /\ membership' = membership
      /\ OrdersTypeOK
  BY DEF Handle, FollowInv, OrdersTypeOK, TypeOK
<1>2. j.pc = "find" /\ j.op = op /\ j.by = by /\ j.todo = members
  BY DEF IdleJob
<1> HIDE DEF j
<1>3. \A m \in Members : /\ ~WillWrite(job[w], m) /\ ~WillTouch(job[w], m)
                         /\ WillWrite(job[w], m)' <=> m \in members
  BY <1>1, <1>2 DEF WillWrite, WillTouch
<1>4. \A m \in Members : Touched(m) => Touched(m)'
  BY <1>1, TouchedStays
<1>5. ASSUME NEW m \in Members
      PROVE  Follows(m)' /\ GraceIsTouched(m)'
  <2>1. Follows(m) /\ GraceIsTouched(m)
    BY DEF FollowInv
  <2>2. GraceIsTouched(m)'
    <3>1. membership[m].status = "grace" => Touched(m)
      BY <1>3, <2>1, OneFollows
    <3>2. membership'[m].status = "grace" => Touched(m)'
      BY <1>1, <1>4, <3>1
    <3>3. QED
      BY <3>2 DEF GraceIsTouched
  <2>3. CASE m \in members /\ by \in {"line_item", "one_time_order"}
    BY <1>1, <1>2, <1>3, <2>2, <2>3 DEF Follows
  <2>4. CASE /\ lastWord'[m] = lastWord[m]
             /\ ~(duty[w].step = "line_item" /\ Buyer(duty[w].invoice) = m)
    <3>1. Touched(m) \/ membership[m].status = Said(m)
      BY <1>3, <2>1, <2>4, OneFollows
    <3>2. Touched(m)' \/ membership'[m].status = Said(m)'
      BY <1>1, <1>4, <2>4, <3>1 DEF Said
    <3>3. QED
      BY <2>2, <3>2 DEF Follows
  <2>5. QED BY <2>2, <2>3, <2>4
<1>6. RequestOK(w)'
  BY <1>1, <1>2, <1>3 DEF RequestOK
<1>7. QED
  BY <1>5, <1>6 DEF FollowStepGoal

\* A step that starts no job and leaves rows and words alone, except that the
\* members it concerns are touched.
LEMMA FollowQuiet ==
    ASSUME OneWorker, FollowInv, [OrdersNext]_<<vars, orderVars>>, NEW w \in Workers,
           UNCHANGED <<membership, lastWord>>,
           RequestOK(w)',
           \A m \in Members : Follows(m) /\ ~Touched(m) /\ membership[m].status # Said(m) => Follows(m)',
           \A m \in Members : WillTouch(job[w], m) => WillTouch(job[w], m)' \/ Touched(m)'
    PROVE  FollowStepGoal(w)
<1>1. OrdersTypeOK
  BY DEF FollowInv
<1>2. \A m \in Members : Touched(m) => Touched(m)'
  BY <1>1, TouchedStays
<1>3. ASSUME NEW m \in Members
      PROVE  Follows(m)' /\ GraceIsTouched(m)'
  <2>1. Follows(m) /\ GraceIsTouched(m)
    BY DEF FollowInv
  <2>2. GraceIsTouched(m)'
    BY <1>2, <2>1, OneFollows DEF GraceIsTouched
  <2>3. Touched(m) \/ membership[m].status = Said(m) => Follows(m)'
    BY <1>2 DEF Follows, Said
  <2>4. QED BY <2>1, <2>2, <2>3
<1>4. QED
  BY <1>3 DEF FollowStepGoal

LEMMA FollowOrderStep ==
    ASSUME OneWorker, FollowInv, NEW w \in Workers, OrderStep(w)
    PROVE  FollowStepGoal(w)
<1>0. /\ OrdersTypeOK /\ RequestOK(w) /\ [OrdersNext]_<<vars, orderVars>>
      /\ duty \in [Workers -> Duty] /\ invoice \in [Invoices -> Invoice]
      /\ lastWord \in [Members -> {"none", "paid", "refunded"}]
      /\ {m \in Members : TRUE} = Members
  BY DEF FollowInv, OrdersTypeOK, OrdersNext
<1>1. ASSUME NEW i \in Invoices, MarkPaid(w, i),
             job[w].pc = "idle", duty[w].step \in {"none", "capture"}
      PROVE  FollowStepGoal(w)
  <2>1. PICK b \in Members : b = Buyer(i)
    BY <1>0, <1>1 DEF MarkPaid, OrdersTypeOK
  <2>2. /\ UNCHANGED vars
        /\ duty'[w].step = "line_item" /\ duty'[w].invoice = i /\ Buyer(i)' = b
        /\ lastWord'[b] = "paid"
        /\ \A m \in Members : m # b => lastWord'[m] = lastWord[m]
    BY <1>0, <1>1, <2>1 DEF MarkPaid, Buyer
  <2>3. UNCHANGED <<membership, job>>
    BY <2>2 DEF vars
  <2>4. \A m \in Members : ~WillWrite(job[w], m) /\ ~WillTouch(job[w], m)
    BY <1>1 DEF WillWrite, WillTouch
  <2>5. \A m \in Members : Touched(m) => Touched(m)'
    BY <1>0, TouchedStays
  <2>6. ASSUME NEW m \in Members
        PROVE  Follows(m)' /\ GraceIsTouched(m)'
    <3>1. Follows(m) /\ GraceIsTouched(m)
      BY DEF FollowInv
    <3>2. Touched(m) \/ membership[m].status = Said(m)
      BY <1>1, <2>4, <3>1, OneFollows
    <3>3. GraceIsTouched(m)'
      <4>1. membership[m].status = "grace" => Touched(m)
        BY <2>4, <3>1, OneFollows
      <4>2. membership'[m].status = "grace" => Touched(m)'
        BY <2>3, <2>5, <4>1
      <4>3. QED
        BY <4>2 DEF GraceIsTouched
    <3>4. CASE m = b
      <4>1. /\ job'[w].pc = "idle" /\ duty'[w].step = "line_item"
            /\ Buyer(duty[w].invoice)' = m /\ lastWord'[m] = "paid"
        BY <1>1, <2>2, <2>3, <3>4 DEF Buyer
      <4>2. QED
        BY <3>3, <4>1 DEF Follows
    <3>5. CASE m # b
      <4>1. Touched(m)' \/ membership'[m].status = Said(m)'
        BY <2>2, <2>3, <2>5, <3>2, <3>5 DEF Said
      <4>2. QED
        BY <3>3, <4>1 DEF Follows
    <3>6. QED BY <3>3, <3>4, <3>5
  <2>7. RequestOK(w)'
    <3>1. lastWord'[Buyer(duty[w].invoice)'] = "paid"
      BY <2>2
    <3>2. job'[w] = job[w] /\ ~\E m \in Members : WillWrite(job[w], m)'
      BY <2>3, <2>4 DEF WillWrite
    <3>3. QED
      BY <1>0, <1>1, <2>2, <3>1, <3>2 DEF RequestOK
  <2>8. QED
    BY <2>6, <2>7 DEF FollowStepGoal
<1>2. CASE CaptureFree(w)
  <2>1. PICK i \in Invoices : i = duty[w].invoice
    BY <1>0, <1>2, DutyHasBuyer DEF CaptureFree, NoDuty
  <2>2. MarkPaid(w, i) /\ duty[w].step = "capture"
    BY <1>2, <2>1 DEF CaptureFree, MarkPaid, Buyer
  <2>3. job[w].pc = "idle"
    BY <1>0, <2>2 DEF RequestOK
  <2>4. QED BY <1>1, <2>2, <2>3
<1>3. ASSUME NEW i \in Invoices, CapturePayment(w, i)
      PROVE  FollowStepGoal(w)
  BY <1>1, <1>3 DEF CapturePayment, Free, NoDuty
<1>4. CASE ActivateOrderLine(w)
  <2>1. PICK b \in Members : b = Buyer(duty[w].invoice)
    BY <1>0, <1>4, DutyHasBuyer DEF ActivateOrderLine, NoDuty
  <2>2. /\ Handle(w, "grant", "line_item", 0, {b})
        /\ duty[w].step = "line_item" /\ duty'[w].step = "invoice_paid"
        /\ duty'[w].invoice = duty[w].invoice
        /\ UNCHANGED <<invoice, lastWord>>
    BY <1>0, <1>4, <2>1 DEF ActivateOrderLine, ActivateLineItem, Handle, Duty
  <2>3. lastWord[b] = "paid"
    BY <1>0, <2>1, <2>2 DEF RequestOK
  <2>4. Buyer(duty[w].invoice)' = b
    BY <2>1, <2>2 DEF Buyer
  <2>5. StatusOf("grant") = Said(b)' /\ "grant" \in Op /\ "line_item" \in Trigger
    BY <2>2, <2>3 DEF StatusOf, Said, Op, Trigger
  <2>6. QED
    BY <1>0, <2>1, <2>2, <2>3, <2>4, <2>5, FollowStart
<1>5. CASE AnnouncePaid(w)
  <2>1. PICK b \in Members : b = Buyer(duty[w].invoice)
    BY <1>0, <1>5, DutyHasBuyer DEF AnnouncePaid, NoDuty
  <2>2. /\ Handle(w, "grant", "one_time_order", 0, {b})
        /\ duty[w].step = "invoice_paid" /\ duty'[w].step = "none"
        /\ UNCHANGED <<invoice, lastWord>>
    BY <1>0, <1>5, <2>1 DEF AnnouncePaid, OnInvoicePaid, Handle, NoDuty
  <2>3. lastWord[b] = "paid"
    BY <1>0, <2>1, <2>2 DEF RequestOK
  <2>4. StatusOf("grant") = Said(b)' /\ "grant" \in Op /\ "one_time_order" \in Trigger
    BY <2>2, <2>3 DEF StatusOf, Said, Op, Trigger
  <2>5. QED
    BY <1>0, <2>2, <2>4, FollowStart
<1>6. ASSUME NEW i \in Invoices, Refund(w, i)
      PROVE  FollowStepGoal(w)
  <2>1. PICK b \in Members : b = Buyer(i)
    BY <1>0, <1>6 DEF Refund, OrdersTypeOK
  <2>2. /\ Handle(w, "revoke", "line_item", 0, {b})
        /\ duty[w].step = "none" /\ duty'[w].step = "none"
        /\ lastWord' = [lastWord EXCEPT ![b] = "refunded"]
    BY <1>6, <2>1 DEF Refund, ReverseLineItem, Handle, Free, NoDuty
  <2>3. StatusOf("revoke") = Said(b)' /\ "revoke" \in Op /\ "line_item" \in Trigger
    BY <1>0, <2>2 DEF StatusOf, Said, Op, Trigger
  <2>4. \A m \in Members : m # b => lastWord'[m] = lastWord[m]
    BY <1>0, <2>2
  <2>5. QED
    BY <1>0, <2>2, <2>3, <2>4, FollowStart
<1>7. ASSUME NEW i \in Invoices, ReverseRefund(w, i)
      PROVE  FollowStepGoal(w)
  <2>1. PICK b \in Members : b = Buyer(i)
    BY <1>0, <1>7 DEF ReverseRefund, OrdersTypeOK
  <2>2. /\ Handle(w, "restore", "line_item", 0, {b})
        /\ duty[w].step = "none" /\ duty'[w].step = "none"
        /\ lastWord' = [lastWord EXCEPT ![b] = "paid"]
    BY <1>7, <2>1 DEF ReverseRefund, RestoreLineItem, Handle, Free, NoDuty
  <2>3. StatusOf("restore") = Said(b)' /\ "restore" \in Op /\ "line_item" \in Trigger
    BY <1>0, <2>2 DEF StatusOf, Said, Op, Trigger
  <2>4. \A m \in Members : m # b => lastWord'[m] = lastWord[m]
    BY <1>0, <2>2
  <2>5. QED
    BY <1>0, <2>2, <2>3, <2>4, FollowStart
<1>8. ASSUME NEW i \in Invoices, NEW m \in Members, NEW price \in {"free", "funded"},
             CreateOrder(w, i, m, price)
      PROVE  FollowStepGoal(w)
  <2>1. /\ UNCHANGED <<membership, job, accessLog, datasets, lost, lastWord>>
        /\ job[w].pc = "idle" /\ duty[w].step = "none"
        /\ duty'[w].step \in {"none", "capture"}
    BY <1>0, <1>8 DEF CreateOrder, Free, NoDuty, vars
  <2>2. \A x \in Members : ~WillWrite(job[w], x) /\ ~WillTouch(job[w], x)
    BY <2>1 DEF WillWrite, WillTouch
  <2>3. RequestOK(w)'
    BY <1>0, <2>1, <2>2 DEF RequestOK, WillWrite
  <2>4. ASSUME NEW x \in Members, Follows(x), ~Touched(x), membership[x].status # Said(x)
        PROVE  FALSE
    BY <2>1, <2>2, <2>4, OneFollows
  <2>5. QED
    BY <1>0, <2>1, <2>2, <2>3, <2>4, FollowQuiet
<1>9. QED
  BY <1>2, <1>3, <1>4, <1>5, <1>6, <1>7, <1>8 DEF OrderStep

LEMMA SubscriptionEventStarts ==
    ASSUME NEW w \in Workers, SubscriptionEvent(w)
    PROVE  \E op \in Op, days \in Nat, members \in SUBSET Members :
              Handle(w, op, "subscription_event", days, members)
<1>1. PICK u \in Users, p \in Plans :
         \/ OnSubscriptionActivated(w, u, p)
         \/ OnSubscriptionRenewed(w, u, p)
         \/ \E t \in TrailingDays : OnSubscriptionCancelled(w, u, p, t)
  BY DEF SubscriptionEvent, OnSubscriptionPaymentFailed
<1>2. PlanMembers(u, p) \in SUBSET Members
  BY DEF PlanMembers
<1>3. Handle(w, "grant", "subscription_event", 0, PlanMembers(u, p))
         \/ Handle(w, "restore", "subscription_event", 0, PlanMembers(u, p))
         \/ \E t \in TrailingDays :
               Handle(w, "grace_started", "subscription_event", GraceDays(t), PlanMembers(u, p))
  BY <1>1 DEF OnSubscriptionActivated, OnSubscriptionRenewed, OnSubscriptionCancelled
<1>4. QED
  BY <1>2, <1>3, GraceDaysType DEF Op

LEMMA FollowElsewhere ==
    ASSUME OneWorker, FollowInv, NEW w \in Workers, Elsewhere(w)
    PROVE  FollowStepGoal(w)
<1>0. /\ OrdersTypeOK /\ TypeOK /\ RequestOK(w) /\ [OrdersNext]_<<vars, orderVars>>
      /\ job[w] \in Job /\ job \in [Workers -> Job]
      /\ UNCHANGED <<invoice, duty, lastWord, lost>>
  BY DEF FollowInv, OrdersTypeOK, TypeOK, OrdersNext, Elsewhere, orderVars
<1>00. \A m \in Members : Touched(m) => Touched(m)'
  BY <1>0, TouchedStays
<1>1. CASE Free(w) /\ SubscriptionEvent(w)
  <2>1. PICK op \in Op, days \in Nat, members \in SUBSET Members :
           Handle(w, op, "subscription_event", days, members)
    BY <1>1, SubscriptionEventStarts
  <2>2. duty[w].step = "none" /\ "subscription_event" \in Trigger
    BY <1>1 DEF Free, NoDuty, Trigger
  <2>3. QED
    BY <1>0, <2>1, <2>2, FollowStart
<1>2. CASE Free(w) /\ RevokeExpiredGraceAccess(w)
  <2> DEFINE expired == {m \in Members : Expired(m)}
  <2>1. PICK first \in expired :
           job'[w] = [IdleJob EXCEPT !.pc = "commit", !.op = "revoke", !.by = "scheduler",
                        !.todo = expired \ {first}, !.target = first, !.seen = membership[first]]
    BY <1>0, <1>2 DEF RevokeExpiredGraceAccess
  <2>2. /\ job'[w].pc = "commit" /\ job'[w].op = "revoke" /\ job'[w].by = "scheduler"
        /\ job'[w].todo = expired \ {first} /\ job'[w].target = first
    BY <2>1 DEF IdleJob
  <2>3. /\ job[w].pc = "idle" /\ duty[w].step = "none" /\ membership' = membership
    BY <1>2 DEF Free, NoDuty, RevokeExpiredGraceAccess
  <2>4. \A x \in Members : ~WillWrite(job[w], x) /\ ~WillTouch(job[w], x)
    BY <2>3 DEF WillWrite, WillTouch
  <2>5. ASSUME NEW m \in Members, Expired(m)
        PROVE  Touched(m)'
    <3>1. membership[m].status = "grace" /\ GraceIsTouched(m)
      BY <2>5 DEF Expired, FollowInv
    <3>2. QED
      BY <1>00, <2>4, <3>1, OneFollows
  <2>6. \A m \in Members : WillWrite(job[w], m)' => Touched(m)'
    BY <2>2, <2>5 DEF WillWrite
  <2>7. RequestOK(w)'
    BY <1>0, <2>2, <2>3, <2>6 DEF RequestOK
  <2>8. ASSUME NEW x \in Members, Follows(x), ~Touched(x), membership[x].status # Said(x)
        PROVE  FALSE
    BY <2>3, <2>4, <2>8, OneFollows
  <2>9. QED
    BY <1>0, <2>3, <2>4, <2>7, <2>8, FollowQuiet
<1>3. CASE Find(w)
  <2>1. PICK t \in job[w].todo :
           job'[w] = [job[w] EXCEPT !.pc = "commit",
                     !.todo = job[w].todo \ {t}, !.target = t, !.seen = membership[t],
                     !.until = IF job[w].op = "grace_started"
                               THEN clock + job[w].days ELSE NoExpiry]
    BY <1>0, <1>3 DEF Find
  <2>2. /\ job'[w].op = job[w].op /\ job'[w].by = job[w].by /\ job'[w].pc = "commit"
        /\ job'[w].todo = job[w].todo \ {t} /\ job'[w].target = t
        /\ job[w].pc = "find" /\ membership' = membership
    BY <1>0, <1>3, <2>1 DEF Job, Find
  <2>3. \A m \in Members : /\ WillWrite(job[w], m)' <=> WillWrite(job[w], m)
                           /\ WillTouch(job[w], m) => WillTouch(job[w], m)'
    BY <2>2 DEF WillWrite, WillTouch
  <2>4. \A m \in Members : Said(m)' = Said(m)
    BY <1>0 DEF Said
  <2>5. RequestOK(w)'
    BY <1>0, <1>00, <2>2, <2>3, <2>4 DEF RequestOK, Buyer
  <2>6. ASSUME NEW m \in Members, Follows(m), ~Touched(m), membership[m].status # Said(m)
        PROVE  Follows(m)'
    <3>1. \/ WillTouch(job[w], m)'
          \/ WillWrite(job[w], m)' /\ job'[w].by \in {"line_item", "one_time_order"}
      BY <2>2, <2>3, <2>6, OneFollows
    <3>2. QED
      BY <3>1 DEF Follows
  <2>7. QED
    BY <1>0, <2>2, <2>3, <2>5, <2>6, FollowQuiet
<1>4. CASE Commit(w)
  <2> DEFINE j == job[w]
  <2>1. PICK t \in Members : t = j.target
    BY <1>0, <1>4 DEF Commit, TypeOK
  <2>2. /\ j.pc = "commit" /\ Exists(t)
        /\ membership' = [membership EXCEPT ![t] = Written(j, membership[t])]
        /\ job'[w] = [j EXCEPT !.pc = "log"]
    BY <1>0, <1>4, <2>1 DEF Commit, Refused
  <2>3. j.seen = membership[t] /\ membership[t] \in Row
    BY <1>0, <2>1, <2>2 DEF FollowInv, NewestInv, KnowsRow, TypeOK
  <2>4. /\ membership'[t].status = StatusOf(j.op)
        /\ \A m \in Members : m # t => membership'[m] = membership[m]
    BY <1>0, <2>2, <2>3, WrittenOnSeen DEF TypeOK
  <2>5. /\ job'[w].op = j.op /\ job'[w].by = j.by /\ job'[w].pc = "log"
        /\ job'[w].todo = j.todo /\ job'[w].target = t
    BY <1>0, <2>1, <2>2 DEF Job
  <2>6. \A m \in Members :
           /\ WillWrite(j, m) => WillWrite(job[w], m)' \/ m = t
           /\ WillWrite(job[w], m)' => WillWrite(j, m)
           /\ WillTouch(j, m) => WillTouch(job[w], m)'
           /\ WillWrite(j, t)
    BY <2>1, <2>2, <2>5 DEF WillWrite, WillTouch
  <2>7. \A m \in Members : Said(m)' = Said(m)
    BY <1>0 DEF Said
  <2>8. RequestOK(w)'
    BY <1>0, <1>00, <2>2, <2>5, <2>6, <2>7 DEF RequestOK, Buyer
  <2>9. ASSUME NEW m \in Members
        PROVE  Follows(m)' /\ GraceIsTouched(m)'
    <3>1. Follows(m) /\ GraceIsTouched(m)
      BY DEF FollowInv
    <3>2. CASE Touched(m) \/ WillTouch(j, m)
      <4>1. Touched(m)' \/ WillTouch(job[w], m)'
        BY <1>00, <2>6, <3>2
      <4>2. QED
        BY <4>1 DEF Follows, GraceIsTouched
    <3>3. CASE ~Touched(m) /\ ~WillTouch(j, m) /\ m = t
      <4>1. j.by # "subscription_event" /\ j.by # "scheduler"
        BY <1>0, <2>6, <3>3 DEF WillTouch, RequestOK
      <4>2. j.by \in {"line_item", "one_time_order"}
        BY <1>0, <4>1 DEF Job, Trigger
      <4>3. membership'[m].status = Said(m)' /\ j.op # "grace_started"
        BY <1>0, <2>4, <2>6, <2>7, <3>3, <4>1, <4>2 DEF RequestOK
      <4>4. membership'[m].status # "grace"
        BY <1>0, <2>4, <3>3, <4>3 DEF StatusOf
      <4>5. QED
        BY <4>3, <4>4 DEF Follows, GraceIsTouched
    <3>4. CASE ~Touched(m) /\ ~WillTouch(j, m) /\ m # t
      <4>1. \/ membership[m].status = Said(m)
            \/ WillWrite(j, m) /\ j.by \in {"line_item", "one_time_order"}
        BY <2>2, <3>1, <3>4, OneFollows
      <4>2. \/ membership'[m].status = Said(m)'
            \/ WillWrite(job[w], m)' /\ job'[w].by \in {"line_item", "one_time_order"}
        BY <2>4, <2>5, <2>6, <2>7, <3>4, <4>1
      <4>3. membership'[m].status # "grace"
        BY <2>4, <3>1, <3>4, OneFollows
      <4>4. QED
        BY <4>2, <4>3 DEF Follows, GraceIsTouched
    <3>5. QED
      BY <3>2, <3>3, <3>4
  <2>10. QED
    BY <2>8, <2>9 DEF FollowStepGoal
<1>5. CASE Log(w)
  <2> DEFINE j     == job[w]
             entry == [user |-> j.target[1], dataset |-> j.target[2],
                       action |-> j.op, triggered_by |-> j.by]
  <2>1. /\ j.pc = "log" /\ j.target \in Members
        /\ accessLog' = Append(accessLog, entry) /\ accessLog \in Seq(LogEntry)
        /\ job'[w] = IF j.todo = {} THEN IdleJob ELSE [j EXCEPT !.pc = "find"]
        /\ membership' = membership
    BY <1>0, <1>5 DEF Log, TypeOK
  <2>2. CASE j.todo = {}
    <3>1. job'[w].pc = "idle" /\ job'[w].by = "scheduler" /\ job'[w].op = "grant"
      BY <2>1, <2>2 DEF IdleJob
    <3>2. \A m \in Members : ~WillWrite(job[w], m)' /\ ~WillWrite(j, m)
      BY <2>1, <2>2, <3>1 DEF WillWrite
    <3>3. ASSUME NEW m \in Members, WillTouch(j, m)
          PROVE  Touched(m)'
      <4>1. j.by = "subscription_event" /\ j.target = m
        BY <3>2, <3>3 DEF WillTouch
      <4>2. /\ Len(accessLog) + 1 \in DOMAIN accessLog'
            /\ accessLog'[Len(accessLog) + 1] = entry
        BY <2>1
      <4>3. About(entry, m) /\ entry.triggered_by = "subscription_event"
        BY <4>1 DEF About
      <4>4. QED
        BY <4>2, <4>3 DEF Touched, About
    <3>4. RequestOK(w)'
      BY <1>0, <2>1, <3>1, <3>2 DEF RequestOK, Buyer
    <3>5. ASSUME NEW m \in Members, Follows(m), ~Touched(m), membership[m].status # Said(m)
          PROVE  Follows(m)'
      <4>1. WillTouch(j, m)
        BY <2>1, <3>2, <3>5, OneFollows
      <4>2. QED
        BY <3>3, <4>1 DEF Follows
    <3>6. QED
      BY <1>0, <2>1, <3>3, <3>4, <3>5, FollowQuiet
  <2>3. CASE j.todo # {}
    <3>1. /\ job'[w].pc = "find" /\ job'[w].by = j.by /\ job'[w].op = j.op
          /\ job'[w].todo = j.todo
      BY <1>0, <2>1, <2>3 DEF Job
    <3>2. \A m \in Members : WillWrite(job[w], m)' <=> WillWrite(j, m)
      BY <2>1, <3>1 DEF WillWrite
    <3>3. ASSUME NEW m \in Members, WillTouch(j, m)
          PROVE  WillTouch(job[w], m)' \/ Touched(m)'
      <4>1. CASE WillWrite(j, m)
        BY <3>1, <3>2, <3>3, <4>1 DEF WillTouch
      <4>2. CASE ~WillWrite(j, m)
        <5>1. j.by = "subscription_event" /\ j.target = m
          BY <3>3, <4>2 DEF WillTouch
        <5>2. /\ Len(accessLog) + 1 \in DOMAIN accessLog'
              /\ accessLog'[Len(accessLog) + 1] = entry
          BY <2>1
        <5>3. About(entry, m) /\ entry.triggered_by = "subscription_event"
          BY <5>1 DEF About
        <5>4. QED
          BY <5>2, <5>3 DEF Touched, About
      <4>3. QED BY <4>1, <4>2
    <3>4. RequestOK(w)'
      <4>1. \A m \in Members : Said(m)' = Said(m)
        BY <1>0 DEF Said
      <4>2. QED
        BY <1>0, <1>00, <2>1, <3>1, <3>2, <4>1 DEF RequestOK, Buyer
    <3>5. ASSUME NEW m \in Members, Follows(m), ~Touched(m), membership[m].status # Said(m)
          PROVE  Follows(m)'
      <4>1. \/ WillTouch(j, m)
            \/ WillWrite(j, m) /\ j.by \in {"line_item", "one_time_order"}
        BY <2>1, <3>5, OneFollows
      <4>2. \/ Touched(m)'
            \/ WillTouch(job[w], m)'
            \/ WillWrite(job[w], m)' /\ job'[w].by \in {"line_item", "one_time_order"}
        BY <3>1, <3>2, <3>3, <4>1
      <4>3. QED
        BY <4>2 DEF Follows
    <3>6. QED
      BY <1>0, <2>1, <3>3, <3>4, <3>5, FollowQuiet
  <2>4. QED BY <2>2, <2>3
<1>6. QED
  BY <1>1, <1>2, <1>3, <1>4, <1>5 DEF Elsewhere

\* The request fails or dies: the members it was about are lost.
LEMMA FollowLost ==
    ASSUME OneWorker, FollowInv, NEW w \in Workers,
           FailJob(w) \/ CrashRequest(w) \/ Abandon(w)
    PROVE  FollowStepGoal(w)
<1>0. /\ OrdersTypeOK /\ TypeOK /\ RequestOK(w) /\ [OrdersNext]_<<vars, orderVars>>
      /\ job[w] \in Job /\ job \in [Workers -> Job] /\ duty \in [Workers -> Duty]
      /\ UNCHANGED <<invoice, lastWord>>
  BY DEF FollowInv, OrdersTypeOK, TypeOK, OrdersNext, FailJob, CrashRequest, Abandon
<1>1. CASE FailJob(w) \/ CrashRequest(w)
  <2>1. /\ job[w].pc # "idle" /\ job'[w] = IdleJob /\ membership' = membership
        /\ InJob(w) \subseteq lost'
        /\ duty'[w] \in {duty[w], NoDuty}
    BY <1>0, <1>1 DEF FailJob, CrashRequest, Fail, Crash
  <2>2. \A m \in Members : WillWrite(job[w], m) \/ WillTouch(job[w], m) => Touched(m)'
    <3>1. \A m \in Members : WillWrite(job[w], m) \/ WillTouch(job[w], m) => m \in InJob(w)
      BY <2>1, ConstantsAssumption DEF WillWrite, WillTouch, InJob
    <3>2. QED
      BY <2>1, <3>1 DEF Touched
  <2>3. job'[w].pc = "idle" /\ job'[w].by = "scheduler" /\ job'[w].op = "grant"
    BY <2>1 DEF IdleJob
  <2>4. RequestOK(w)'
    <3>1. duty'[w].step \in {"line_item", "invoice_paid"} => duty'[w] = duty[w]
      BY <2>1 DEF NoDuty
    <3>2. ~\E m \in Members : WillWrite(job[w], m)'
      BY <2>3 DEF WillWrite
    <3>3. QED
      BY <1>0, <2>3, <3>1, <3>2 DEF RequestOK, Buyer
  <2>5. ASSUME NEW m \in Members, Follows(m), ~Touched(m), membership[m].status # Said(m)
        PROVE  Follows(m)'
    <3>1. WillTouch(job[w], m) \/ WillWrite(job[w], m)
      BY <2>1, <2>5, OneFollows
    <3>2. QED
      BY <2>2, <3>1 DEF Follows
  <2>6. QED
    BY <1>0, <2>1, <2>2, <2>4, <2>5, FollowQuiet
<1>2. CASE Abandon(w)
  <2>1. /\ UNCHANGED vars /\ job[w].pc = "idle"
        /\ InDuty(w) = {Buyer(duty[w].invoice)}
        /\ InDuty(w) \subseteq lost'
        /\ duty'[w].step = "none"
    BY <1>0, <1>2 DEF Abandon, InDuty, NoDuty
  <2>2. UNCHANGED <<membership, job>>
    BY <2>1 DEF vars
  <2>3. \A m \in Members : ~WillWrite(job[w], m) /\ ~WillTouch(job[w], m)
    BY <2>1 DEF WillWrite, WillTouch
  <2>4. RequestOK(w)'
    <3>1. ~\E m \in Members : WillWrite(job[w], m)'
      BY <2>2, <2>3 DEF WillWrite
    <3>2. QED
      BY <1>0, <2>1, <2>2, <3>1 DEF RequestOK
  <2>5. ASSUME NEW m \in Members, Follows(m), ~Touched(m), membership[m].status # Said(m)
        PROVE  Follows(m)'
    <3>1. Buyer(duty[w].invoice) = m
      BY <2>3, <2>5, OneFollows
    <3>2. Touched(m)'
      BY <2>1, <3>1 DEF Touched
    <3>3. QED
      BY <3>2 DEF Follows
  <2>6. QED
    BY <1>0, <2>2, <2>3, <2>4, <2>5, FollowQuiet
<1>3. QED
  BY <1>1, <1>2

\* The catalogue and the clock move under the worker.
LEMMA FollowCatalogue ==
    ASSUME FollowInv, [OrdersNext]_<<vars, orderVars>>, UNCHANGED orderVars,
           CatalogueChange \/ DayPasses \/ UNCHANGED vars
    PROVE  /\ \A m \in Members : Follows(m)' /\ GraceIsTouched(m)'
           /\ \A w \in Workers : RequestOK(w)'
<1>0. OrdersTypeOK /\ TypeOK
  BY DEF FollowInv, OrdersTypeOK
<1>1. /\ UNCHANGED <<job, invoice, duty, lastWord>>
      /\ \A m \in Members : membership'[m] = membership[m] \/ Touched(m)'
  <2>1. ASSUME NEW d \in Datasets, DeleteDataset(d)
        PROVE  job' = job /\ \A m \in Members : membership'[m] = membership[m] \/ Touched(m)'
    BY <2>1 DEF DeleteDataset, Touched, Exists
  <2>2. QED
    BY <2>1 DEF CatalogueChange, SetTariffPlanLink, DayPasses, vars, orderVars
<1>2. \A m \in Members : Touched(m) => Touched(m)'
  BY <1>0, TouchedStays
<1>3. \A m \in Members, w \in Workers :
         /\ WillWrite(job[w], m)' <=> WillWrite(job[w], m)
         /\ WillTouch(job[w], m)' <=> WillTouch(job[w], m)
  BY <1>1 DEF WillWrite, WillTouch
<1>4. \A m \in Members : Said(m)' = Said(m)
  BY <1>1 DEF Said
<1>5. \A w \in Workers : Buyer(duty[w].invoice)' = Buyer(duty[w].invoice)
  BY <1>1 DEF Buyer
<1>6. ASSUME NEW m \in Members
      PROVE  Follows(m)' /\ GraceIsTouched(m)'
  <2>1. Follows(m) /\ GraceIsTouched(m)
    BY DEF FollowInv
  <2>2. CASE Touched(m)'
    BY <2>2 DEF Follows, GraceIsTouched
  <2>3. CASE membership'[m] = membership[m]
    <3>1. GraceIsTouched(m)'
      BY <1>2, <1>3, <2>1, <2>3 DEF GraceIsTouched
    <3>2. Follows(m)'
      BY <1>1, <1>2, <1>3, <1>4, <1>5, <2>1, <2>3 DEF Follows
    <3>3. QED BY <3>1, <3>2
  <2>4. QED BY <1>1, <2>2, <2>3
<1>7. ASSUME NEW w \in Workers
      PROVE  RequestOK(w)'
  <2>1. RequestOK(w)
    BY DEF FollowInv
  <2>2. QED
    BY <1>1, <1>2, <1>3, <1>4, <1>5, <2>1 DEF RequestOK
<1>8. QED
  BY <1>6, <1>7

LEMMA FollowStep ==
    ASSUME OneWorker
    PROVE  FollowInv /\ [OrdersNext]_<<vars, orderVars>> => FollowInv'
<1> SUFFICES ASSUME FollowInv, [OrdersNext]_<<vars, orderVars>> PROVE FollowInv'
  OBVIOUS
<1> DEFINE Goal == /\ \A m \in Members : Follows(m)' /\ GraceIsTouched(m)'
                   /\ \A w \in Workers : RequestOK(w)'
<1>1. OrdersTypeOK' /\ NewestInv'
  BY OrdersTypeStep, OrdersStepIsAccessStep, NewestStep DEF FollowInv
<1>2. ASSUME NEW w \in Workers, FollowStepGoal(w)
      PROVE  Goal
  BY <1>2 DEF FollowStepGoal, OneWorker
<1>3. ASSUME NEW w \in Workers,
             OrderStep(w) \/ Elsewhere(w) \/ FailJob(w) \/ CrashRequest(w) \/ Abandon(w)
      PROVE  Goal
  BY <1>2, <1>3, FollowOrderStep, FollowElsewhere, FollowLost
<1>4. ASSUME \/ (CatalogueChange \/ DayPasses) /\ UNCHANGED orderVars
             \/ UNCHANGED <<vars, orderVars>>
      PROVE  Goal
  BY <1>4, FollowCatalogue
<1>5. Goal
  BY <1>3, <1>4 DEF OrdersNext
<1>6. QED
  BY <1>1, <1>5 DEF FollowInv

\* With one worker a member's access says what was last done about the member's
\* orders, however captures, refunds, dying requests and subscription events mix,
\* as long as nothing of the member's was lost and no subscription had a part.
THEOREM OrdersDecideAccess ==
    ASSUME OneWorker
    PROVE  OrdersSpec => []AccessFollowsOrders
<1>1. FollowInv /\ [OrdersNext]_<<vars, orderVars>> => FollowInv'
  BY FollowStep
<1>2. FollowInv => AccessFollowsOrders
  <2> SUFFICES ASSUME FollowInv, NEW m \in Members, OrdersOnly(m)
               PROVE  membership[m].status = Said(m)
    BY DEF AccessFollowsOrders, Said
  <2>1. Follows(m) /\ ~Touched(m)
    BY DEF FollowInv, OrdersOnly, Touched
  <2>2. ASSUME NEW w \in Workers
        PROVE  ~WillWrite(job[w], m) /\ ~WillTouch(job[w], m)
    <3>1. m \notin InJob(w)
      BY DEF OrdersOnly
    <3>2. QED
      BY <3>1, ConstantsAssumption DEF InJob, WillWrite, WillTouch
  <2>3. ASSUME NEW w \in Workers, duty[w].step = "line_item"
        PROVE  Buyer(duty[w].invoice) # m
    <3>1. m \notin InDuty(w)
      BY DEF OrdersOnly
    <3>2. QED
      BY <2>3, <3>1 DEF InDuty, NoDuty
  <2>4. QED
    BY <2>1, <2>2, <2>3 DEF Follows
<1>3. QED
  BY <1>1, <1>2, FollowInit, PTL DEF OrdersSpec

=============================================================================
