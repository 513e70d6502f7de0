----------------------------- MODULE Forecourt -----------------------------
(***************************************************************************)
(* Shifts, nozzle assignments, sales, payments and one tank's book stock:  *)
(* ShiftService, SaleService and the stock movements of TankService.       *)
(*                                                                         *)
(* A session serves one request at a time.  Until its first INSERT or      *)
(* UPDATE it holds no lock at all: each query sees the newest committed    *)
(* data, and the objects it loaded keep their values (no autoflush, no     *)
(* expiry).  From the first write to the commit nobody else can write      *)
(* (module WriteLock).  So each query made before the first write is an    *)
(* action of its own, and the rest of the request is one action.           *)
(*                                                                         *)
(* On the Main PC api/lan/live.py lets one request at a time change a      *)
(* given record, named by the first two parts of the URL: Gated.           *)
(***************************************************************************)
EXTENDS Integers, Sequences, FiniteSets, FiniteSetsExt, Functions

CONSTANTS
    Session,         \* database sessions: one per request being served
    Shift,           \* shifts that may be opened: a date and a label each
    Nozzle, Employee,
    None,            \* no shift, nozzle or employee
    Gated,           \* ResourceVersions is installed: Main PC only
    Capacity,        \* of the tank all nozzles draw from
    OpeningStock,
    Enabled,         \* the kinds of request this instance serves
    MaxLitres,       \* bound: litres in one sale, movement or meter difference
    MaxAssignments,  \* bound: assignments ever made
    MaxSales,        \* bound: sales ever recorded
    MaxMovements     \* bound: tank transactions ever recorded

RequestKinds == {"open", "assign", "complete", "cancel assignment", "close",
                 "close desk", "reopen", "sell", "cancel sale", "payment",
                 "move stock"}

ASSUME ForecourtAssumption ==
    /\ None \notin Shift \cup Nozzle \cup Employee
    /\ Gated \in BOOLEAN
    /\ Capacity \in Nat
    /\ OpeningStock \in 0..Capacity
    /\ Enabled \subseteq RequestKinds
    /\ MaxLitres \in Nat \ {0}
    /\ MaxAssignments \in Nat
    /\ MaxSales \in Nat
    /\ MaxMovements \in Nat

VARIABLES
    shift,      \* status of each shift, "none" before it is opened
    assigned,   \* nozzle assignments, in the order they were made
    sales,      \* sales with their payment's status
    movements,  \* tank transactions
    stock,      \* Tank.current_stock
    request     \* what each session is doing and what it has read

data == <<shift, assigned, sales, movements, stock>>
vars == <<shift, assigned, sales, movements, stock, request>>

ShiftStates == {"none", "open", "closed"}
AssignmentStates == {"active", "completed", "cancelled"}
SaleStates == {"completed", "cancelled"}
PaymentStates == {"pending", "success", "failed", "refunded", "reversed"}
MovementTypes == {"receipt", "issue", "internal", "adjustment"}

Assignments == [shift : Shift, nozzle : Nozzle, employee : Employee,
                status : AssignmentStates, dispensed : Nat]
Sales == [receipt : Nat, shift : Shift, nozzle : Nozzle, employee : Employee,
          litres : Nat, status : SaleStates, payment : PaymentStates]
Movements == [type : MovementTypes, litres : Int, sale : Nat]

\* What a request does next.
Steps == {"idle", "open", "assign employee", "assign nozzle", "assign",
          "complete", "cancel assignment", "check active", "close", "reopen",
          "number sale", "sell", "read tank", "cancel sale", "fail payment",
          "refund payment", "move stock"}

\* The record a URL names: /api/<collection>/<id>; most POSTs to a whole
\* collection (a new shift, a new sale) name none.
NoResource == <<"none", 0>>
ShiftResources == {"shifts", "close-shift"} \X Shift
RowResources == {"shift-assignments", "sales", "payments"} \X Nat
Resources == ShiftResources \cup RowResources
             \cup {NoResource, <<"tanks", 0>>}

Requests == [step : Steps, resource : Resources, shift : Shift \cup {None},
             nozzle : Nozzle \cup {None}, employee : Employee \cup {None},
             row : Nat,           \* the assignment or sale it is about
             litres : Int,        \* what the user typed
             type : MovementTypes,
             payment : PaymentStates,
             number : Nat,        \* receipt number it has worked out
             seen : Int]          \* tank stock it has read

Idle == [step |-> "idle", resource |-> NoResource, shift |-> None,
         nozzle |-> None, employee |-> None, row |-> 0, litres |-> 0,
         type |-> "issue", payment |-> "pending", number |-> 0, seen |-> 0]

AssigningSteps == {"assign employee", "assign nozzle", "assign"}
SellingSteps == {"number sale", "sell"}
ShiftSteps == {"open", "check active", "close", "reopen"}
AssignmentSteps == {"complete", "cancel assignment"}
SaleRowSteps == {"read tank", "cancel sale", "fail payment", "refund payment"}

\* What a request has read and was told fits what it does next.
WellFormed(r) ==
    /\ r.step \in ShiftSteps \cup AssigningSteps \cup SellingSteps
         => r.shift \in Shift
    /\ r.step \in AssigningSteps \cup SellingSteps
         => r.nozzle \in Nozzle /\ r.employee \in Employee
    /\ r.step \in SellingSteps \cup {"complete"} => r.litres \in Nat
    /\ r.step \in AssignmentSteps => r.row \in DOMAIN assigned
    /\ r.step \in SaleRowSteps => r.row \in DOMAIN sales
    /\ r.step \in {"cancel sale", "move stock"} => r.seen + r.litres \in Nat

TypeOK ==
    /\ shift \in [Shift -> ShiftStates]
    /\ assigned \in Seq(Assignments)
    /\ sales \in Seq(Sales)
    /\ movements \in Seq(Movements)
    /\ stock \in Nat
    /\ request \in [Session -> Requests]
    /\ \A s \in Session : WellFormed(request[s])

Init ==
    /\ shift = [h \in Shift |-> "none"]
    /\ assigned = <<>>
    /\ sales = <<>>
    /\ movements = <<>>
    /\ stock = OpeningStock
    /\ request = [s \in Session |-> Idle]

-----------------------------------------------------------------------------
(***************************************************************************)
(* Helpers.                                                                *)
(***************************************************************************)

\* The lock of the record r is free: ResourceVersions keeps it from before
\* the handler starts until it has answered.
Admitted(r) ==
    Gated /\ r # NoResource => \A t \in Session : request[t].resource # r

\* A request of this kind starts on record r.
Starts(s, kind, r) ==
    /\ kind \in Enabled
    /\ request[s] = Idle
    /\ Admitted(r)

Continue(s, r) == request' = [request EXCEPT ![s] = r]

\* The request goes on if the check it has just made passed, and answers
\* with an error otherwise.
ContinueIf(s, ok, r) == Continue(s, IF ok THEN r ELSE Idle)

Positive == Nat \ {0}

Active == {a \in DOMAIN assigned : assigned[a].status = "active"}

ReceiptsUsed == {sales[i].receipt : i \in DOMAIN sales}

\* One more than the highest number ever issued.
NextReceipt == IF sales = <<>> THEN 1 ELSE Max(ReceiptsUsed) + 1

\* Litres of the completed sales of one employee at one nozzle in one shift.
Recorded(h, n, e) ==
    LET counted == {i \in DOMAIN sales :
                      /\ sales[i].shift = h
                      /\ sales[i].nozzle = n
                      /\ sales[i].employee = e
                      /\ sales[i].status = "completed"}
    IN SumFunctionOnSet([i \in DOMAIN sales |-> sales[i].litres], counted)

\* Two bugs it could have had: only a full, or only an empty, tank counts.
AllowedAboveCapacity(type, level) == level >= 0
AllowedBelowEmpty(type, level) ==
    type \in {"receipt", "adjustment"} => level <= Capacity

\* Whether a movement of this type may leave the tank at level.
Allowed(type, level) ==
    /\ type \in {"receipt", "adjustment"} => level <= Capacity
    /\ type \in {"issue", "internal", "adjustment"} => level >= 0

\* A bug: the issue is stored with the sign the user typed.
RecordSaleUnsigned(h, n, e, litres, receipt, payment) ==
    /\ sales' = Append(sales,
         [receipt |-> receipt, shift |-> h, nozzle |-> n, employee |-> e,
          litres |-> litres, status |-> "completed", payment |-> payment])
    /\ movements' = Append(movements,
         [type |-> "issue", litres |-> litres, sale |-> Len(sales) + 1])
    /\ stock' = stock - litres

\* The sale row, its tank issue, its payment and the new stock, as one
\* transaction writes them.
RecordSale(h, n, e, litres, receipt, payment) ==
    /\ sales' = Append(sales,
         [receipt |-> receipt, shift |-> h, nozzle |-> n, employee |-> e,
          litres |-> litres, status |-> "completed", payment |-> payment])
    /\ movements' = Append(movements,
         [type |-> "issue", litres |-> -litres, sale |-> Len(sales) + 1])
    /\ stock' = stock - litres

-----------------------------------------------------------------------------
(***************************************************************************)
(* Bugs this code could have had: each replaces one definition below when  *)
(* the properties are tested for being able to fail.                       *)
(***************************************************************************)

\* The handler is not behind the shift's lock.
AssignShiftUngated(s, h, n, e) ==
    /\ "assign" \in Enabled
    /\ request[s] = Idle
    /\ shift[h] # "none"
    /\ Len(assigned) < MaxAssignments
    /\ ContinueIf(s, shift[h] = "open",
         [Idle EXCEPT !.step = "assign employee", !.shift = h, !.nozzle = n,
                      !.employee = e])
    /\ UNCHANGED data

\* The closing of a shift does not look for active assignments.
CheckActiveSkipped(s) ==
    /\ request[s].step = "check active"
    /\ Continue(s, [request[s] EXCEPT !.step = "close"])
    /\ UNCHANGED data

\* A sale is accepted on any shift that exists.
SellOnAnyShift(s, h, n, e, q, p) ==
    /\ Starts(s, "sell", NoResource)
    /\ shift[h] # "none"
    /\ Len(sales) < MaxSales
    /\ Len(movements) < MaxMovements
    /\ Continue(s, [Idle EXCEPT !.step = "number sale", !.shift = h,
                      !.nozzle = n, !.employee = e, !.litres = q, !.payment = p])
    /\ UNCHANGED data

\* receipt_number has no unique index.
SellUnderAnyNumber(s) ==
    /\ request[s].step = "sell"
    /\ Len(sales) < MaxSales
    /\ Len(movements) < MaxMovements
    /\ LET r == request[s]
       IN \/ /\ Allowed("issue", stock - r.litres)
             /\ RecordSale(r.shift, r.nozzle, r.employee, r.litres, r.number,
                           r.payment)
          \/ /\ ~Allowed("issue", stock - r.litres)
             /\ UNCHANGED <<sales, movements, stock>>
    /\ Continue(s, Idle)
    /\ UNCHANGED <<shift, assigned>>

\* The assignment is committed before its cash is settled.
CompleteThenSettle(s) ==
    /\ request[s].step = "complete"
    /\ LET r == request[s]
           a == assigned[r.row]
           rest == r.litres - Recorded(a.shift, a.nozzle, a.employee)
       IN /\ assigned' = [assigned EXCEPT ![r.row].status = "completed",
                                          ![r.row].dispensed = r.litres]
          /\ IF rest \in Positive /\ shift[a.shift] = "open"
                         /\ Allowed("issue", stock - rest)
               THEN RecordSale(a.shift, a.nozzle, a.employee, rest,
                               NextReceipt, "success")
               ELSE UNCHANGED <<sales, movements, stock>>
    /\ Continue(s, Idle)
    /\ UNCHANGED shift

\* The handler is not behind the sale's lock.
CancelSaleUngated(s, i) ==
    /\ "cancel sale" \in Enabled
    /\ request[s] = Idle
    /\ Len(movements) < MaxMovements
    /\ ContinueIf(s, sales[i].status = "completed",
         [Idle EXCEPT !.step = "read tank", !.row = i,
                      !.litres = sales[i].litres])
    /\ UNCHANGED data

\* Only a payment that was collected is reversed with its sale.
PaymentOfCancelledIfCollected(p) == IF p = "success" THEN "reversed" ELSE p

\* Every payment is reversed with its sale, a refunded one too.
PaymentOfCancelledAlways(p) == "reversed"

-----------------------------------------------------------------------------
(***************************************************************************)
(* Shifts and assignments (ShiftService).                                  *)
(***************************************************************************)

OpenShiftCheck(s, h) ==
    /\ Starts(s, "open", NoResource)
    /\ ContinueIf(s, shift[h] = "none",
         [Idle EXCEPT !.step = "open", !.shift = h])
    /\ UNCHANGED data

\* The unique index on date and label refuses a second row.
OpenShift(s) ==
    /\ request[s].step = "open"
    /\ shift' = [shift EXCEPT ![request[s].shift] = IF @ = "none" THEN "open"
                                                                  ELSE @]
    /\ Continue(s, Idle)
    /\ UNCHANGED <<assigned, sales, movements, stock>>

AssignShift(s, h, n, e) ==
    /\ Starts(s, "assign", <<"shifts", h>>)
    /\ shift[h] # "none"
    /\ Len(assigned) < MaxAssignments
    /\ ContinueIf(s, shift[h] = "open",
         [Idle EXCEPT !.step = "assign employee", !.resource = <<"shifts", h>>,
                      !.shift = h, !.nozzle = n, !.employee = e])
    /\ UNCHANGED data

CheckEmployee(s) ==
    /\ request[s].step = "assign employee"
    /\ ContinueIf(s, \A a \in Active : \/ assigned[a].shift # request[s].shift
                                       \/ assigned[a].employee # request[s].employee,
         [request[s] EXCEPT !.step = "assign nozzle"])
    /\ UNCHANGED data

CheckNozzle(s) ==
    /\ request[s].step = "assign nozzle"
    /\ ContinueIf(s, \A a \in Active : \/ assigned[a].shift # request[s].shift
                                       \/ assigned[a].nozzle # request[s].nozzle,
         [request[s] EXCEPT !.step = "assign"])
    /\ UNCHANGED data

Assign(s) ==
    /\ request[s].step = "assign"
    /\ Len(assigned) < MaxAssignments
    /\ assigned' = Append(assigned,
         [shift |-> request[s].shift, nozzle |-> request[s].nozzle,
          employee |-> request[s].employee, status |-> "active",
          dispensed |-> 0])
    /\ Continue(s, Idle)
    /\ UNCHANGED <<shift, sales, movements, stock>>

\* q: closing meter less opening meter, testing and internal consumption;
\* the request is refused before any write if that is negative.
CompleteCheck(s, a, q) ==
    /\ Starts(s, "complete", <<"shift-assignments", a>>)
    /\ Len(sales) < MaxSales
    /\ Len(movements) < MaxMovements
    /\ ContinueIf(s, assigned[a].status = "active",
         [Idle EXCEPT !.step = "complete", !.row = a, !.litres = q,
                      !.resource = <<"shift-assignments", a>>])
    /\ UNCHANGED data

\* One unit of work.  Its first write is the assignment's new status, so
\* what settle_assignment_cash and the cash sale read is current.  If the
\* sale is refused everything is rolled back.
Complete(s) ==
    /\ request[s].step = "complete"
    /\ Len(sales) < MaxSales
    /\ Len(movements) < MaxMovements
    /\ LET r == request[s]
           a == assigned[r.row]
           rest == r.litres - Recorded(a.shift, a.nozzle, a.employee)
           closed == [assigned EXCEPT ![r.row].status = "completed",
                                      ![r.row].dispensed = r.litres]
           sellable == shift[a.shift] = "open" /\ Allowed("issue", stock - rest)
       IN \/ /\ rest \notin Positive
             /\ assigned' = closed
             /\ UNCHANGED <<sales, movements, stock>>
          \/ /\ rest \in Positive /\ sellable
             /\ assigned' = closed
             /\ RecordSale(a.shift, a.nozzle, a.employee, rest, NextReceipt,
                           "success")
          \/ /\ rest \in Positive /\ ~sellable
             /\ UNCHANGED <<assigned, sales, movements, stock>>
    /\ Continue(s, Idle)
    /\ UNCHANGED shift

CancelAssignmentCheck(s, a) ==
    /\ Starts(s, "cancel assignment", <<"shift-assignments", a>>)
    /\ ContinueIf(s, assigned[a].status = "active",
         [Idle EXCEPT !.step = "cancel assignment", !.row = a,
                      !.resource = <<"shift-assignments", a>>])
    /\ UNCHANGED data

CancelAssignment(s) ==
    /\ request[s].step = "cancel assignment"
    /\ assigned' = [assigned EXCEPT ![request[s].row].status = "cancelled"]
    /\ Continue(s, Idle)
    /\ UNCHANGED <<shift, sales, movements, stock>>

\* A shift is closed at /shifts/<id>/close, or by the Close Shift desk at
\* /close-shift/<id>, which is another record to ResourceVersions.  What is
\* typed at the desk is saved before the shift is looked at, but the form may
\* be empty: then nothing is written first.
CloseShiftCheck(s, h) ==
    \E door \in {<<"close", "shifts">>, <<"close desk", "close-shift">>} :
        /\ Starts(s, door[1], <<door[2], h>>)
        /\ shift[h] # "none"
        /\ ContinueIf(s, shift[h] = "open",
             [Idle EXCEPT !.step = "check active", !.shift = h,
                          !.resource = <<door[2], h>>])
        /\ UNCHANGED data

CheckActive(s) ==
    /\ request[s].step = "check active"
    /\ ContinueIf(s, \A a \in Active : assigned[a].shift # request[s].shift,
         [request[s] EXCEPT !.step = "close"])
    /\ UNCHANGED data

CloseShift(s) ==
    /\ request[s].step = "close"
    /\ shift' = [shift EXCEPT ![request[s].shift] = "closed"]
    /\ Continue(s, Idle)
    /\ UNCHANGED <<assigned, sales, movements, stock>>

ReopenShiftCheck(s, h) ==
    /\ Starts(s, "reopen", <<"shifts", h>>)
    /\ shift[h] # "none"
    /\ ContinueIf(s, shift[h] = "closed",
         [Idle EXCEPT !.step = "reopen", !.shift = h,
                      !.resource = <<"shifts", h>>])
    /\ UNCHANGED data

ReopenShift(s) ==
    /\ request[s].step = "reopen"
    /\ shift' = [shift EXCEPT ![request[s].shift] = "open"]
    /\ Continue(s, Idle)
    /\ UNCHANGED <<assigned, sales, movements, stock>>

-----------------------------------------------------------------------------
(***************************************************************************)
(* Sales and payments (SaleService).                                       *)
(***************************************************************************)

\* p: "pending" for a credit sale, "success" for cash, card and UPI.
SellShift(s, h, n, e, q, p) ==
    /\ Starts(s, "sell", NoResource)
    /\ shift[h] # "none"
    /\ Len(sales) < MaxSales
    /\ Len(movements) < MaxMovements
    /\ ContinueIf(s, shift[h] = "open",
         [Idle EXCEPT !.step = "number sale", !.shift = h, !.nozzle = n,
                      !.employee = e, !.litres = q, !.payment = p])
    /\ UNCHANGED data

NumberSale(s) ==
    /\ request[s].step = "number sale"
    /\ Continue(s, [request[s] EXCEPT !.step = "sell", !.number = NextReceipt])
    /\ UNCHANGED data

\* The INSERT of the sale comes first: it fails if the number was taken,
\* and it makes the tank's stock, read after it, current.
Sell(s) ==
    /\ request[s].step = "sell"
    /\ Len(sales) < MaxSales
    /\ Len(movements) < MaxMovements
    /\ LET r == request[s]
           accepted == /\ r.number \notin ReceiptsUsed
                       /\ Allowed("issue", stock - r.litres)
       IN \/ /\ accepted
             /\ RecordSale(r.shift, r.nozzle, r.employee, r.litres, r.number,
                           r.payment)
          \/ /\ ~accepted
             /\ UNCHANGED <<sales, movements, stock>>
    /\ Continue(s, Idle)
    /\ UNCHANGED <<shift, assigned>>

CancelSaleCheck(s, i) ==
    /\ Starts(s, "cancel sale", <<"sales", i>>)
    /\ Len(movements) < MaxMovements
    /\ ContinueIf(s, sales[i].status = "completed",
         [Idle EXCEPT !.step = "read tank", !.row = i,
                      !.resource = <<"sales", i>>, !.litres = sales[i].litres])
    /\ UNCHANGED data

\* The tank is loaded, and the adjustment judged, before the first write.
ReadTank(s) ==
    /\ request[s].step = "read tank"
    /\ ContinueIf(s, Allowed("adjustment", stock + request[s].litres),
         [request[s] EXCEPT !.step = "cancel sale", !.seen = stock])
    /\ UNCHANGED data

\* What becomes of the payment of a sale that is cancelled.
PaymentOfCancelled(p) == IF p \in {"reversed", "refunded"} THEN p ELSE "reversed"

\* The payment is read after the first write; the tank was not.
CancelSale(s) ==
    /\ request[s].step = "cancel sale"
    /\ Len(movements) < MaxMovements
    /\ LET r == request[s]
       IN /\ movements' = Append(movements,
               [type |-> "adjustment", litres |-> r.litres, sale |-> r.row])
          /\ stock' = r.seen + r.litres
          /\ sales' = [sales EXCEPT
               ![r.row].status = "cancelled",
               ![r.row].payment = PaymentOfCancelled(@)]
    /\ Continue(s, Idle)
    /\ UNCHANGED <<shift, assigned>>

\* mark_payment_failed and refund_payment differ in the status they write.
PaymentCheck(s, i) ==
    /\ Starts(s, "payment", <<"payments", i>>)
    /\ \E to \in {"fail payment", "refund payment"} :
         ContinueIf(s, sales[i].payment = "success",
           [Idle EXCEPT !.step = to, !.row = i,
                        !.resource = <<"payments", i>>])
    /\ UNCHANGED data

FailPayment(s) ==
    /\ request[s].step = "fail payment"
    /\ sales' = [sales EXCEPT ![request[s].row].payment = "failed"]
    /\ Continue(s, Idle)
    /\ UNCHANGED <<shift, assigned, movements, stock>>

RefundPayment(s) ==
    /\ request[s].step = "refund payment"
    /\ sales' = [sales EXCEPT ![request[s].row].payment = "refunded"]
    /\ Continue(s, Idle)
    /\ UNCHANGED <<shift, assigned, movements, stock>>

-----------------------------------------------------------------------------
(***************************************************************************)
(* Stock movements entered at the tank (TankService.record_transaction).   *)
(***************************************************************************)

\* q is signed: issues and internal consumption take fuel out.  The table
\* refuses a movement of nothing.
MoveStockCheck(s, type, q) ==
    /\ Starts(s, "move stock", <<"tanks", 0>>)
    /\ Len(movements) < MaxMovements
    /\ q # 0
    /\ type = "receipt" => q > 0
    /\ type \in {"issue", "internal"} => q < 0
    /\ ContinueIf(s, Allowed(type, stock + q),
         [Idle EXCEPT !.step = "move stock", !.resource = <<"tanks", 0>>,
                      !.type = type, !.litres = q, !.seen = stock])
    /\ UNCHANGED data

MoveStock(s) ==
    /\ request[s].step = "move stock"
    /\ Len(movements) < MaxMovements
    /\ movements' = Append(movements, [type |-> request[s].type,
                                       litres |-> request[s].litres, sale |-> 0])
    /\ stock' = request[s].seen + request[s].litres
    /\ Continue(s, Idle)
    /\ UNCHANGED <<shift, assigned, sales>>

\* The process ends: requests are gone, committed data stays.
Crash ==
    /\ \E s \in Session : request[s] # Idle
    /\ request' = [s \in Session |-> Idle]
    /\ UNCHANGED data

-----------------------------------------------------------------------------
Litres == 1..MaxLitres

ShiftStep(s) ==
    \/ \E h \in Shift :
         \/ OpenShiftCheck(s, h)
         \/ CloseShiftCheck(s, h)
         \/ ReopenShiftCheck(s, h)
         \/ \E n \in Nozzle, e \in Employee : AssignShift(s, h, n, e)
    \/ \E a \in DOMAIN assigned :
         \/ CancelAssignmentCheck(s, a)
         \/ \E q \in {0} \cup Litres : CompleteCheck(s, a, q)
    \/ OpenShift(s)
    \/ CheckEmployee(s)
    \/ CheckNozzle(s)
    \/ Assign(s)
    \/ Complete(s)
    \/ CancelAssignment(s)
    \/ CheckActive(s)
    \/ CloseShift(s)
    \/ ReopenShift(s)

SaleStep(s) ==
    \/ \E h \in Shift, n \in Nozzle, e \in Employee, q \in Litres,
          p \in {"pending", "success"} : SellShift(s, h, n, e, q, p)
    \/ \E i \in DOMAIN sales :
         \/ CancelSaleCheck(s, i)
         \/ PaymentCheck(s, i)
    \/ NumberSale(s)
    \/ Sell(s)
    \/ ReadTank(s)
    \/ CancelSale(s)
    \/ FailPayment(s)
    \/ RefundPayment(s)

TankStep(s) ==
    \/ \E type \in MovementTypes, q \in -MaxLitres..MaxLitres :
         MoveStockCheck(s, type, q)
    \/ MoveStock(s)

Next ==
    \/ \E s \in Session : ShiftStep(s) \/ SaleStep(s) \/ TankStep(s)
    \/ Crash

Spec == Init /\ [][Next]_vars

-----------------------------------------------------------------------------
(***************************************************************************)
(* Properties.                                                             *)
(***************************************************************************)

\* In one shift no nozzle and no employee is in two active assignments
\* (the two look-ups in assign_nozzle).
NoDoubleAssignment ==
    \A a, b \in Active :
        a # b /\ assigned[a].shift = assigned[b].shift
          => /\ assigned[a].nozzle # assigned[b].nozzle
             /\ assigned[a].employee # assigned[b].employee

\* Nobody is still at a nozzle of a closed shift (the check in close_shift).
ClosedShiftIsFinished ==
    \A a \in Active : shift[assigned[a].shift] # "closed"

\* Every sale enters the books while its shift is open (the first check of
\* _create_sale_impl), whichever way it was made.
NoSaleOnClosedShift ==
    [][\A i \in DOMAIN sales' \ DOMAIN sales : shift[sales'[i].shift] = "open"]_vars

\* Receipts are numbered 1, 2, 3 ... in the order the sales were committed:
\* no gap, no number twice (next_receipt_number and the unique index).
ReceiptsInOrder == \A i \in DOMAIN sales : sales[i].receipt = i

\* The number a sale has taken is still free when it is written: what the
\* docstring of next_receipt_number promises.
ReceiptStaysFree ==
    \A s \in Session :
        request[s].step = "sell" => request[s].number \notin ReceiptsUsed

\* The tank's book stock is the opening stock plus everything its
\* transactions say (_record_transaction: no stock change unexplained).
LedgerExplainsStock ==
    stock = OpeningStock
            + SumFunction([i \in DOMAIN movements |-> movements[i].litres])

\* The book stock stays between empty and the tank's capacity, whatever
\* stale level a movement was judged by.
StockInTank == stock \in 0..Capacity

\* The fuel of a sale goes back into the tank when it is cancelled, once,
\* and never otherwise.
CancelledOnce ==
    \A i \in DOMAIN sales :
        Cardinality({m \in DOMAIN movements : /\ movements[m].sale = i
                                              /\ movements[m].type = "adjustment"})
          = IF sales[i].status = "cancelled" THEN 1 ELSE 0

\* The payment of a cancelled sale was given back or never counted, and
\* only a cancelled sale's payment is reversed.
PaymentMatchesSale ==
    \A i \in DOMAIN sales :
        /\ sales[i].status = "cancelled"
             => sales[i].payment \in {"reversed", "refunded"}
        /\ sales[i].payment = "reversed" => sales[i].status = "cancelled"

\* A payment that was given back keeps saying how: it is never overwritten.
GivenBackIsFinal ==
    [][\A i \in DOMAIN sales :
          sales[i].payment \in {"reversed", "refunded"}
            => sales'[i].payment = sales[i].payment]_vars

\* Recorded sales cover the litres the meter showed for assignment a.
Covered(a) ==
    LET b == assigned[a]
    IN Recorded(b.shift, b.nozzle, b.employee) >= b.dispensed

\* Recorded sales cover every completed assignment of the same employee at
\* the same nozzle in the same shift as a.
AllCovered(a) ==
    LET b == assigned[a]
        alike == {c \in DOMAIN assigned : /\ assigned[c].status = "completed"
                                          /\ assigned[c].shift = b.shift
                                          /\ assigned[c].nozzle = b.nozzle
                                          /\ assigned[c].employee = b.employee}
    IN Recorded(b.shift, b.nozzle, b.employee)
         >= SumFunctionOnSet([c \in DOMAIN assigned |-> assigned[c].dispensed],
                             alike)

Completes(a) ==
    assigned[a].status # "completed" /\ assigned'[a].status = "completed"

\* When an assignment is completed, the litres its meter shows are covered
\* by recorded sales in the same commit (complete_nozzle_assignment).
SettledOnCompletion ==
    [][\A a \in DOMAIN assigned : Completes(a) => Covered(a)']_vars

\* At that moment the sales cover every completed assignment of the same
\* employee at the same nozzle in the same shift, not the last one alone
\* (settle_assignment_cash: what remains is accounted for in cash).
EveryAssignmentSettled ==
    [][\A a \in DOMAIN assigned : Completes(a) => AllCovered(a)']_vars

\* What a request that is making an assignment knows: it holds its shift's
\* record, and nobody active has the employee, or the nozzle, it has looked up.
Knows(r) ==
    /\ r.resource = <<"shifts", r.shift>>
    /\ r.step \in {"assign nozzle", "assign"} =>
         \A a \in Active : assigned[a].shift = r.shift
           => assigned[a].employee # r.employee
    /\ r.step = "assign" =>
         \A a \in Active : assigned[a].shift = r.shift
           => assigned[a].nozzle # r.nozzle

\* No two requests hold the same record.
HeldOnce ==
    \A s, t \in Session : s # t /\ request[s].resource # NoResource
      => request[s].resource # request[t].resource

\* Inductive core of NoDoubleAssignment where records are locked.
AssignInv ==
    /\ NoDoubleAssignment
    /\ \A s \in Session : request[s].step \in AssigningSteps => Knows(request[s])
    /\ HeldOnce

\* Inductive core of ReceiptsInOrder: a number read earlier may be stale,
\* and then it has been taken; it never lies beyond the next one.
ReceiptInv ==
    /\ ReceiptsInOrder
    /\ \A s \in Session : request[s].step = "sell"
         => request[s].number \in 1..(Len(sales) + 1)

\* Inductive core of StockInTank: the level a request will write was
\* judged when it was worked out.
StockInv ==
    /\ StockInTank
    /\ \A s \in Session : request[s].step \in {"cancel sale", "move stock"}
         => request[s].seen + request[s].litres \in 0..Capacity

\* What closing a shift is trusted with in one window.
ClosedMeansClosed ==
    /\ []ClosedShiftIsFinished
    /\ NoSaleOnClosedShift

\* What giving money back is trusted with in one window.
GivenBackOnce ==
    /\ []PaymentMatchesSale
    /\ GivenBackIsFinal

=============================================================================
