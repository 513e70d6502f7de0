-------------------------- MODULE ForecourtProofs --------------------------
(***************************************************************************)
(* Theorems about the forecourt, for any numbers of sessions, shifts,      *)
(* nozzles and employees and any bounds: its rows and receipts, assignments*)
(* and, in the second part, its books.                                     *)
(***************************************************************************)
EXTENDS Forecourt, SumLemmas, TLAPS

\* The committed data is typed, receipts are in order, stock is in range.
DataOK ==
    /\ shift \in [Shift -> ShiftStates]
    /\ assigned \in Seq(Assignments)
    /\ sales \in Seq(Sales)
    /\ movements \in Seq(Movements)
    /\ stock \in 0..Capacity
    /\ ReceiptsInOrder

\* What is known of one request.
Good(r) ==
    /\ r \in Requests
    /\ WellFormed(r)
    /\ r.step = "sell" => r.number \in 1..(Len(sales) + 1)
    /\ r.step \in {"cancel sale", "move stock"} => r.seen + r.litres \in 0..Capacity

IInv ==
    /\ DataOK
    /\ request \in [Session -> Requests]
    /\ \A s \in Session : Good(request[s])

USE DEF ShiftStates, AssignmentStates, SaleStates, PaymentStates, MovementTypes

\* A request that does nothing knows nothing, so all it knows is right.
LEMMA IdleIsGood == Good(Idle)
BY DEF Good, WellFormed, Idle, Requests, Steps, Resources, NoResource,
       ShiftSteps, AssigningSteps, SellingSteps, AssignmentSteps, SaleRowSteps

\* A session with nothing to do is a request like any other.
LEMMA IdleTyped == Idle \in Requests
BY IdleIsGood DEF Good

\* With the receipts in order, the next number is one more than the number
\* of sales, and the numbers used are those before it.
LEMMA NextIsLength ==
    ASSUME sales \in Seq(Sales), ReceiptsInOrder
    PROVE  /\ NextReceipt = Len(sales) + 1
           /\ ReceiptsUsed = 1..Len(sales)
<1>1. Len(sales) \in Nat /\ DOMAIN sales = 1..Len(sales)
  OBVIOUS
<1>2. ReceiptsUsed = 1..Len(sales)
  BY <1>1 DEF ReceiptsUsed, ReceiptsInOrder
<1>3. CASE sales = <<>>
  BY <1>2, <1>3 DEF NextReceipt
<1>4. CASE sales # <<>>
  <2>1. Len(sales) \in ReceiptsUsed /\ \A y \in ReceiptsUsed : Len(sales) >= y
    BY <1>1, <1>2, <1>4
  <2>2. Max(ReceiptsUsed) \in ReceiptsUsed
        /\ \A y \in ReceiptsUsed : Max(ReceiptsUsed) >= y
    BY <2>1 DEF Max
  <2>3. Max(ReceiptsUsed) = Len(sales)
    BY <1>1, <1>2, <2>1, <2>2
  <2>. QED BY <1>2, <1>4, <2>3 DEF NextReceipt
<1>. QED BY <1>3, <1>4

\* A step that only moves one request on keeps the invariant if what that
\* request knows afterwards is right.
LEMMA RequestStep ==
    ASSUME IInv, NEW s \in Session, NEW r, Continue(s, r), Good(r),
           UNCHANGED data
    PROVE  IInv'
<1>1. DataOK'
  BY DEF IInv, DataOK, data, ReceiptsInOrder
<1>2. request' \in [Session -> Requests]
  BY DEF IInv, Continue, Good
<1>3. \A t \in Session : request'[t] = IF t = s THEN r ELSE request[t]
  BY DEF IInv, Continue
<1>4. \A t \in Session : Good(request'[t])
  BY <1>3 DEF IInv
<1>5. \A t \in Session : Good(request[t])'
  BY <1>4 DEF Good, WellFormed, data
<1>. QED BY <1>1, <1>2, <1>5 DEF IInv

\* The same for a step that checks something first.
LEMMA CheckStep ==
    ASSUME IInv, NEW s \in Session, NEW r, NEW ok, ContinueIf(s, ok, r),
           ok => Good(r), UNCHANGED data
    PROVE  IInv'
<1>1. CASE ok
  BY <1>1, RequestStep DEF ContinueIf
<1>2. CASE ~ok
  BY <1>2, RequestStep, IdleIsGood DEF ContinueIf
<1>. QED BY <1>1, <1>2

\* A step that writes and answers: the data must be right afterwards, and
\* no row may disappear.
LEMMA WriteStep ==
    ASSUME IInv, NEW s \in Session, Continue(s, Idle), DataOK',
           Len(assigned) <= Len(assigned'), Len(sales) <= Len(sales')
    PROVE  IInv'
<1>1. request' \in [Session -> Requests]
  BY IdleIsGood DEF IInv, Continue, Good
<1>2. \A t \in Session : request'[t] = IF t = s THEN Idle ELSE request[t]
  BY DEF IInv, Continue
<1>3. \A t \in Session : Good(request'[t])
  BY <1>2, IdleIsGood DEF IInv
<1>4. /\ DOMAIN assigned \subseteq DOMAIN assigned'
      /\ DOMAIN sales \subseteq DOMAIN sales'
      /\ Len(sales) \in Nat /\ Len(sales') \in Nat
  BY DEF IInv, DataOK
<1>5. ASSUME NEW r, Good(r) PROVE Good(r)'
  <2>1. WellFormed(r)'
    BY <1>4, <1>5 DEF Good, WellFormed
  <2>2. (r.step = "sell" => r.number \in 1..(Len(sales) + 1))'
    BY <1>4, <1>5 DEF Good
  <2>. QED BY <1>5, <2>1, <2>2 DEF Good
<1>6. \A t \in Session : Good(request[t])'
  BY <1>3, <1>5
<1>. QED BY <1>1, <1>6 DEF IInv

-----------------------------------------------------------------------------
(***************************************************************************)
(* The checks: each has read one thing and goes on, or answers.            *)
(***************************************************************************)

USE DEF Steps, ShiftSteps, AssigningSteps, SellingSteps, AssignmentSteps,
        SaleRowSteps

\* A request only starts on a record that has a URL.
LEMMA ResourcesTyped ==
    /\ NoResource \in Resources
    /\ <<"tanks", 0>> \in Resources
    /\ \A h \in Shift : /\ <<"shifts", h>> \in Resources
                        /\ <<"close-shift", h>> \in Resources
    /\ \A i \in Nat : /\ <<"shift-assignments", i>> \in Resources
                      /\ <<"sales", i>> \in Resources
                      /\ <<"payments", i>> \in Resources
BY DEF Resources, ShiftResources, RowResources

\* Rows are numbered by naturals.
LEMMA RowsTyped ==
    ASSUME IInv
    PROVE  /\ \A a \in DOMAIN assigned : a \in Nat /\ assigned[a] \in Assignments
           /\ \A i \in DOMAIN sales : i \in Nat /\ sales[i] \in Sales
BY DEF IInv, DataOK

\* A movement that may be made leaves the tank within its capacity.
LEMMA AllowedStaysInTank ==
    ASSUME stock \in 0..Capacity, Capacity \in Nat, NEW type \in MovementTypes,
           NEW q \in Int, type = "receipt" => q > 0,
           type \in {"issue", "internal"} => q < 0, Allowed(type, stock + q)
    PROVE  stock + q \in 0..Capacity
<1>1. stock \in Int /\ stock >= 0 /\ stock <= Capacity
  OBVIOUS
<1>2. (type \in {"receipt", "adjustment"} => stock + q <= Capacity)
      /\ (type \in {"issue", "internal", "adjustment"} => stock + q >= 0)
  BY DEF Allowed
<1>3. CASE type = "receipt"
  BY <1>1, <1>2, <1>3
<1>4. CASE type = "adjustment"
  BY <1>1, <1>2, <1>4
<1>5. CASE type \in {"issue", "internal"}
  BY <1>1, <1>2, <1>5
<1>. QED BY <1>3, <1>4, <1>5

\* OpenShiftCheck: The date and label look free.
LEMMA OpenShiftCheckKeeps ==
    ASSUME IInv, NEW s \in Session, NEW h \in Shift,
           OpenShiftCheck(s, h)
    PROVE  IInv'
<1>. DEFINE r == [Idle EXCEPT !.step = "open", !.shift = h]
<1>2. NoResource \in Resources
  BY ResourcesTyped
<1>3. /\ r \in Requests
      /\ r.step = "open"
      /\ r.shift = h
  BY IdleTyped, <1>2 DEF Requests
<1>4. ContinueIf(s, (shift[h] = "none"), r) /\ UNCHANGED data
  BY DEF OpenShiftCheck
<1>. HIDE DEF r
<1>5. Good(r)
  BY <1>3 DEF Good, WellFormed
<1>. QED BY <1>4, <1>5, CheckStep

\* CloseShiftCheck: The shift is open.
LEMMA CloseShiftCheckKeeps ==
    ASSUME IInv, NEW s \in Session, NEW h \in Shift,
           CloseShiftCheck(s, h)
    PROVE  IInv'
<1>1. PICK door \in {<<"close", "shifts">>, <<"close desk", "close-shift">>} :
           /\ ContinueIf(s, shift[h] = "open",
                [Idle EXCEPT !.step = "check active", !.shift = h,
                             !.resource = <<door[2], h>>])
           /\ UNCHANGED data
  BY DEF CloseShiftCheck
<1>. DEFINE r == [Idle EXCEPT !.step = "check active", !.shift = h,
                              !.resource = <<door[2], h>>]
<1>2. <<door[2], h>> \in Resources
  <2>1. CASE door = <<"close", "shifts">>
    BY <2>1, ResourcesTyped
  <2>2. CASE door = <<"close desk", "close-shift">>
    BY <2>2, ResourcesTyped
  <2>. QED BY <2>1, <2>2
<1>3. /\ r \in Requests
      /\ r.step = "check active"
      /\ r.shift = h
  BY IdleTyped, <1>2 DEF Requests
<1>4. ContinueIf(s, shift[h] = "open", r) /\ UNCHANGED data
  BY <1>1
<1>. HIDE DEF r
<1>5. Good(r)
  BY <1>3 DEF Good, WellFormed
<1>. QED BY <1>4, <1>5, CheckStep

\* ReopenShiftCheck: The shift is closed.
LEMMA ReopenShiftCheckKeeps ==
    ASSUME IInv, NEW s \in Session, NEW h \in Shift,
           ReopenShiftCheck(s, h)
    PROVE  IInv'
<1>. DEFINE r == [Idle EXCEPT !.step = "reopen", !.shift = h,
                              !.resource = <<"shifts", h>>]
<1>2. <<"shifts", h>> \in Resources
  BY ResourcesTyped
<1>3. /\ r \in Requests
      /\ r.step = "reopen"
      /\ r.shift = h
  BY IdleTyped, <1>2 DEF Requests
<1>4. ContinueIf(s, (shift[h] = "closed"), r) /\ UNCHANGED data
  BY DEF ReopenShiftCheck
<1>. HIDE DEF r
<1>5. Good(r)
  BY <1>3 DEF Good, WellFormed
<1>. QED BY <1>4, <1>5, CheckStep

\* AssignShift: The shift is open.
LEMMA AssignShiftKeeps ==
    ASSUME IInv, NEW s \in Session, NEW h \in Shift, NEW n \in Nozzle, NEW e \in Employee,
           AssignShift(s, h, n, e)
    PROVE  IInv'
<1>. DEFINE r == [Idle EXCEPT !.step = "assign employee",
                              !.resource = <<"shifts", h>>,
                              !.shift = h, !.nozzle = n, !.employee = e]
<1>2. <<"shifts", h>> \in Resources
  BY ResourcesTyped
<1>3. /\ r \in Requests
      /\ r.step = "assign employee"
      /\ r.shift = h
      /\ r.nozzle = n
      /\ r.employee = e
  BY IdleTyped, <1>2 DEF Requests
<1>4. ContinueIf(s, (shift[h] = "open"), r) /\ UNCHANGED data
  BY DEF AssignShift
<1>. HIDE DEF r
<1>5. Good(r)
  BY <1>3 DEF Good, WellFormed
<1>. QED BY <1>4, <1>5, CheckStep

\* CancelAssignmentCheck: The assignment is active.
LEMMA CancelAssignmentCheckKeeps ==
    ASSUME IInv, NEW s \in Session, NEW a \in DOMAIN assigned,
           CancelAssignmentCheck(s, a)
    PROVE  IInv'
<1>. DEFINE r == [Idle EXCEPT !.step = "cancel assignment", !.row = a,
                              !.resource = <<"shift-assignments", a>>]
<1>1. a \in Nat
  BY RowsTyped
<1>2. <<"shift-assignments", a>> \in Resources
  BY ResourcesTyped, <1>1
<1>3. /\ r \in Requests
      /\ r.step = "cancel assignment"
      /\ r.row = a
  BY IdleTyped, <1>2, <1>1 DEF Requests
<1>4. ContinueIf(s, (assigned[a].status = "active"), r) /\ UNCHANGED data
  BY DEF CancelAssignmentCheck
<1>. HIDE DEF r
<1>5. Good(r)
  BY <1>3, <1>1 DEF Good, WellFormed
<1>. QED BY <1>4, <1>5, CheckStep

\* CompleteCheck: The assignment is active and the litres make sense.
LEMMA CompleteCheckKeeps ==
    ASSUME IInv, NEW s \in Session, NEW a \in DOMAIN assigned, NEW q \in Nat,
           CompleteCheck(s, a, q)
    PROVE  IInv'
<1>. DEFINE r == [Idle EXCEPT !.step = "complete", !.row = a, !.litres = q,
                              !.resource = <<"shift-assignments", a>>]
<1>1. a \in Nat
  BY RowsTyped
<1>2. <<"shift-assignments", a>> \in Resources
  BY ResourcesTyped, <1>1
<1>3. /\ r \in Requests
      /\ r.step = "complete"
      /\ r.row = a
      /\ r.litres = q
  <2>1. q \in Int
    OBVIOUS
  <2>. QED BY <2>1, IdleTyped, <1>2, <1>1 DEF Requests
<1>4. ContinueIf(s, (assigned[a].status = "active"), r) /\ UNCHANGED data
  BY DEF CompleteCheck
<1>. HIDE DEF r
<1>5. Good(r)
  BY <1>3, <1>1 DEF Good, WellFormed
<1>. QED BY <1>4, <1>5, CheckStep

\* CheckEmployee: The employee is free.
LEMMA CheckEmployeeKeeps ==
    ASSUME IInv, NEW s \in Session, CheckEmployee(s)
    PROVE  IInv'
<1>. DEFINE r == [request[s] EXCEPT !.step = "assign nozzle"]
<1>1. Good(request[s]) /\ UNCHANGED data
  BY DEF CheckEmployee, IInv
<1>2. PICK ok : ContinueIf(s, ok, r)
  BY DEF CheckEmployee
<1>3. /\ r \in Requests
      /\ r.step = "assign nozzle"
      /\ r.shift = request[s].shift
      /\ r.nozzle = request[s].nozzle
      /\ r.employee = request[s].employee
  BY <1>1 DEF Good, Requests
<1>. HIDE DEF r
<1>4. Good(r)
  BY <1>1, <1>3 DEF CheckEmployee, Good, WellFormed
<1>. QED BY <1>1, <1>2, <1>4, CheckStep

\* CheckNozzle: The nozzle is free.
LEMMA CheckNozzleKeeps ==
    ASSUME IInv, NEW s \in Session, CheckNozzle(s)
    PROVE  IInv'
<1>. DEFINE r == [request[s] EXCEPT !.step = "assign"]
<1>1. Good(request[s]) /\ UNCHANGED data
  BY DEF CheckNozzle, IInv
<1>2. PICK ok : ContinueIf(s, ok, r)
  BY DEF CheckNozzle
<1>3. /\ r \in Requests
      /\ r.step = "assign"
      /\ r.shift = request[s].shift
      /\ r.nozzle = request[s].nozzle
      /\ r.employee = request[s].employee
  BY <1>1 DEF Good, Requests
<1>. HIDE DEF r
<1>4. Good(r)
  BY <1>1, <1>3 DEF CheckNozzle, Good, WellFormed
<1>. QED BY <1>1, <1>2, <1>4, CheckStep

\* CheckActive: No assignment is active.
LEMMA CheckActiveKeeps ==
    ASSUME IInv, NEW s \in Session, CheckActive(s)
    PROVE  IInv'
<1>. DEFINE r == [request[s] EXCEPT !.step = "close"]
<1>1. Good(request[s]) /\ UNCHANGED data
  BY DEF CheckActive, IInv
<1>2. PICK ok : ContinueIf(s, ok, r)
  BY DEF CheckActive
<1>3. /\ r \in Requests
      /\ r.step = "close"
      /\ r.shift = request[s].shift
      /\ r.nozzle = request[s].nozzle
      /\ r.employee = request[s].employee
  BY <1>1 DEF Good, Requests
<1>. HIDE DEF r
<1>4. Good(r)
  BY <1>1, <1>3 DEF CheckActive, Good, WellFormed
<1>. QED BY <1>1, <1>2, <1>4, CheckStep

\* SellShift: The shift is open.
LEMMA SellShiftKeeps ==
    ASSUME IInv, NEW s \in Session, NEW h \in Shift, NEW n \in Nozzle,
           NEW e \in Employee, NEW q \in Nat, NEW p \in PaymentStates,
           SellShift(s, h, n, e, q, p)
    PROVE  IInv'
<1>. DEFINE r == [Idle EXCEPT !.step = "number sale", !.shift = h, !.nozzle = n,
                              !.employee = e, !.litres = q, !.payment = p]
<1>2. NoResource \in Resources
  BY ResourcesTyped
<1>3. /\ r \in Requests
      /\ r.step = "number sale"
      /\ r.shift = h
      /\ r.nozzle = n
      /\ r.employee = e
      /\ r.litres = q
  <2>1. q \in Int
    OBVIOUS
  <2>. QED BY <2>1, IdleTyped, <1>2 DEF Requests
<1>4. ContinueIf(s, (shift[h] = "open"), r) /\ UNCHANGED data
  BY DEF SellShift
<1>. HIDE DEF r
<1>5. Good(r)
  BY <1>3 DEF Good, WellFormed
<1>. QED BY <1>4, <1>5, CheckStep

\* CancelSaleCheck: The sale is not cancelled yet.
LEMMA CancelSaleCheckKeeps ==
    ASSUME IInv, NEW s \in Session, NEW i \in DOMAIN sales,
           CancelSaleCheck(s, i)
    PROVE  IInv'
<1>. DEFINE r == [Idle EXCEPT !.step = "read tank", !.row = i,
                              !.resource = <<"sales", i>>,
                              !.litres = sales[i].litres]
<1>1. i \in Nat /\ sales[i].litres \in Int
  BY RowsTyped DEF Sales
<1>2. <<"sales", i>> \in Resources
  BY ResourcesTyped, <1>1
<1>3. /\ r \in Requests
      /\ r.step = "read tank"
      /\ r.row = i
      /\ r.litres = sales[i].litres
  BY IdleTyped, <1>2, <1>1 DEF Requests
<1>4. ContinueIf(s, (sales[i].status = "completed"), r) /\ UNCHANGED data
  BY DEF CancelSaleCheck
<1>. HIDE DEF r
<1>5. Good(r)
  BY <1>3, <1>1 DEF Good, WellFormed
<1>. QED BY <1>4, <1>5, CheckStep

\* PaymentCheck: The payment was collected.
LEMMA PaymentCheckKeeps ==
    ASSUME IInv, NEW s \in Session, NEW i \in DOMAIN sales,
           PaymentCheck(s, i)
    PROVE  IInv'
<1>1. PICK to \in {"fail payment", "refund payment"} :
           ContinueIf(s, sales[i].payment = "success",
             [Idle EXCEPT !.step = to, !.row = i,
                          !.resource = <<"payments", i>>])
  BY DEF PaymentCheck
<1>. DEFINE r == [Idle EXCEPT !.step = to, !.row = i,
                              !.resource = <<"payments", i>>]
<1>2. i \in Nat /\ <<"payments", i>> \in Resources
  BY RowsTyped, ResourcesTyped
<1>3. /\ r \in Requests
      /\ r.step = to
      /\ r.row = i
  BY IdleTyped, <1>2 DEF Requests
<1>4. ContinueIf(s, sales[i].payment = "success", r) /\ UNCHANGED data
  BY <1>1 DEF PaymentCheck
<1>. HIDE DEF r
<1>5. Good(r)
  BY <1>3 DEF Good, WellFormed
<1>. QED BY <1>4, <1>5, CheckStep

\* NumberSale: The next receipt number is at most one past the sales.
LEMMA NumberSaleKeeps ==
    ASSUME IInv, NEW s \in Session, NumberSale(s)
    PROVE  IInv'
<1>. DEFINE r == [request[s] EXCEPT !.step = "sell", !.number = NextReceipt]
<1>1. NextReceipt \in 1..(Len(sales) + 1) /\ NextReceipt \in Nat
  BY NextIsLength DEF IInv, DataOK
<1>2. request[s].step = "number sale" /\ Good(request[s])
  BY DEF NumberSale, IInv
<1>3. /\ r \in Requests
      /\ r.step = "sell" /\ r.number = NextReceipt
      /\ r.shift \in Shift /\ r.nozzle \in Nozzle /\ r.employee \in Employee
      /\ r.litres \in Nat
  BY <1>1, <1>2 DEF Good, WellFormed, Requests
<1>4. Continue(s, r) /\ UNCHANGED data
  BY DEF NumberSale
<1>. HIDE DEF r
<1>5. Good(r)
  BY <1>1, <1>3 DEF Good, WellFormed
<1>. QED BY <1>4, <1>5, RequestStep

\* ReadTank: The adjustment fits the tank as it was read.
LEMMA ReadTankKeeps ==
    ASSUME IInv, NEW s \in Session, ReadTank(s)
    PROVE  IInv'
<1>. DEFINE q == request[s].litres
            r == [request[s] EXCEPT !.step = "cancel sale", !.seen = stock]
<1>1. stock \in 0..Capacity /\ Capacity \in Nat /\ stock \in Int
  BY ForecourtAssumption DEF IInv, DataOK
<1>2. request[s].step = "read tank" /\ Good(request[s])
  BY DEF ReadTank, IInv
<1>3. request[s] \in Requests /\ request[s].row \in DOMAIN sales
  BY <1>2 DEF Good, WellFormed
<1>4. q \in Int
  BY <1>3 DEF Requests
<1>5. ContinueIf(s, Allowed("adjustment", stock + q), r) /\ UNCHANGED data
  BY DEF ReadTank
<1>6. /\ r \in Requests
      /\ r.step = "cancel sale"
      /\ r.seen = stock /\ r.litres = q
      /\ r.row = request[s].row
  BY <1>1, <1>3 DEF Requests
<1>. HIDE DEF r, q
<1>7. ASSUME Allowed("adjustment", stock + q) PROVE Good(r)
  <2>1. stock + q \in 0..Capacity
    BY <1>1, <1>4, <1>7, AllowedStaysInTank
  <2>2. r.seen + r.litres = stock + q
    BY <1>6
  <2>3. r.seen + r.litres \in 0..Capacity /\ r.seen + r.litres \in Nat
    BY <1>1, <2>1, <2>2
  <2>. QED BY <1>3, <1>6, <2>3 DEF Good, WellFormed
<1>. QED BY <1>5, <1>7, CheckStep

\* MoveStockCheck: The movement fits the tank as it was read.
LEMMA MoveStockCheckKeeps ==
    ASSUME IInv, NEW s \in Session, NEW type \in MovementTypes, NEW q \in Int,
           MoveStockCheck(s, type, q)
    PROVE  IInv'
<1>. DEFINE r == [Idle EXCEPT !.step = "move stock",
                              !.resource = <<"tanks", 0>>,
                              !.type = type, !.litres = q, !.seen = stock]
<1>1. stock \in 0..Capacity /\ Capacity \in Nat /\ stock \in Int
  BY ForecourtAssumption DEF IInv, DataOK
<1>2. (type = "receipt" => q > 0) /\ (type \in {"issue", "internal"} => q < 0)
  BY DEF MoveStockCheck
<1>3. <<"tanks", 0>> \in Resources
  BY ResourcesTyped
<1>4. /\ r \in Requests
      /\ r.step = "move stock"
      /\ r.seen = stock
      /\ r.litres = q
  BY IdleTyped, <1>1, <1>3 DEF Requests
<1>5. ContinueIf(s, Allowed(type, stock + q), r) /\ UNCHANGED data
  BY DEF MoveStockCheck
<1>. HIDE DEF r
<1>6. ASSUME Allowed(type, stock + q) PROVE Good(r)
  <2>1. stock + q \in 0..Capacity
    BY <1>1, <1>2, <1>6, AllowedStaysInTank
  <2>2. r.seen + r.litres = stock + q
    BY <1>4
  <2>3. r.seen + r.litres \in 0..Capacity /\ r.seen + r.litres \in Nat
    BY <1>1, <2>1, <2>2
  <2>. QED BY <1>4, <2>3 DEF Good, WellFormed
<1>. QED BY <1>5, <1>6, CheckStep

-----------------------------------------------------------------------------
(***************************************************************************)
(* The writes: each changes rows and answers.                              *)
(***************************************************************************)

\* A sale recorded under the next number is typed, keeps the receipts in
\* order and draws its litres from the tank.
LEMMA RecordSaleKeeps ==
    ASSUME DataOK, NEW h \in Shift, NEW n \in Nozzle, NEW e \in Employee,
           NEW q \in Nat, NEW p \in PaymentStates, NEW number,
           number = Len(sales) + 1, stock - q \in 0..Capacity,
           RecordSale(h, n, e, q, number, p), UNCHANGED shift,
           assigned' \in Seq(Assignments)
    PROVE  DataOK' /\ Len(sales) <= Len(sales')
<1>. DEFINE x == [receipt |-> number, shift |-> h, nozzle |-> n, employee |-> e,
                  litres |-> q, status |-> "completed", payment |-> p]
            m == [type |-> "issue", litres |-> -q, sale |-> Len(sales) + 1]
<1>1. /\ sales \in Seq(Sales) /\ movements \in Seq(Movements)
      /\ Len(sales) \in Nat
  BY DEF DataOK
<1>2. sales' = Append(sales, x) /\ movements' = Append(movements, m)
      /\ stock' = stock - q
  BY DEF RecordSale
<1>3. x \in Sales
  BY <1>1 DEF Sales
<1>4. m \in Movements
  <2>1. -q \in Int
    OBVIOUS
  <2>. QED BY <1>1, <2>1 DEF Movements
<1>5. x.receipt = number
  OBVIOUS
<1>. HIDE DEF x, m
<1>6. sales' \in Seq(Sales) /\ movements' \in Seq(Movements)
  BY <1>1, <1>2, <1>3, <1>4
<1>7. Len(sales') = Len(sales) + 1
      /\ \A i \in DOMAIN sales' : sales'[i] = IF i = Len(sales) + 1 THEN x ELSE sales[i]
  BY <1>1, <1>2
<1>8. \A i \in DOMAIN sales' : i = Len(sales) + 1 \/ i \in DOMAIN sales
  BY <1>1, <1>6, <1>7
<1>9. ReceiptsInOrder'
  BY <1>5, <1>7, <1>8 DEF DataOK, ReceiptsInOrder
<1>10. shift' \in [Shift -> ShiftStates] /\ stock' \in 0..Capacity
  BY <1>2 DEF DataOK
<1>. QED BY <1>1, <1>6, <1>7, <1>9, <1>10 DEF DataOK

\* Fields of one row may change if the row stays typed and keeps its receipt.
LEMMA SaleChanged ==
    ASSUME DataOK, NEW i \in DOMAIN sales, NEW x \in Sales,
           x.receipt = sales[i].receipt,
           sales' = [sales EXCEPT ![i] = x]
    PROVE  sales' \in Seq(Sales) /\ Len(sales') = Len(sales) /\ ReceiptsInOrder'
<1>1. sales \in Seq(Sales)
  BY DEF DataOK
<1>2. /\ sales' \in Seq(Sales) /\ Len(sales') = Len(sales)
      /\ DOMAIN sales' = DOMAIN sales
      /\ \A j \in DOMAIN sales : sales'[j] = IF j = i THEN x ELSE sales[j]
  BY <1>1
<1>3. ReceiptsInOrder'
  BY <1>2 DEF DataOK, ReceiptsInOrder
<1>. QED BY <1>2, <1>3

\* Replacing one assignment by another leaves as many of them, all well formed.
LEMMA AssignmentChanged ==
    ASSUME DataOK, NEW a \in DOMAIN assigned, NEW x \in Assignments,
           assigned' = [assigned EXCEPT ![a] = x]
    PROVE  assigned' \in Seq(Assignments) /\ Len(assigned') = Len(assigned)
<1>1. assigned \in Seq(Assignments)
  BY DEF DataOK
<1>. QED BY <1>1

\* A shift is opened, closed or reopened.
LEMMA ShiftWriteKeeps ==
    ASSUME IInv, NEW s \in Session, OpenShift(s) \/ CloseShift(s) \/ ReopenShift(s)
    PROVE  IInv'
<1>1. DataOK /\ request[s].shift \in Shift /\ Continue(s, Idle)
  BY DEF IInv, OpenShift, CloseShift, ReopenShift, Good, WellFormed
<1>2. shift' \in [Shift -> ShiftStates] /\ UNCHANGED <<assigned, sales, movements, stock>>
  BY <1>1 DEF DataOK, OpenShift, CloseShift, ReopenShift
<1>3. DataOK'
  BY <1>1, <1>2 DEF DataOK, ReceiptsInOrder
<1>4. Len(assigned) <= Len(assigned') /\ Len(sales) <= Len(sales')
  BY <1>1, <1>2 DEF DataOK
<1>. QED BY <1>1, <1>3, <1>4, WriteStep

\* An assignment is made.
LEMMA AssignKeeps ==
    ASSUME IInv, NEW s \in Session, Assign(s)
    PROVE  IInv'
<1>. DEFINE x == [shift |-> request[s].shift, nozzle |-> request[s].nozzle,
                  employee |-> request[s].employee, status |-> "active",
                  dispensed |-> 0]
<1>1. /\ DataOK /\ Continue(s, Idle)
      /\ request[s].shift \in Shift /\ request[s].nozzle \in Nozzle
      /\ request[s].employee \in Employee
  BY DEF IInv, Assign, Good, WellFormed
<1>2. assigned' = Append(assigned, x) /\ UNCHANGED <<shift, sales, movements, stock>>
  BY DEF Assign
<1>3. x \in Assignments
  BY <1>1 DEF Assignments
<1>. HIDE DEF x
<1>4. assigned' \in Seq(Assignments) /\ Len(assigned) <= Len(assigned')
  BY <1>1, <1>2, <1>3 DEF DataOK
<1>5. DataOK' /\ Len(sales) <= Len(sales')
  BY <1>1, <1>2, <1>4 DEF DataOK, ReceiptsInOrder
<1>. QED BY <1>1, <1>4, <1>5, WriteStep

\* An assignment is cancelled.
LEMMA CancelAssignmentKeeps ==
    ASSUME IInv, NEW s \in Session, CancelAssignment(s)
    PROVE  IInv'
<1>. DEFINE a == request[s].row
            x == [assigned[a] EXCEPT !.status = "cancelled"]
<1>1. DataOK /\ Continue(s, Idle) /\ a \in DOMAIN assigned
  BY DEF IInv, CancelAssignment, Good, WellFormed
<1>2. assigned[a] \in Assignments
  BY <1>1, RowsTyped
<1>3. x \in Assignments
  BY <1>2 DEF Assignments
<1>4. assigned' = [assigned EXCEPT ![a] = x] /\ UNCHANGED <<shift, sales, movements, stock>>
  BY DEF CancelAssignment
<1>. HIDE DEF a, x
<1>5. assigned' \in Seq(Assignments) /\ Len(assigned') = Len(assigned)
  BY <1>1, <1>3, <1>4, AssignmentChanged
<1>6. /\ DataOK' /\ Len(sales) <= Len(sales')
      /\ Len(assigned) <= Len(assigned')
  BY <1>1, <1>4, <1>5 DEF DataOK, ReceiptsInOrder
<1>. QED BY <1>1, <1>6, WriteStep

\* An assignment is completed, and what its sales do not cover is sold.
LEMMA CompleteKeeps ==
    ASSUME IInv, NEW s \in Session, Complete(s)
    PROVE  IInv'
<1>. DEFINE r == request[s]
            a == assigned[r.row]
            rest == r.litres - Recorded(a.shift, a.nozzle, a.employee)
            c == [[a EXCEPT !.status = "completed"] EXCEPT !.dispensed = r.litres]
            closed == [assigned EXCEPT ![r.row].status = "completed",
                                       ![r.row].dispensed = r.litres]
<1>1. /\ DataOK /\ Continue(s, Idle) /\ UNCHANGED shift
      /\ r.row \in DOMAIN assigned /\ r.litres \in Nat
  BY DEF IInv, Complete, Good, WellFormed
<1>2. a \in Assignments
  BY <1>1, RowsTyped
<1>3. c \in Assignments
  BY <1>1, <1>2 DEF Assignments
<1>4. closed = [assigned EXCEPT ![r.row] = c]
  BY <1>1 DEF DataOK
<1>5. \/ rest \notin Positive /\ assigned' = closed /\ UNCHANGED <<sales, movements, stock>>
      \/ /\ rest \in Positive /\ Allowed("issue", stock - rest)
         /\ assigned' = closed
         /\ RecordSale(a.shift, a.nozzle, a.employee, rest, NextReceipt, "success")
      \/ UNCHANGED <<assigned, sales, movements, stock>>
  BY DEF Complete
<1>6. a.shift \in Shift /\ a.nozzle \in Nozzle /\ a.employee \in Employee
  BY <1>2 DEF Assignments
<1>7. stock \in 0..Capacity /\ Capacity \in Nat /\ NextReceipt = Len(sales) + 1
      /\ assigned \in Seq(Assignments) /\ sales \in Seq(Sales)
  BY <1>1, NextIsLength, ForecourtAssumption DEF DataOK
<1>. HIDE DEF r, a, rest, c, closed
<1>8. assigned' = closed => assigned' \in Seq(Assignments)
                           /\ Len(assigned') = Len(assigned)
  BY <1>1, <1>3, <1>4, AssignmentChanged
<1>9. CASE rest \in Positive /\ Allowed("issue", stock - rest) /\ assigned' = closed
           /\ RecordSale(a.shift, a.nozzle, a.employee, rest, NextReceipt, "success")
  <2>1. rest \in Nat /\ stock - rest \in 0..Capacity
    <3>1. rest \in Nat /\ stock - rest >= 0
      BY <1>9 DEF Positive, Allowed
    <3>. QED BY <1>7, <3>1
  <2>2. DataOK' /\ Len(sales) <= Len(sales')
    BY <1>1, <1>6, <1>7, <1>8, <1>9, <2>1, RecordSaleKeeps
  <2>3. Len(assigned) <= Len(assigned')
    BY <1>7, <1>8, <1>9
  <2>. QED BY <1>1, <2>2, <2>3, WriteStep
<1>10. CASE UNCHANGED <<sales, movements, stock>>
            /\ (assigned' = closed \/ UNCHANGED assigned)
  <2>1. assigned' \in Seq(Assignments) /\ Len(assigned') = Len(assigned)
    BY <1>7, <1>8, <1>10
  <2>2. DataOK' /\ Len(sales) <= Len(sales') /\ Len(assigned) <= Len(assigned')
    BY <1>1, <1>7, <1>10, <2>1 DEF DataOK, ReceiptsInOrder
  <2>. QED BY <1>1, <2>2, WriteStep
<1>. QED BY <1>5, <1>9, <1>10

\* A sale is recorded, unless its number is taken or the tank too low.
LEMMA SellKeeps ==
    ASSUME IInv, NEW s \in Session, Sell(s)
    PROVE  IInv'
<1>. DEFINE r == request[s]
            sold == /\ r.number \notin ReceiptsUsed
                    /\ Allowed("issue", stock - r.litres)
                    /\ RecordSale(r.shift, r.nozzle, r.employee, r.litres,
                                  r.number, r.payment)
<1>1. /\ DataOK /\ Continue(s, Idle) /\ UNCHANGED <<shift, assigned>>
      /\ sold \/ UNCHANGED <<sales, movements, stock>>
  BY DEF IInv, Sell
<1>2. /\ r.shift \in Shift /\ r.nozzle \in Nozzle /\ r.employee \in Employee
      /\ r.litres \in Nat /\ r.number \in 1..(Len(sales) + 1) /\ r \in Requests
  BY DEF IInv, Sell, Good, WellFormed
<1>3. r.payment \in PaymentStates
  BY <1>2 DEF Requests
<1>4. /\ assigned \in Seq(Assignments) /\ sales \in Seq(Sales)
      /\ stock \in 0..Capacity /\ Capacity \in Nat
      /\ ReceiptsUsed = 1..Len(sales)
  BY <1>1, NextIsLength, ForecourtAssumption DEF DataOK
<1>5. Len(assigned) <= Len(assigned')
  BY <1>1, <1>4
<1>6. CASE sold
  <2>1. r.number = Len(sales) + 1
    BY <1>2, <1>4, <1>6
  <2>2. stock - r.litres >= 0
    BY <1>6 DEF Allowed
  <2>3. stock - r.litres \in 0..Capacity
    BY <1>2, <1>4, <2>2
  <2>4. DataOK' /\ Len(sales) <= Len(sales')
    BY <1>1, <1>2, <1>3, <1>4, <1>6, <2>1, <2>3, RecordSaleKeeps
  <2>. QED BY <1>1, <1>5, <2>4, WriteStep
<1>7. CASE UNCHANGED <<sales, movements, stock>>
  <2>1. DataOK' /\ Len(sales) <= Len(sales')
    BY <1>1, <1>4, <1>7 DEF DataOK, ReceiptsInOrder
  <2>. QED BY <1>1, <1>5, <2>1, WriteStep
<1>. QED BY <1>1, <1>6, <1>7

\* A sale is cancelled and its fuel returned to the level that was read.
LEMMA CancelSaleKeeps ==
    ASSUME IInv, NEW s \in Session, CancelSale(s)
    PROVE  IInv'
<1>. DEFINE r == request[s]
            i == r.row
            x == [[sales[i] EXCEPT !.status = "cancelled"]
                     EXCEPT !.payment = PaymentOfCancelled(@)]
            m == [type |-> "adjustment", litres |-> r.litres, sale |-> i]
<1>1. /\ DataOK /\ Continue(s, Idle) /\ UNCHANGED <<shift, assigned>>
      /\ stock' = r.seen + r.litres /\ movements' = Append(movements, m)
  BY DEF IInv, CancelSale
<1>2. /\ i \in DOMAIN sales /\ r.seen + r.litres \in 0..Capacity
      /\ r \in Requests
  BY DEF IInv, CancelSale, Good, WellFormed
<1>3. r.litres \in Int /\ i \in Nat
  BY <1>2 DEF Requests
<1>4. m \in Movements
  BY <1>3 DEF Movements
<1>5. /\ sales[i] \in Sales /\ sales \in Seq(Sales)
      /\ assigned \in Seq(Assignments) /\ movements \in Seq(Movements)
  BY <1>1, <1>2, RowsTyped DEF DataOK
<1>6. sales' = [sales EXCEPT ![i] = x]
  BY <1>2, <1>5 DEF CancelSale
<1>7. x \in Sales /\ x.receipt = sales[i].receipt
  <2>1. PaymentOfCancelled(sales[i].payment) \in PaymentStates
    BY DEF PaymentOfCancelled
  <2>. QED BY <1>5, <2>1 DEF Sales
<1>. HIDE DEF x, m, r, i
<1>8. sales' \in Seq(Sales) /\ Len(sales') = Len(sales) /\ ReceiptsInOrder'
  BY <1>1, <1>2, <1>6, <1>7, SaleChanged
<1>9. movements' \in Seq(Movements)
  BY <1>1, <1>4, <1>5
<1>10. DataOK' /\ Len(sales) <= Len(sales') /\ Len(assigned) <= Len(assigned')
  BY <1>1, <1>2, <1>5, <1>8, <1>9 DEF DataOK
<1>. QED BY <1>1, <1>10, WriteStep

\* A payment is marked failed or refunded.
LEMMA PaymentWriteKeeps ==
    ASSUME IInv, NEW s \in Session, FailPayment(s) \/ RefundPayment(s)
    PROVE  IInv'
<1>. DEFINE i == request[s].row
<1>1. PICK p \in {"failed", "refunded"} :
           sales' = [sales EXCEPT ![i].payment = p]
  BY DEF FailPayment, RefundPayment
<1>. DEFINE x == [sales[i] EXCEPT !.payment = p]
<1>2. /\ DataOK /\ Continue(s, Idle) /\ i \in DOMAIN sales
      /\ UNCHANGED <<shift, assigned, movements, stock>>
  BY DEF IInv, FailPayment, RefundPayment, Good, WellFormed
<1>3. /\ sales[i] \in Sales /\ sales \in Seq(Sales)
      /\ assigned \in Seq(Assignments)
  BY <1>2, RowsTyped DEF DataOK
<1>4. x \in Sales /\ x.receipt = sales[i].receipt
  BY <1>3 DEF Sales
<1>5. sales' = [sales EXCEPT ![i] = x]
  BY <1>1
<1>. HIDE DEF x, i
<1>6. sales' \in Seq(Sales) /\ Len(sales') = Len(sales) /\ ReceiptsInOrder'
  BY <1>2, <1>4, <1>5, SaleChanged
<1>7. DataOK' /\ Len(sales) <= Len(sales') /\ Len(assigned) <= Len(assigned')
  BY <1>2, <1>3, <1>6 DEF DataOK
<1>. QED BY <1>2, <1>7, WriteStep

\* A movement is recorded at the level it was judged by.
LEMMA MoveStockKeeps ==
    ASSUME IInv, NEW s \in Session, MoveStock(s)
    PROVE  IInv'
<1>. DEFINE r == request[s]
            m == [type |-> r.type, litres |-> r.litres, sale |-> 0]
<1>1. /\ DataOK /\ Continue(s, Idle) /\ UNCHANGED <<shift, assigned, sales>>
      /\ stock' = r.seen + r.litres /\ movements' = Append(movements, m)
  BY DEF IInv, MoveStock
<1>2. r.seen + r.litres \in 0..Capacity /\ r \in Requests
  BY DEF IInv, MoveStock, Good
<1>3. m \in Movements
  <2>1. r.type \in MovementTypes /\ r.litres \in Int
    BY <1>2 DEF Requests
  <2>. QED BY <2>1 DEF Movements
<1>. HIDE DEF r, m
<1>4. movements' \in Seq(Movements)
  BY <1>1, <1>3 DEF DataOK
<1>5. DataOK' /\ Len(sales) <= Len(sales') /\ Len(assigned) <= Len(assigned')
  BY <1>1, <1>2, <1>4 DEF DataOK, ReceiptsInOrder
<1>. QED BY <1>1, <1>5, WriteStep

-----------------------------------------------------------------------------
(***************************************************************************)
(* The invariant, and what it gives.                                       *)
(***************************************************************************)

\* It holds before anything was done.
LEMMA InitEstablishes == Init => IInv
<1>. SUFFICES ASSUME Init PROVE IInv
  OBVIOUS
<1>1. DataOK
  BY ForecourtAssumption DEF Init, DataOK, ReceiptsInOrder
<1>2. request = [t \in Session |-> Idle]
  BY DEF Init
<1>. QED BY <1>1, <1>2, IdleIsGood, IdleTyped DEF IInv

\* A crash ends every request and leaves the data.
LEMMA CrashKeeps == IInv /\ Crash => IInv'
<1>. SUFFICES ASSUME IInv, Crash PROVE IInv'
  OBVIOUS
<1>1. UNCHANGED data /\ request' = [t \in Session |-> Idle]
  BY DEF Crash
<1>2. DataOK'
  BY <1>1 DEF IInv, DataOK, data, ReceiptsInOrder
<1>3. Good(Idle)'
  BY <1>1, IdleIsGood DEF Good, WellFormed, data
<1>. QED BY <1>1, <1>2, <1>3, IdleTyped DEF IInv

\* Litres are naturals, movements integers.
LEMMA LitresTyped == Litres \subseteq Nat /\ (-MaxLitres..MaxLitres) \subseteq Int
BY ForecourtAssumption DEF Litres

\* Every step of the forecourt keeps its data and requests well formed.
LEMMA NextKeeps == IInv /\ [Next]_vars => IInv'
<1>. SUFFICES ASSUME IInv, [Next]_vars PROVE IInv'
  OBVIOUS
<1>1. CASE UNCHANGED vars
  BY <1>1 DEF vars, IInv, DataOK, Good, WellFormed, ReceiptsInOrder
<1>2. CASE Crash
  BY <1>2, CrashKeeps
<1>3. ASSUME NEW s \in Session, ShiftStep(s) PROVE IInv'
  <2>1. CASE \E h \in Shift : OpenShiftCheck(s, h) \/ CloseShiftCheck(s, h)
                                 \/ ReopenShiftCheck(s, h)
    BY <2>1, OpenShiftCheckKeeps, CloseShiftCheckKeeps, ReopenShiftCheckKeeps
  <2>2. CASE \E h \in Shift, n \in Nozzle, e \in Employee : AssignShift(s, h, n, e)
    BY <2>2, AssignShiftKeeps
  <2>3. CASE \E a \in DOMAIN assigned :
               \/ CancelAssignmentCheck(s, a)
               \/ \E q \in {0} \cup Litres : CompleteCheck(s, a, q)
    <3>1. {0} \cup Litres \subseteq Nat
      BY LitresTyped
    <3>. QED BY <2>3, <3>1, CancelAssignmentCheckKeeps, CompleteCheckKeeps
  <2>4. CASE OpenShift(s) \/ CloseShift(s) \/ ReopenShift(s)
    BY <2>4, ShiftWriteKeeps
  <2>5. CASE CheckEmployee(s) \/ CheckNozzle(s) \/ CheckActive(s)
    BY <2>5, CheckEmployeeKeeps, CheckNozzleKeeps, CheckActiveKeeps
  <2>6. CASE Assign(s) \/ Complete(s) \/ CancelAssignment(s)
    BY <2>6, AssignKeeps, CompleteKeeps, CancelAssignmentKeeps
  <2>. QED BY <1>3, <2>1, <2>2, <2>3, <2>4, <2>5, <2>6 DEF ShiftStep
<1>4. ASSUME NEW s \in Session, SaleStep(s) PROVE IInv'
  <2>1. CASE \E h \in Shift, n \in Nozzle, e \in Employee, q \in Litres,
                p \in {"pending", "success"} : SellShift(s, h, n, e, q, p)
    <3>1. {"pending", "success"} \subseteq PaymentStates
      OBVIOUS
    <3>. QED BY <2>1, <3>1, LitresTyped, SellShiftKeeps
  <2>2. CASE \E i \in DOMAIN sales : CancelSaleCheck(s, i) \/ PaymentCheck(s, i)
    BY <2>2, CancelSaleCheckKeeps, PaymentCheckKeeps
  <2>3. CASE NumberSale(s) \/ Sell(s) \/ ReadTank(s) \/ CancelSale(s)
    BY <2>3, NumberSaleKeeps, SellKeeps, ReadTankKeeps, CancelSaleKeeps
  <2>4. CASE FailPayment(s) \/ RefundPayment(s)
    BY <2>4, PaymentWriteKeeps
  <2>. QED BY <1>4, <2>1, <2>2, <2>3, <2>4 DEF SaleStep
<1>5. ASSUME NEW s \in Session, TankStep(s) PROVE IInv'
  <2>1. CASE \E type \in MovementTypes, q \in -MaxLitres..MaxLitres :
               MoveStockCheck(s, type, q)
    BY <2>1, LitresTyped, MoveStockCheckKeeps
  <2>2. CASE MoveStock(s)
    BY <2>2, MoveStockKeeps
  <2>. QED BY <1>5, <2>1, <2>2 DEF TankStep
<1>. QED BY <1>1, <1>2, <1>3, <1>4, <1>5 DEF Next

\* So they are well formed in every state the program reaches.
LEMMA Invariant == Spec => []IInv
<1>1. Init => IInv
  BY InitEstablishes
<1>2. IInv /\ [Next]_vars => IInv'
  BY NextKeeps
<1>. QED BY <1>1, <1>2, PTL DEF Spec

\* Whatever the requests do and however they interleave, with or without
\* the record locks, every variable keeps its type: no request writes to a
\* row that does not exist, or a negative stock (shift_service.py,
\* sale_service.py, tank_service.py).
THEOREM TypeCorrect == Spec => []TypeOK
<1>1. IInv => TypeOK
  <2>. SUFFICES ASSUME IInv PROVE TypeOK
    OBVIOUS
  <2>1. stock \in Nat
    BY ForecourtAssumption DEF IInv, DataOK
  <2>. QED BY <2>1 DEF IInv, DataOK, Good, TypeOK
<1>. QED BY <1>1, Invariant, PTL

\* The book stock never leaves the tank's capacity, even though a movement
\* may be judged, and written, from a level that has changed since
\* (tank_service.py: _record_transaction_impl).
THEOREM StockStaysInTank == Spec => []StockInTank
<1>1. IInv => StockInTank
  BY DEF IInv, DataOK, StockInTank
<1>. QED BY <1>1, Invariant, PTL

\* Receipts stay numbered without gap or repetition although every sale
\* works its number out before it holds any lock
\* (sale_repository.py: next_receipt_number).
THEOREM ReceiptsStayInOrder == Spec => []ReceiptsInOrder
<1>1. IInv => ReceiptsInOrder
  BY DEF IInv, DataOK
<1>. QED BY <1>1, Invariant, PTL

-----------------------------------------------------------------------------
(***************************************************************************)
(* Behind the record locks nobody is assigned twice.                       *)
(***************************************************************************)

\* No assignment became active, and those that are active are the same.
RowsKept ==
    \A a \in Active' : /\ a \in Active
                       /\ assigned'[a].shift = assigned[a].shift
                       /\ assigned'[a].nozzle = assigned[a].nozzle
                       /\ assigned'[a].employee = assigned[a].employee

\* The record a request now holds was its own, or nobody's, or none.
Holds(s, r) ==
    \/ r.resource = NoResource
    \/ r.resource = request[s].resource
    \/ \A t \in Session : request[t].resource # r.resource

\* A step that does not take part in assigning keeps what the others know.
LEMMA QuietStep ==
    ASSUME IInv, AssignInv, NEW s \in Session, NEW r, Continue(s, r), RowsKept,
           r.step \notin AssigningSteps, Holds(s, r)
    PROVE  AssignInv'
<1>1. \A t \in Session : request'[t] = IF t = s THEN r ELSE request[t]
  BY DEF IInv, Continue
<1>2. NoDoubleAssignment'
  <2>1. NoDoubleAssignment
    BY DEF AssignInv
  <2>2. SUFFICES ASSUME NEW a \in Active', NEW b \in Active', a # b,
                        assigned'[a].shift = assigned'[b].shift
                 PROVE  /\ assigned'[a].nozzle # assigned'[b].nozzle
                        /\ assigned'[a].employee # assigned'[b].employee
    BY DEF NoDoubleAssignment
  <2>3. a \in Active /\ b \in Active
        /\ assigned[a].shift = assigned[b].shift
    BY <2>2 DEF RowsKept
  <2>4. assigned[a].nozzle # assigned[b].nozzle
        /\ assigned[a].employee # assigned[b].employee
    BY <2>1, <2>2, <2>3 DEF NoDoubleAssignment
  <2>. QED BY <2>2, <2>4 DEF RowsKept
<1>3. ASSUME NEW t \in Session, request'[t].step \in AssigningSteps
      PROVE  t # s /\ request'[t] = request[t]
  BY <1>1, <1>3
<1>4. HeldOnce'
  <2>1. HeldOnce
    BY DEF AssignInv
  <2>. QED BY <1>1, <2>1 DEF HeldOnce, Holds
<1>5. ASSUME NEW k, Knows(k) PROVE Knows(k)'
  BY <1>5 DEF Knows, RowsKept
<1>6. \A t \in Session : (request[t].step \in AssigningSteps => Knows(request[t]))'
  BY <1>3, <1>5 DEF AssignInv
<1>. QED BY <1>2, <1>4, <1>6 DEF AssignInv

\* A step that writes no table keeps every assignment and shift.
LEMMA DataKeepsRows == UNCHANGED data => RowsKept
BY DEF data, RowsKept, Active

\* A session with nothing to do relies on no assignment and holds no record.
LEMMA IdleIsQuiet == Idle.step \notin AssigningSteps /\ Idle.resource = NoResource
BY DEF Idle

\* A check of another kind of request.
LEMMA QuietCheck ==
    ASSUME IInv, AssignInv, NEW s \in Session, NEW r, NEW ok,
           ContinueIf(s, ok, r), UNCHANGED data,
           r.step \notin AssigningSteps, Holds(s, r)
    PROVE  AssignInv'
<1>1. CASE ok
  BY <1>1, QuietStep, DataKeepsRows DEF ContinueIf
<1>2. CASE ~ok
  <2>1. Continue(s, Idle) /\ Holds(s, Idle)
    BY <1>2, IdleIsQuiet DEF ContinueIf, Holds
  <2>. QED BY <2>1, QuietStep, DataKeepsRows, IdleIsQuiet
<1>. QED BY <1>1, <1>2

\* A write of another kind of request.
LEMMA QuietWrite ==
    ASSUME IInv, AssignInv, NEW s \in Session, Continue(s, Idle), RowsKept
    PROVE  AssignInv'
BY QuietStep, IdleIsQuiet DEF Holds

\* A request that was let in holds a record nobody else holds.
LEMMA AdmittedHolds ==
    ASSUME Gated, NEW s, NEW r, Admitted(r.resource)
    PROVE  Holds(s, r)
BY DEF Admitted, Holds

\* What else starts a request locks the record of its URL, or none.
LEMMA QuietStarts ==
    ASSUME Gated, IInv, AssignInv, NEW s \in Session, NEW r, NEW ok,
           NEW kind, NEW x, Starts(s, kind, x), r.resource = x,
           ContinueIf(s, ok, r), UNCHANGED data, r.step \notin AssigningSteps
    PROVE  AssignInv'
<1>1. Admitted(x)
  BY DEF Starts
<1>2. Holds(s, r)
  BY <1>1, AdmittedHolds
<1>. QED BY <1>2, QuietCheck

\* Requests of other kinds start.
LEMMA OpenShiftCheckQuiet ==
    ASSUME Gated, IInv, AssignInv, NEW s \in Session, NEW h \in Shift,
           OpenShiftCheck(s, h)
    PROVE  AssignInv'
<1>. DEFINE r == [Idle EXCEPT !.step = "open", !.shift = h]
<1>1. PICK kind, ok : Starts(s, kind, NoResource) /\ ContinueIf(s, ok, r)
  BY DEF OpenShiftCheck
<1>2. UNCHANGED data
  BY DEF OpenShiftCheck
<1>3. r.step \notin AssigningSteps /\ r.resource = NoResource
  BY DEF Idle
<1>. QED BY <1>1, <1>2, <1>3, QuietStarts

\* Starting to reopen a shift (shift_service.py) disturbs no assignment in progress.
LEMMA ReopenShiftCheckQuiet ==
    ASSUME Gated, IInv, AssignInv, NEW s \in Session, NEW h \in Shift,
           ReopenShiftCheck(s, h)
    PROVE  AssignInv'
<1>. DEFINE r == [Idle EXCEPT !.step = "reopen", !.shift = h,
                              !.resource = <<"shifts", h>>]
<1>1. PICK kind, ok : Starts(s, kind, <<"shifts", h>>) /\ ContinueIf(s, ok, r)
  BY DEF ReopenShiftCheck
<1>2. UNCHANGED data
  BY DEF ReopenShiftCheck
<1>3. r.step \notin AssigningSteps /\ r.resource = <<"shifts", h>>
  BY DEF Idle
<1>. QED BY <1>1, <1>2, <1>3, QuietStarts

\* Starting to cancel an assignment disturbs no assignment in progress.
LEMMA CancelAssignmentCheckQuiet ==
    ASSUME Gated, IInv, AssignInv, NEW s \in Session, NEW a \in DOMAIN assigned,
           CancelAssignmentCheck(s, a)
    PROVE  AssignInv'
<1>. DEFINE r == [Idle EXCEPT !.step = "cancel assignment", !.row = a,
                              !.resource = <<"shift-assignments", a>>]
<1>1. PICK kind, ok : Starts(s, kind, <<"shift-assignments", a>>) /\ ContinueIf(s, ok, r)
  BY DEF CancelAssignmentCheck
<1>2. UNCHANGED data
  BY DEF CancelAssignmentCheck
<1>3. r.step \notin AssigningSteps /\ r.resource = <<"shift-assignments", a>>
  BY DEF Idle
<1>. QED BY <1>1, <1>2, <1>3, QuietStarts

\* Starting to complete an assignment disturbs no assignment in progress.
LEMMA CompleteCheckQuiet ==
    ASSUME Gated, IInv, AssignInv, NEW s \in Session, NEW a \in DOMAIN assigned, NEW q,
           CompleteCheck(s, a, q)
    PROVE  AssignInv'
<1>. DEFINE r == [Idle EXCEPT !.step = "complete", !.row = a, !.litres = q,
                              !.resource = <<"shift-assignments", a>>]
<1>1. PICK kind, ok : Starts(s, kind, <<"shift-assignments", a>>) /\ ContinueIf(s, ok, r)
  BY DEF CompleteCheck
<1>2. UNCHANGED data
  BY DEF CompleteCheck
<1>3. r.step \notin AssigningSteps /\ r.resource = <<"shift-assignments", a>>
  BY DEF Idle
<1>. QED BY <1>1, <1>2, <1>3, QuietStarts

\* Starting a sale disturbs no assignment in progress.
LEMMA SellShiftQuiet ==
    ASSUME Gated, IInv, AssignInv, NEW s \in Session, NEW h, NEW n, NEW e, NEW q, NEW p,
           SellShift(s, h, n, e, q, p)
    PROVE  AssignInv'
<1>. DEFINE r == [Idle EXCEPT !.step = "number sale", !.shift = h, !.nozzle = n,
                              !.employee = e, !.litres = q, !.payment = p]
<1>1. PICK kind, ok : Starts(s, kind, NoResource) /\ ContinueIf(s, ok, r)
  BY DEF SellShift
<1>2. UNCHANGED data
  BY DEF SellShift
<1>3. r.step \notin AssigningSteps /\ r.resource = NoResource
  BY DEF Idle
<1>. QED BY <1>1, <1>2, <1>3, QuietStarts

\* Starting to cancel a sale disturbs no assignment in progress.
LEMMA CancelSaleCheckQuiet ==
    ASSUME Gated, IInv, AssignInv, NEW s \in Session, NEW i \in DOMAIN sales,
           CancelSaleCheck(s, i)
    PROVE  AssignInv'
<1>. DEFINE r == [Idle EXCEPT !.step = "read tank", !.row = i,
                              !.resource = <<"sales", i>>,
                              !.litres = sales[i].litres]
<1>1. PICK kind, ok : Starts(s, kind, <<"sales", i>>) /\ ContinueIf(s, ok, r)
  BY DEF CancelSaleCheck
<1>2. UNCHANGED data
  BY DEF CancelSaleCheck
<1>3. r.step \notin AssigningSteps /\ r.resource = <<"sales", i>>
  BY DEF Idle
<1>. QED BY <1>1, <1>2, <1>3, QuietStarts

\* Starting to move stock disturbs no assignment in progress.
LEMMA MoveStockCheckQuiet ==
    ASSUME Gated, IInv, AssignInv, NEW s \in Session, NEW type, NEW q,
           MoveStockCheck(s, type, q)
    PROVE  AssignInv'
<1>. DEFINE r == [Idle EXCEPT !.step = "move stock",
                              !.resource = <<"tanks", 0>>,
                              !.type = type, !.litres = q, !.seen = stock]
<1>1. PICK kind, ok : Starts(s, kind, <<"tanks", 0>>) /\ ContinueIf(s, ok, r)
  BY DEF MoveStockCheck
<1>2. UNCHANGED data
  BY DEF MoveStockCheck
<1>3. r.step \notin AssigningSteps /\ r.resource = <<"tanks", 0>>
  BY DEF Idle
<1>. QED BY <1>1, <1>2, <1>3, QuietStarts

\* Starting to close a shift, at either door, disturbs no assignment in progress.
LEMMA CloseShiftCheckQuiet ==
    ASSUME Gated, IInv, AssignInv, NEW s \in Session, NEW h \in Shift,
           CloseShiftCheck(s, h)
    PROVE  AssignInv'
<1>1. PICK door \in {<<"close", "shifts">>, <<"close desk", "close-shift">>} :
           /\ Starts(s, door[1], <<door[2], h>>)
           /\ ContinueIf(s, shift[h] = "open",
                [Idle EXCEPT !.step = "check active", !.shift = h,
                             !.resource = <<door[2], h>>])
           /\ UNCHANGED data
  BY DEF CloseShiftCheck
<1>. DEFINE x == <<door[2], h>>
            r == [Idle EXCEPT !.step = "check active", !.shift = h, !.resource = x]
<1>2. Starts(s, door[1], x) /\ ContinueIf(s, shift[h] = "open", r) /\ UNCHANGED data
  BY <1>1
<1>. HIDE DEF x
<1>3. r.step \notin AssigningSteps /\ r.resource = x
  BY DEF Idle
<1>. QED BY <1>2, <1>3, QuietStarts

\* Starting to fail or refund a payment disturbs no assignment in progress.
LEMMA PaymentCheckQuiet ==
    ASSUME Gated, IInv, AssignInv, NEW s \in Session, NEW i \in DOMAIN sales,
           PaymentCheck(s, i)
    PROVE  AssignInv'
<1>1. PICK to \in {"fail payment", "refund payment"} :
           ContinueIf(s, sales[i].payment = "success",
             [Idle EXCEPT !.step = to, !.row = i, !.resource = <<"payments", i>>])
  BY DEF PaymentCheck
<1>. DEFINE r == [Idle EXCEPT !.step = to, !.row = i,
                              !.resource = <<"payments", i>>]
<1>2. PICK kind : Starts(s, kind, <<"payments", i>>)
  BY DEF PaymentCheck
<1>3. ContinueIf(s, sales[i].payment = "success", r) /\ UNCHANGED data
  BY <1>1 DEF PaymentCheck
<1>4. r.step \notin AssigningSteps /\ r.resource = <<"payments", i>>
  BY DEF Idle
<1>. QED BY <1>2, <1>3, <1>4, QuietStarts

\* They go on: the record stays locked.
LEMMA CheckActiveQuiet ==
    ASSUME IInv, AssignInv, NEW s \in Session, CheckActive(s)
    PROVE  AssignInv'
<1>. DEFINE r == [request[s] EXCEPT !.step = "close"]
<1>1. PICK ok : ContinueIf(s, ok, r)
  BY DEF CheckActive
<1>2. request[s] \in Requests /\ UNCHANGED data
  BY DEF IInv, CheckActive
<1>3. r.step \notin AssigningSteps /\ r.resource = request[s].resource
  BY <1>2 DEF Requests
<1>. QED BY <1>1, <1>2, <1>3, QuietCheck DEF Holds

\* Reading the tank before its stock is written disturbs no assignment in progress.
LEMMA ReadTankQuiet ==
    ASSUME IInv, AssignInv, NEW s \in Session, ReadTank(s)
    PROVE  AssignInv'
<1>. DEFINE r == [request[s] EXCEPT !.step = "cancel sale", !.seen = stock]
<1>1. PICK ok : ContinueIf(s, ok, r)
  BY DEF ReadTank
<1>2. request[s] \in Requests /\ UNCHANGED data
  BY DEF IInv, ReadTank
<1>3. r.step \notin AssigningSteps /\ r.resource = request[s].resource
  BY <1>2 DEF Requests
<1>. QED BY <1>1, <1>2, <1>3, QuietCheck DEF Holds

\* Reading the last receipt number disturbs no assignment in progress.
LEMMA NumberSaleQuiet ==
    ASSUME IInv, AssignInv, NEW s \in Session, NumberSale(s)
    PROVE  AssignInv'
<1>. DEFINE r == [request[s] EXCEPT !.step = "sell", !.number = NextReceipt]
<1>1. Continue(s, r) /\ UNCHANGED data
  BY DEF NumberSale
<1>2. request[s] \in Requests
  BY DEF IInv
<1>3. r.step \notin AssigningSteps /\ r.resource = request[s].resource
  BY <1>2 DEF Requests
<1>. QED BY <1>1, <1>3, QuietStep, DataKeepsRows DEF Holds


\* Writes of other kinds: an assignment may end, none begins.
LEMMA WritesQuiet ==
    ASSUME IInv, AssignInv, NEW s \in Session,
           \/ OpenShift(s) \/ CloseShift(s) \/ ReopenShift(s)
           \/ Sell(s) \/ CancelSale(s) \/ FailPayment(s) \/ RefundPayment(s)
           \/ MoveStock(s)
    PROVE  AssignInv'
<1>1. Continue(s, Idle) /\ UNCHANGED assigned
  BY DEF OpenShift, CloseShift, ReopenShift, Sell, CancelSale, FailPayment,
         RefundPayment, MoveStock
<1>2. RowsKept
  BY <1>1 DEF RowsKept, Active
<1>. QED BY <1>1, <1>2, QuietWrite

\* One row's status becomes something else than active.
LEMMA EndedRow ==
    ASSUME DataOK, NEW a \in DOMAIN assigned, NEW x \in Assignments,
           x.status # "active", assigned' = [assigned EXCEPT ![a] = x]
    PROVE  RowsKept
<1>1. /\ DOMAIN assigned' = DOMAIN assigned
      /\ \A b \in DOMAIN assigned : assigned'[b] = IF b = a THEN x ELSE assigned[b]
  BY DEF DataOK
<1>. QED BY <1>1 DEF RowsKept, Active

\* An assignment that ends, completed or cancelled, makes nobody active.
LEMMA CompleteKeepsRows ==
    ASSUME IInv, NEW s \in Session, Complete(s)
    PROVE  RowsKept
<1>. DEFINE r == request[s]
            c == [[assigned[r.row] EXCEPT !.status = "completed"]
                     EXCEPT !.dispensed = r.litres]
            closed == [assigned EXCEPT ![r.row].status = "completed",
                                       ![r.row].dispensed = r.litres]
<1>1. DataOK /\ r.row \in DOMAIN assigned /\ r.litres \in Nat
  BY DEF IInv, Complete, Good, WellFormed
<1>2. assigned[r.row] \in Assignments
  BY <1>1, RowsTyped
<1>3. c \in Assignments /\ c.status = "completed"
  BY <1>1, <1>2 DEF Assignments
<1>4. closed = [assigned EXCEPT ![r.row] = c]
  BY <1>1 DEF DataOK
<1>5. assigned' = closed \/ UNCHANGED assigned
  BY DEF Complete
<1>. HIDE DEF c, closed, r
<1>6. CASE assigned' = closed
  <2>1. c.status # "active"
    BY <1>3
  <2>. QED BY <1>1, <1>3, <1>4, <1>6, <2>1, EndedRow
<1>7. CASE UNCHANGED assigned
  BY <1>7 DEF RowsKept, Active
<1>. QED BY <1>5, <1>6, <1>7

\* Cancelling an assignment adds nobody to a nozzle and closes no shift.
LEMMA CancelAssignmentKeepsRows ==
    ASSUME IInv, NEW s \in Session, CancelAssignment(s)
    PROVE  RowsKept
<1>. DEFINE a == request[s].row
            x == [assigned[a] EXCEPT !.status = "cancelled"]
<1>1. DataOK /\ a \in DOMAIN assigned
  BY DEF IInv, CancelAssignment, Good, WellFormed
<1>2. assigned[a] \in Assignments
  BY <1>1, RowsTyped
<1>3. x \in Assignments /\ x.status = "cancelled"
  BY <1>2 DEF Assignments
<1>4. assigned' = [assigned EXCEPT ![a] = x]
  BY DEF CancelAssignment
<1>. HIDE DEF a, x
<1>5. x.status # "active"
  BY <1>3
<1>. QED BY <1>1, <1>3, <1>4, <1>5, EndedRow

\* Completing an assignment disturbs no other assignment in progress.
LEMMA CompleteQuiet ==
    ASSUME IInv, AssignInv, NEW s \in Session, Complete(s)
    PROVE  AssignInv'
<1>1. Continue(s, Idle)
  BY DEF Complete
<1>. QED BY <1>1, CompleteKeepsRows, QuietWrite

\* Cancelling an assignment disturbs no other assignment in progress.
LEMMA CancelAssignmentQuiet ==
    ASSUME IInv, AssignInv, NEW s \in Session, CancelAssignment(s)
    PROVE  AssignInv'
<1>1. Continue(s, Idle)
  BY DEF CancelAssignment
<1>. QED BY <1>1, CancelAssignmentKeepsRows, QuietWrite

\* A request that goes on with what it knows keeps what the others know.
LEMMA AssigningStep ==
    ASSUME IInv, AssignInv, NEW s \in Session, NEW r, Continue(s, r),
           UNCHANGED data, Knows(r), Holds(s, r)
    PROVE  AssignInv'
<1>1. \A t \in Session : request'[t] = IF t = s THEN r ELSE request[t]
  BY DEF IInv, Continue
<1>2. NoDoubleAssignment'
  <2>1. NoDoubleAssignment /\ UNCHANGED assigned
    BY DEF AssignInv, data
  <2>. QED BY <2>1 DEF NoDoubleAssignment, Active
<1>3. HeldOnce'
  <2>1. HeldOnce
    BY DEF AssignInv
  <2>. QED BY <1>1, <2>1 DEF HeldOnce, Holds
<1>4. ASSUME NEW k, Knows(k) PROVE Knows(k)'
  BY <1>4 DEF Knows, Active, data
<1>5. \A t \in Session : (request[t].step \in AssigningSteps => Knows(request[t]))'
  BY <1>1, <1>4 DEF AssignInv
<1>. QED BY <1>2, <1>3, <1>5 DEF AssignInv

\* A request that assigns starts: it holds the shift's record alone.
LEMMA AssignShiftAlone ==
    ASSUME Gated, IInv, AssignInv, NEW s \in Session, NEW h \in Shift,
           NEW n \in Nozzle, NEW e \in Employee, AssignShift(s, h, n, e)
    PROVE  AssignInv'
<1>. DEFINE x == <<"shifts", h>>
            r == [Idle EXCEPT !.step = "assign employee", !.resource = x,
                              !.shift = h, !.nozzle = n, !.employee = e]
<1>1. Starts(s, "assign", x) /\ UNCHANGED data
      /\ ContinueIf(s, shift[h] = "open", r)
  BY DEF AssignShift
<1>2. r.step = "assign employee" /\ r.resource = x /\ r.shift = h
  BY DEF Idle
<1>3. Holds(s, r)
  BY <1>1, <1>2, AdmittedHolds DEF Starts
<1>. HIDE DEF r
<1>4. Knows(r)
  BY <1>2 DEF Knows
<1>5. CASE shift[h] = "open"
  <2>1. Continue(s, r)
    BY <1>1, <1>5 DEF ContinueIf
  <2>. QED BY <1>1, <1>3, <1>4, <2>1, AssigningStep
<1>6. CASE shift[h] # "open"
  <2>1. Continue(s, Idle)
    BY <1>1, <1>6 DEF ContinueIf
  <2>. QED BY <1>1, <2>1, QuietWrite, DataKeepsRows
<1>. QED BY <1>5, <1>6

\* It finds the employee free, then the nozzle.
LEMMA CheckEmployeeLearns ==
    ASSUME IInv, AssignInv, NEW s \in Session, CheckEmployee(s)
    PROVE  AssignInv'
<1>. DEFINE r == [request[s] EXCEPT !.step = "assign nozzle"]
            free == \A a \in Active : \/ assigned[a].shift # request[s].shift
                                     \/ assigned[a].employee # request[s].employee
<1>1. UNCHANGED data /\ ContinueIf(s, free, r) /\ request[s].step = "assign employee"
  BY DEF CheckEmployee
<1>2. request[s] \in Requests /\ Knows(request[s])
  BY <1>1 DEF IInv, AssignInv
<1>3. /\ r.step = "assign nozzle" /\ r.resource = request[s].resource
      /\ r.shift = request[s].shift /\ r.employee = request[s].employee
  BY <1>2 DEF Requests
<1>. HIDE DEF r
<1>4. CASE free
  <2>1. Continue(s, r)
    BY <1>1, <1>4 DEF ContinueIf
  <2>2. Knows(r) /\ Holds(s, r)
    BY <1>2, <1>3, <1>4 DEF Knows, Holds
  <2>. QED BY <1>1, <2>1, <2>2, AssigningStep
<1>5. CASE ~free
  <2>1. Continue(s, Idle)
    BY <1>1, <1>5 DEF ContinueIf
  <2>. QED BY <1>1, <2>1, QuietWrite, DataKeepsRows
<1>. QED BY <1>4, <1>5

\* A request that has looked at the nozzle knows that nobody stands there.
LEMMA CheckNozzleLearns ==
    ASSUME IInv, AssignInv, NEW s \in Session, CheckNozzle(s)
    PROVE  AssignInv'
<1>. DEFINE r == [request[s] EXCEPT !.step = "assign"]
            free == \A a \in Active : \/ assigned[a].shift # request[s].shift
                                     \/ assigned[a].nozzle # request[s].nozzle
<1>1. UNCHANGED data /\ ContinueIf(s, free, r) /\ request[s].step = "assign nozzle"
  BY DEF CheckNozzle
<1>2. request[s] \in Requests /\ Knows(request[s])
  BY <1>1 DEF IInv, AssignInv
<1>3. /\ r.step = "assign" /\ r.resource = request[s].resource
      /\ r.shift = request[s].shift /\ r.employee = request[s].employee
      /\ r.nozzle = request[s].nozzle
  BY <1>2 DEF Requests
<1>. HIDE DEF r
<1>4. CASE free
  <2>1. Continue(s, r)
    BY <1>1, <1>4 DEF ContinueIf
  <2>2. Knows(r) /\ Holds(s, r)
    BY <1>1, <1>2, <1>3, <1>4 DEF Knows, Holds
  <2>. QED BY <1>1, <2>1, <2>2, AssigningStep
<1>5. CASE ~free
  <2>1. Continue(s, Idle)
    BY <1>1, <1>5 DEF ContinueIf
  <2>. QED BY <1>1, <2>1, QuietWrite, DataKeepsRows
<1>. QED BY <1>4, <1>5

\* It writes the row: whoever else is assigning holds another shift.
LEMMA AssignIsSafe ==
    ASSUME IInv, AssignInv, NEW s \in Session, Assign(s)
    PROVE  AssignInv'
<1>. DEFINE r == request[s]
            x == [shift |-> r.shift, nozzle |-> r.nozzle, employee |-> r.employee,
                  status |-> "active", dispensed |-> 0]
            new == Len(assigned) + 1
<1>1. /\ assigned' = Append(assigned, x) /\ Continue(s, Idle)
      /\ r.step = "assign" /\ assigned \in Seq(Assignments)
  BY DEF Assign, IInv, DataOK
<1>2. Knows(r) /\ HeldOnce /\ NoDoubleAssignment
  BY <1>1 DEF AssignInv
<1>3. x.shift = r.shift /\ x.nozzle = r.nozzle /\ x.employee = r.employee
  OBVIOUS
<1>4. \A t \in Session : request'[t] = IF t = s THEN Idle ELSE request[t]
  BY <1>1 DEF IInv, Continue
<1>. HIDE DEF x, r
<1>5. /\ DOMAIN assigned' = DOMAIN assigned \cup {new}
      /\ new \notin DOMAIN assigned /\ assigned'[new] = x
      /\ \A a \in DOMAIN assigned : assigned'[a] = assigned[a]
  BY <1>1
<1>6. \A a \in Active' : a = new \/ a \in Active
  BY <1>5 DEF Active
<1>7. \A a \in Active : /\ a # new /\ assigned'[a] = assigned[a]
                        /\ assigned[a].shift = r.shift
                             => /\ assigned[a].employee # r.employee
                                /\ assigned[a].nozzle # r.nozzle
  BY <1>1, <1>2, <1>5 DEF Active, Knows
<1>. HIDE DEF new
<1>8. NoDoubleAssignment'
  <2>1. SUFFICES ASSUME NEW a \in Active', NEW b \in Active', a # b,
                        assigned'[a].shift = assigned'[b].shift
                 PROVE  /\ assigned'[a].nozzle # assigned'[b].nozzle
                        /\ assigned'[a].employee # assigned'[b].employee
    BY DEF NoDoubleAssignment
  <2>2. CASE a \in Active /\ b \in Active
    BY <1>2, <1>7, <2>1, <2>2 DEF NoDoubleAssignment
  <2>3. CASE a = new /\ b \in Active
    BY <1>3, <1>5, <1>7, <2>1, <2>3
  <2>4. CASE b = new /\ a \in Active
    BY <1>3, <1>5, <1>7, <2>1, <2>4
  <2>. QED BY <1>6, <2>1, <2>2, <2>3, <2>4
<1>9. HeldOnce'
  BY <1>2, <1>4, IdleIsQuiet DEF HeldOnce
<1>10. ASSUME NEW t \in Session, t # s, NEW k, k = request[t],
              k.step \in AssigningSteps
       PROVE  Knows(k)'
  <2>1. Knows(k)
    BY <1>10 DEF AssignInv
  <2>2. r.resource # k.resource
    <3>1. r.resource = <<"shifts", r.shift>> /\ r.resource # NoResource
      <4>1. r.resource = <<"shifts", r.shift>>
        BY <1>2 DEF Knows
      <4>2. r.resource[1] = "shifts" /\ NoResource[1] = "none"
        BY <4>1 DEF NoResource
      <4>. QED BY <4>1, <4>2
    <3>. QED BY <1>2, <1>10, <3>1 DEF HeldOnce, r
  <2>3. r.shift # k.shift
    BY <1>2, <2>1, <2>2 DEF Knows
  <2>. QED BY <1>3, <1>5, <1>6, <1>7, <2>1, <2>3 DEF Knows
<1>11. \A t \in Session : (request[t].step \in AssigningSteps => Knows(request[t]))'
  BY <1>4, <1>10, IdleIsQuiet
<1>. QED BY <1>8, <1>9, <1>11 DEF AssignInv


\* With the record locks, what a request assigning somebody has read stays true.
LEMMA AssignNextKeeps ==
    ASSUME Gated PROVE IInv /\ AssignInv /\ [Next]_vars => AssignInv'
<1>. SUFFICES ASSUME IInv, AssignInv, [Next]_vars PROVE AssignInv'
  OBVIOUS
<1>1. CASE UNCHANGED vars
  <2>1. UNCHANGED assigned /\ UNCHANGED request
    BY <1>1 DEF vars
  <2>2. NoDoubleAssignment <=> NoDoubleAssignment'
    BY <2>1 DEF NoDoubleAssignment, Active
  <2>3. HeldOnce <=> HeldOnce'
    BY <2>1 DEF HeldOnce
  <2>4. \A t \in Session : Knows(request[t]) <=> Knows(request[t])'
    BY <2>1, Zenon DEF Knows, Active
  <2>. QED BY <2>1, <2>2, <2>3, <2>4, Zenon DEF AssignInv
<1>2. CASE Crash
  <2>1. UNCHANGED assigned /\ \A t \in Session : request'[t] = Idle
    BY <1>2 DEF Crash, data
  <2>2. NoDoubleAssignment'
    <3>1. NoDoubleAssignment
      BY DEF AssignInv
    <3>. QED BY <2>1, <3>1 DEF NoDoubleAssignment, Active
  <2>. QED BY <2>1, <2>2, IdleIsQuiet DEF AssignInv, HeldOnce
<1>3. ASSUME NEW s \in Session, ShiftStep(s) PROVE AssignInv'
  <2>1. CASE \E h \in Shift : OpenShiftCheck(s, h) \/ CloseShiftCheck(s, h)
                                 \/ ReopenShiftCheck(s, h)
    BY <2>1, OpenShiftCheckQuiet, CloseShiftCheckQuiet, ReopenShiftCheckQuiet
  <2>2. CASE \E h \in Shift, n \in Nozzle, e \in Employee : AssignShift(s, h, n, e)
    BY <2>2, AssignShiftAlone
  <2>3. CASE \E a \in DOMAIN assigned :
               \/ CancelAssignmentCheck(s, a)
               \/ \E q \in {0} \cup Litres : CompleteCheck(s, a, q)
    BY <2>3, CancelAssignmentCheckQuiet, CompleteCheckQuiet
  <2>4. CASE OpenShift(s) \/ CloseShift(s) \/ ReopenShift(s)
    BY <2>4, WritesQuiet
  <2>5. CASE CheckEmployee(s) \/ CheckNozzle(s) \/ CheckActive(s)
    BY <2>5, CheckEmployeeLearns, CheckNozzleLearns, CheckActiveQuiet
  <2>6. CASE Assign(s) \/ Complete(s) \/ CancelAssignment(s)
    BY <2>6, AssignIsSafe, CompleteQuiet, CancelAssignmentQuiet
  <2>. QED BY <1>3, <2>1, <2>2, <2>3, <2>4, <2>5, <2>6 DEF ShiftStep
<1>4. ASSUME NEW s \in Session, SaleStep(s) PROVE AssignInv'
  <2>1. CASE \E h \in Shift, n \in Nozzle, e \in Employee, q \in Litres,
                p \in {"pending", "success"} : SellShift(s, h, n, e, q, p)
    BY <2>1, SellShiftQuiet
  <2>2. CASE \E i \in DOMAIN sales : CancelSaleCheck(s, i) \/ PaymentCheck(s, i)
    BY <2>2, CancelSaleCheckQuiet, PaymentCheckQuiet
  <2>3. CASE NumberSale(s) \/ ReadTank(s)
    BY <2>3, NumberSaleQuiet, ReadTankQuiet
  <2>4. CASE Sell(s) \/ CancelSale(s) \/ FailPayment(s) \/ RefundPayment(s)
    BY <2>4, WritesQuiet
  <2>. QED BY <1>4, <2>1, <2>2, <2>3, <2>4 DEF SaleStep
<1>5. ASSUME NEW s \in Session, TankStep(s) PROVE AssignInv'
  BY <1>5, MoveStockCheckQuiet, WritesQuiet DEF TankStep
<1>. QED BY <1>1, <1>2, <1>3, <1>4, <1>5 DEF Next

\* So it is true in every state of a Main PC with record locks.
LEMMA AssignInvariant == ASSUME Gated PROVE Spec => []AssignInv
<1>1. Init => AssignInv
  <2>. SUFFICES ASSUME Init PROVE AssignInv
    OBVIOUS
  <2>1. assigned = <<>> /\ \A t \in Session : request[t] = Idle
    BY DEF Init
  <2>2. Active = {}
    BY <2>1 DEF Active
  <2>. QED BY <2>1, <2>2, IdleIsQuiet DEF AssignInv, NoDoubleAssignment, HeldOnce
<1>2. IInv /\ AssignInv /\ [Next]_vars => AssignInv'
  BY AssignNextKeeps
<1>. QED BY <1>1, <1>2, Invariant, PTL DEF Spec

\* On the Main PC, where the shift's record is locked from the first look-up
\* to the answer, no nozzle and no employee is ever in two active
\* assignments of one shift (shift_service.py: assign_nozzle; api/lan/live.py:
\* ResourceVersions).
THEOREM NobodyAssignedTwice == ASSUME Gated PROVE Spec => []NoDoubleAssignment
<1>1. AssignInv => NoDoubleAssignment
  BY DEF AssignInv
<1>. QED BY <1>1, AssignInvariant, PTL

(***************************************************************************)
(* The forecourt's books.                                                  *)
(*                                                                         *)
(* When requests are served one at a time (one window, no LAN clients),    *)
(* what a request has read is still so when it writes (Fresh), so the      *)
(* ledger explains the stock, nothing is sold on a closed shift and money  *)
(* that was given back stays given back.  Behind the record locks of the   *)
(* Main PC a sale is cancelled once, whatever else is going on (Claims).   *)
(* And an assignment is never completed without the sales that cover it.   *)
(***************************************************************************)

USE DEF ShiftSteps, AssigningSteps, SellingSteps, AssignmentSteps, SaleRowSteps

\* Requests are served one at a time.
OneSession == \A s, t \in Session : s = t

\* What a request that is served alone has read is still so.
Fresh(r) ==
    /\ r.step \in AssigningSteps \cup SellingSteps => shift[r.shift] = "open"
    /\ r.step = "close" => \A a \in Active : assigned[a].shift # r.shift
    /\ r.step \in SellingSteps => r.payment \in {"pending", "success"}
    /\ r.step \in {"fail payment", "refund payment"} => sales[r.row].payment = "success"
    /\ r.step \in {"cancel sale", "move stock"} => r.seen = stock

\* A request that is cancelling a sale holds its record, and the sale stands.
Claims(r) ==
    r.step \in {"read tank", "cancel sale"} =>
        r.resource = <<"sales", r.row>> /\ sales[r.row].status = "completed"

BooksOK == LedgerExplainsStock /\ ClosedShiftIsFinished /\ PaymentMatchesSale

\* Inductive where requests are served one at a time.
AloneInv == BooksOK /\ \A s \in Session : Fresh(request[s])

\* Inductive behind the record locks.
CancelInv ==
    /\ CancelledOnce
    /\ \A m \in DOMAIN movements : movements[m].sale <= Len(sales)
    /\ \A s \in Session : Claims(request[s])

-----------------------------------------------------------------------------
(***************************************************************************)
(* Steps that only read.                                                   *)
(***************************************************************************)

\* A request has read something, and knows what it should.
Reads(s) ==
    /\ UNCHANGED data
    /\ \E r : /\ Continue(s, r)
              /\ Fresh(request[s]) => Fresh(r)
              /\ Claims(request[s]) => Claims(r)

\* A request that does nothing has read nothing.
LEMMA IdleKnowsNothing ==
    Fresh(Idle) /\ Claims(Idle) /\ Fresh(Idle)' /\ Claims(Idle)'
<1>1. Idle.step = "idle"
  BY DEF Idle
<1>2. Fresh(Idle) /\ Claims(Idle)
  BY <1>1 DEF Fresh, Claims
<1>3. Fresh(Idle)'
  BY <1>1 DEF Fresh
<1>4. Claims(Idle)'
  BY <1>1 DEF Claims
<1>. QED BY <1>2, <1>3, <1>4

\* A check that passes must have taught the request what it needs next.
LEMMA CheckReads ==
    ASSUME NEW s \in Session, NEW ok, NEW r, ContinueIf(s, ok, r),
           UNCHANGED data, ok /\ Fresh(request[s]) => Fresh(r),
           ok /\ Claims(request[s]) => Claims(r)
    PROVE  Reads(s)
<1>1. CASE ok
  BY <1>1 DEF ContinueIf, Reads
<1>2. CASE ~ok
  BY <1>2, IdleKnowsNothing DEF ContinueIf, Reads
<1>. QED BY <1>1, <1>2

\* The checks of the shift screens.
LEMMA ShiftChecksRead ==
    ASSUME NEW s \in Session, NEW h \in Shift,
           OpenShiftCheck(s, h) \/ CloseShiftCheck(s, h) \/ ReopenShiftCheck(s, h)
             \/ \E n \in Nozzle, e \in Employee : AssignShift(s, h, n, e)
    PROVE  Reads(s)
<1>1. CASE OpenShiftCheck(s, h)
  <2>. DEFINE r == [Idle EXCEPT !.step = "open", !.shift = h]
  <2>1. ContinueIf(s, shift[h] = "none", r) /\ UNCHANGED data
    BY <1>1 DEF OpenShiftCheck
  <2>2. r.step = "open" /\ r.shift = h
    BY IdleTyped DEF Requests
  <2>. HIDE DEF r
  <2>3. Fresh(r) /\ Claims(r)
    BY <2>2 DEF Fresh, Claims
  <2>. QED BY <2>1, <2>3, CheckReads
<1>2. CASE CloseShiftCheck(s, h)
  <2>1. PICK door \in {<<"close", "shifts">>, <<"close desk", "close-shift">>} :
           /\ ContinueIf(s, shift[h] = "open",
                [Idle EXCEPT !.step = "check active", !.shift = h,
                             !.resource = <<door[2], h>>])
           /\ UNCHANGED data
    BY <1>2 DEF CloseShiftCheck
  <2>. DEFINE r == [Idle EXCEPT !.step = "check active", !.shift = h,
                                !.resource = <<door[2], h>>]
  <2>2. r.step = "check active" /\ r.shift = h /\ r.resource = <<door[2], h>>
    BY IdleTyped DEF Requests
  <2>3. ContinueIf(s, shift[h] = "open", r) /\ UNCHANGED data
    BY <2>1
  <2>. HIDE DEF r
  <2>4. Fresh(r) /\ Claims(r)
    BY <2>2 DEF Fresh, Claims
  <2>. QED BY <2>4, <2>3, CheckReads
<1>3. CASE ReopenShiftCheck(s, h)
  <2>. DEFINE r == [Idle EXCEPT !.step = "reopen", !.shift = h,
                                !.resource = <<"shifts", h>>]
  <2>1. ContinueIf(s, shift[h] = "closed", r) /\ UNCHANGED data
    BY <1>3 DEF ReopenShiftCheck
  <2>2. r.step = "reopen" /\ r.shift = h /\ r.resource = <<"shifts", h>>
    BY IdleTyped DEF Requests
  <2>. HIDE DEF r
  <2>3. Fresh(r) /\ Claims(r)
    BY <2>2 DEF Fresh, Claims
  <2>. QED BY <2>1, <2>3, CheckReads
<1>4. ASSUME NEW n \in Nozzle, NEW e \in Employee, AssignShift(s, h, n, e)
      PROVE  Reads(s)
  <2>. DEFINE r == [Idle EXCEPT !.step = "assign employee",
                                !.resource = <<"shifts", h>>,
                                !.shift = h, !.nozzle = n, !.employee = e]
  <2>1. ContinueIf(s, shift[h] = "open", r) /\ UNCHANGED data
    BY <1>4 DEF AssignShift
  <2>2. r.step = "assign employee" /\ r.resource = <<"shifts", h>> /\ r.shift = h
    BY IdleTyped DEF Requests
  <2>. HIDE DEF r
  <2>3. (shift[h] = "open" => Fresh(r)) /\ Claims(r)
    BY <2>2 DEF Fresh, Claims
  <2>. QED BY <2>1, <2>3, CheckReads
<1>. QED BY <1>1, <1>2, <1>3, <1>4

\* The checks of an assignment.
LEMMA AssignmentChecksRead ==
    ASSUME NEW s \in Session, NEW a \in DOMAIN assigned,
           CancelAssignmentCheck(s, a) \/ \E q \in Nat : CompleteCheck(s, a, q)
    PROVE  Reads(s)
<1>1. CASE CancelAssignmentCheck(s, a)
  <2>. DEFINE r == [Idle EXCEPT !.step = "cancel assignment", !.row = a,
                                !.resource = <<"shift-assignments", a>>]
  <2>1. ContinueIf(s, assigned[a].status = "active", r) /\ UNCHANGED data
    BY <1>1 DEF CancelAssignmentCheck
  <2>2. r.step = "cancel assignment" /\ r.row = a /\ r.resource = <<"shift-assignments", a>>
    BY IdleTyped DEF Requests
  <2>. HIDE DEF r
  <2>3. Fresh(r) /\ Claims(r)
    BY <2>2 DEF Fresh, Claims
  <2>. QED BY <2>1, <2>3, CheckReads
<1>2. ASSUME NEW q \in Nat, CompleteCheck(s, a, q) PROVE Reads(s)
  <2>. DEFINE r == [Idle EXCEPT !.step = "complete", !.row = a, !.litres = q,
                                !.resource = <<"shift-assignments", a>>]
  <2>1. ContinueIf(s, assigned[a].status = "active", r) /\ UNCHANGED data
    BY <1>2 DEF CompleteCheck
  <2>2. r.step = "complete" /\ r.row = a /\ r.resource = <<"shift-assignments", a>>
    BY IdleTyped DEF Requests
  <2>. HIDE DEF r
  <2>3. Fresh(r) /\ Claims(r)
    BY <2>2 DEF Fresh, Claims
  <2>. QED BY <2>1, <2>3, CheckReads
<1>. QED BY <1>1, <1>2

\* The look-ups between a check and a write.
LEMMA LookUpsRead ==
    ASSUME IInv, NEW s \in Session,
           CheckEmployee(s) \/ CheckNozzle(s) \/ CheckActive(s)
             \/ NumberSale(s) \/ ReadTank(s)
    PROVE  Reads(s)
<1>1. request[s] \in Requests
  BY DEF IInv
<1>2. CASE CheckEmployee(s)
  <2>. DEFINE r == [request[s] EXCEPT !.step = "assign nozzle"]
  <2>1. (\E ok : ContinueIf(s, ok, r)) /\ UNCHANGED data
        /\ request[s].step = "assign employee"
    BY <1>2 DEF CheckEmployee
  <2>2. r.step = "assign nozzle"
       /\ r.shift = request[s].shift /\ r.payment = request[s].payment /\ r.resource = request[s].resource /\ r.row = request[s].row
    BY <1>1 DEF Requests
  <2>. HIDE DEF r
  <2>3. (Fresh(request[s]) => Fresh(r)) /\ Claims(r)
    BY <2>2, <2>1 DEF Fresh, Claims
  <2>. QED BY <2>1, <2>3, CheckReads
<1>3. CASE CheckNozzle(s)
  <2>. DEFINE r == [request[s] EXCEPT !.step = "assign"]
  <2>1. (\E ok : ContinueIf(s, ok, r)) /\ UNCHANGED data
        /\ request[s].step = "assign nozzle"
    BY <1>3 DEF CheckNozzle
  <2>2. r.step = "assign"
       /\ r.shift = request[s].shift /\ r.payment = request[s].payment /\ r.resource = request[s].resource /\ r.row = request[s].row
    BY <1>1 DEF Requests
  <2>. HIDE DEF r
  <2>3. (Fresh(request[s]) => Fresh(r)) /\ Claims(r)
    BY <2>2, <2>1 DEF Fresh, Claims
  <2>. QED BY <2>1, <2>3, CheckReads
<1>4. CASE CheckActive(s)
  <2>. DEFINE r == [request[s] EXCEPT !.step = "close"]
              ok == \A a \in Active : assigned[a].shift # request[s].shift
  <2>1. ContinueIf(s, ok, r) /\ UNCHANGED data
    BY <1>4 DEF CheckActive
  <2>2. r.step = "close" /\ r.shift = request[s].shift
    BY <1>1 DEF Requests
  <2>3. r.step = "close"
       /\ r.shift = request[s].shift /\ r.payment = request[s].payment /\ r.resource = request[s].resource /\ r.row = request[s].row
    BY <1>1 DEF Requests
  <2>4. (ok => Fresh(r)) /\ Claims(r)
    BY <2>3, <2>1 DEF Fresh, Claims
  <2>. HIDE DEF r, ok
  <2>. QED BY <2>1, <2>4, CheckReads
<1>5. CASE NumberSale(s)
  <2>. DEFINE r == [request[s] EXCEPT !.step = "sell", !.number = NextReceipt]
  <2>1. Continue(s, r) /\ UNCHANGED data /\ request[s].step = "number sale"
    BY <1>5 DEF NumberSale
  <2>2. r.step = "sell"
       /\ r.shift = request[s].shift /\ r.payment = request[s].payment /\ r.resource = request[s].resource /\ r.row = request[s].row
    BY <1>1 DEF Requests
  <2>. HIDE DEF r
  <2>3. (Fresh(request[s]) => Fresh(r)) /\ Claims(r)
    BY <2>2, <2>1 DEF Fresh, Claims
  <2>. QED BY <2>1, <2>3 DEF Reads
<1>6. CASE ReadTank(s)
  <2>. DEFINE r == [request[s] EXCEPT !.step = "cancel sale", !.seen = stock]
  <2>1. (\E ok : ContinueIf(s, ok, r)) /\ UNCHANGED data
        /\ request[s].step = "read tank"
    BY <1>6 DEF ReadTank
  <2>2. r.step = "cancel sale" /\ r.seen = stock
       /\ r.shift = request[s].shift /\ r.payment = request[s].payment /\ r.resource = request[s].resource /\ r.row = request[s].row
    BY <1>1 DEF Requests
  <2>. HIDE DEF r
  <2>3. Fresh(r) /\ (Claims(request[s]) => Claims(r))
    BY <2>2, <2>1 DEF Fresh, Claims
  <2>. QED BY <2>1, <2>3, CheckReads
<1>. QED BY <1>2, <1>3, <1>4, <1>5, <1>6

\* The checks of the sales and payment screens.
LEMMA SaleChecksRead ==
    ASSUME NEW s \in Session,
           \/ \E h \in Shift, n \in Nozzle, e \in Employee, q \in Litres,
                 p \in {"pending", "success"} : SellShift(s, h, n, e, q, p)
           \/ \E i \in DOMAIN sales : CancelSaleCheck(s, i) \/ PaymentCheck(s, i)
    PROVE  Reads(s)
<1>1. ASSUME NEW h \in Shift, NEW n \in Nozzle, NEW e \in Employee, NEW q \in Litres,
             NEW p \in {"pending", "success"}, SellShift(s, h, n, e, q, p)
      PROVE  Reads(s)
  <2>. DEFINE r == [Idle EXCEPT !.step = "number sale", !.shift = h, !.nozzle = n,
                      !.employee = e, !.litres = q, !.payment = p]
  <2>1. ContinueIf(s, shift[h] = "open", r) /\ UNCHANGED data
    BY <1>1 DEF SellShift
  <2>2. r.step = "number sale" /\ r.shift = h /\ r.payment = p
    BY IdleTyped DEF Requests
  <2>. HIDE DEF r
  <2>3. (shift[h] = "open" => Fresh(r)) /\ Claims(r)
    BY <2>2 DEF Fresh, Claims
  <2>. QED BY <2>1, <2>3, CheckReads
<1>2. ASSUME NEW i \in DOMAIN sales, CancelSaleCheck(s, i) PROVE Reads(s)
  <2>. DEFINE r == [Idle EXCEPT !.step = "read tank", !.row = i,
                      !.resource = <<"sales", i>>, !.litres = sales[i].litres]
  <2>1. ContinueIf(s, sales[i].status = "completed", r) /\ UNCHANGED data
    BY <1>2 DEF CancelSaleCheck
  <2>2. r.step = "read tank" /\ r.row = i /\ r.resource = <<"sales", i>>
    BY IdleTyped DEF Requests
  <2>. HIDE DEF r
  <2>3. Fresh(r) /\ (sales[i].status = "completed" => Claims(r))
    BY <2>2 DEF Fresh, Claims
  <2>. QED BY <2>1, <2>3, CheckReads
<1>3. ASSUME NEW i \in DOMAIN sales, PaymentCheck(s, i) PROVE Reads(s)
  <2>1. PICK to \in {"fail payment", "refund payment"} :
           ContinueIf(s, sales[i].payment = "success",
             [Idle EXCEPT !.step = to, !.row = i, !.resource = <<"payments", i>>])
    BY <1>3 DEF PaymentCheck
  <2>. DEFINE r == [Idle EXCEPT !.step = to, !.row = i,
                                !.resource = <<"payments", i>>]
  <2>2. r.step = to /\ r.row = i /\ r.resource = <<"payments", i>>
    BY IdleTyped DEF Requests
  <2>3. ContinueIf(s, sales[i].payment = "success", r) /\ UNCHANGED data
    BY <1>3, <2>1 DEF PaymentCheck
  <2>. HIDE DEF r
  <2>4. (sales[i].payment = "success" => Fresh(r)) /\ Claims(r)
    BY <2>2 DEF Fresh, Claims
  <2>. QED BY <2>4, <2>3, CheckReads
<1>. QED BY <1>1, <1>2, <1>3

\* A movement is judged by the level the tank has.
LEMMA MoveStockCheckReads ==
    ASSUME NEW s \in Session, NEW type, NEW q, MoveStockCheck(s, type, q)
    PROVE  Reads(s)
<1>. DEFINE r == [Idle EXCEPT !.step = "move stock", !.resource = <<"tanks", 0>>,
                      !.type = type, !.litres = q, !.seen = stock]
<1>1. ContinueIf(s, Allowed(type, stock + q), r) /\ UNCHANGED data
  BY DEF MoveStockCheck
<1>2. r.step = "move stock" /\ r.resource = <<"tanks", 0>> /\ r.seen = stock
  BY IdleTyped DEF Requests
<1>. HIDE DEF r
<1>3. Fresh(r) /\ Claims(r)
  BY <1>2 DEF Fresh, Claims
<1>. QED BY <1>1, <1>3, CheckReads

\* So a step of a session reads, or is one of eleven that write.
LEMMA ReadsOrWrites ==
    ASSUME IInv, Next
    PROVE  \/ Crash
           \/ \E s \in Session :
                \/ Reads(s)
                \/ OpenShift(s) \/ CloseShift(s) \/ ReopenShift(s)
                \/ Assign(s) \/ Complete(s) \/ CancelAssignment(s)
                \/ Sell(s) \/ CancelSale(s)
                \/ FailPayment(s) \/ RefundPayment(s) \/ MoveStock(s)
<1>1. ASSUME NEW s \in Session, ShiftStep(s)
      PROVE  \/ Reads(s)
             \/ OpenShift(s) \/ CloseShift(s) \/ ReopenShift(s)
             \/ Assign(s) \/ Complete(s) \/ CancelAssignment(s)
  <2>1. {0} \cup Litres \subseteq Nat
    BY LitresTyped
  <2>. QED BY <1>1, <2>1, ShiftChecksRead, AssignmentChecksRead, LookUpsRead
           DEF ShiftStep
<1>2. ASSUME NEW s \in Session, SaleStep(s)
      PROVE  \/ Reads(s) \/ Sell(s) \/ CancelSale(s)
             \/ FailPayment(s) \/ RefundPayment(s)
  BY <1>2, SaleChecksRead, LookUpsRead DEF SaleStep
<1>3. ASSUME NEW s \in Session, TankStep(s)
      PROVE  Reads(s) \/ MoveStock(s)
  BY <1>3, MoveStockCheckReads DEF TankStep
<1>. QED BY <1>1, <1>2, <1>3 DEF Next

-----------------------------------------------------------------------------
(***************************************************************************)
(* What the writes do to the books.                                        *)
(***************************************************************************)

\* A transaction that changes the stock by what it says keeps the ledger.
LEMMA LedgerGrows ==
    ASSUME movements \in Seq(Movements), LedgerExplainsStock, NEW m \in Movements,
           movements' = Append(movements, m), stock' = stock + m.litres
    PROVE  LedgerExplainsStock'
<1>. DEFINE f == [i \in DOMAIN movements |-> movements[i].litres]
            h == [i \in DOMAIN movements' |-> movements'[i].litres]
            n == Len(movements)
<1>1. n \in Nat /\ DOMAIN movements = 1..n
  OBVIOUS
<1>2. /\ DOMAIN movements' = 1..(n + 1)
      /\ movements'[n + 1] = m
      /\ \A i \in 1..n : movements'[i] = movements[i]
  BY <1>1
<1>3. \A i \in 1..n : f[i] \in Int /\ h[i] = f[i]
  <2>1. \A i \in 1..n : movements[i] \in Movements
    BY <1>1
  <2>. QED BY <1>1, <1>2, <2>1 DEF Movements
<1>4. h[n + 1] = m.litres /\ m.litres \in Int
  BY <1>1, <1>2 DEF Movements
<1>5. DOMAIN f = 1..n /\ DOMAIN h = 1..(n + 1)
  BY <1>1, <1>2
<1>6. stock = OpeningStock + SumFunction(f)
  BY DEF LedgerExplainsStock
<1>7. LedgerExplainsStock' <=> stock' = OpeningStock + SumFunction(h)
  BY DEF LedgerExplainsStock
<1>. HIDE DEF f, h, n
<1>8. SumFunctionOnSet(h, 1..(n + 1)) = SumFunctionOnSet(f, 1..n) + m.litres
  BY <1>1, <1>3, <1>4, SumAppended
<1>9. SumFunctionOnSet(f, 1..n) \in Int
  <2>1. IsFiniteSet(1..n)
    BY <1>1, FS_Interval
  <2>. QED BY <1>3, <2>1, SumIsInt
<1>10. SumFunction(f) = SumFunctionOnSet(f, 1..n)
       /\ SumFunction(h) = SumFunctionOnSet(h, 1..(n + 1))
  BY <1>5 DEF SumFunction
<1>11. OpeningStock \in Int
  BY ForecourtAssumption
<1>. QED BY <1>4, <1>6, <1>7, <1>8, <1>9, <1>10, <1>11

\* What a sale writes: the row x, its tank issue and the new stock.
Sold(x) ==
    /\ x \in Sales /\ x.status = "completed" /\ x.payment \in {"pending", "success"}
    /\ shift[x.shift] = "open"
    /\ sales' = Append(sales, x)
    /\ movements' = Append(movements,
         [type |-> "issue", litres |-> -x.litres, sale |-> Len(sales) + 1])
    /\ stock' = stock - x.litres
    /\ UNCHANGED shift

\* What else may happen to the rows of sales: one of them changes.
Changed(i, x) == i \in DOMAIN sales /\ sales' = [sales EXCEPT ![i] = x]

\* A sale is recorded the same way whichever handler makes it.
LEMMA RecordSaleSells ==
    ASSUME DataOK, NEW h \in Shift, NEW n \in Nozzle, NEW e \in Employee,
           NEW q \in Nat, NEW p \in {"pending", "success"}, NEW number \in Nat,
           shift[h] = "open", RecordSale(h, n, e, q, number, p), UNCHANGED shift
    PROVE  \E x : Sold(x) /\ x.shift = h /\ x.nozzle = n /\ x.employee = e
                          /\ x.litres = q
<1>. DEFINE x == [receipt |-> number, shift |-> h, nozzle |-> n, employee |-> e,
                  litres |-> q, status |-> "completed", payment |-> p]
<1>1. x \in Sales
  <2>1. p \in PaymentStates /\ "completed" \in SaleStates
    BY DEF PaymentStates, SaleStates
  <2>. QED BY <2>1 DEF Sales
<1>2. x.shift = h /\ x.nozzle = n /\ x.employee = e /\ x.litres = q
      /\ x.status = "completed" /\ x.payment = p
  OBVIOUS
<1>3. sales' = Append(sales, x)
  BY DEF RecordSale
<1>4. movements' = Append(movements, [type |-> "issue", litres |-> -q,
                                      sale |-> Len(sales) + 1])
      /\ stock' = stock - q
  BY DEF RecordSale
<1>. HIDE DEF x
<1>. QED BY <1>1, <1>2, <1>3, <1>4 DEF Sold

\* A new sale keeps the books.
LEMMA SoldKeepsBooks ==
    ASSUME DataOK, BooksOK, NEW x, Sold(x),
           \A a \in Active' : a \in Active /\ assigned'[a].shift = assigned[a].shift
    PROVE  BooksOK'
<1>. DEFINE m == [type |-> "issue", litres |-> -x.litres, sale |-> Len(sales) + 1]
<1>1. /\ movements \in Seq(Movements) /\ sales \in Seq(Sales) /\ stock \in Int
      /\ x.litres \in Nat /\ Len(sales) \in Nat
  BY ForecourtAssumption DEF DataOK, Sold, Sales
<1>2. m \in Movements /\ m.litres = -x.litres
  BY <1>1 DEF Movements, MovementTypes
<1>3. movements' = Append(movements, m) /\ stock' = stock - x.litres
  BY DEF Sold
<1>. HIDE DEF m
<1>4. LedgerExplainsStock'
  <2>1. stock' = stock + m.litres
    BY <1>1, <1>2, <1>3
  <2>. QED BY <1>1, <1>2, <1>3, <2>1, LedgerGrows DEF BooksOK
<1>5. ClosedShiftIsFinished'
  BY DEF BooksOK, ClosedShiftIsFinished, Sold
<1>6. PaymentMatchesSale'
  <2>1. \A i \in DOMAIN sales' : (i \in DOMAIN sales /\ sales'[i] = sales[i])
                                 \/ sales'[i] = x
    BY <1>1 DEF Sold
  <2>. QED BY <2>1 DEF BooksOK, PaymentMatchesSale, Sold
<1>. QED BY <1>4, <1>5, <1>6 DEF BooksOK

\* When requests are served one at a time, a step that writes leaves nobody
\* with anything read.
LEMMA AloneWrite ==
    ASSUME OneSession, IInv, NEW s \in Session, Continue(s, Idle), BooksOK'
    PROVE  AloneInv'
<1>1. \A t \in Session : request'[t] = Idle
  BY DEF OneSession, IInv, Continue
<1>2. \A t \in Session : Fresh(request[t])'
  BY <1>1, IdleKnowsNothing
<1>. QED BY <1>2 DEF AloneInv

\* A step that reads leaves the books alone.
LEMMA AloneReads ==
    ASSUME OneSession, IInv, AloneInv, NEW s \in Session, Reads(s)
    PROVE  AloneInv'
<1>1. PICK r : /\ Continue(s, r)
               /\ Fresh(request[s]) => Fresh(r)
  BY DEF Reads
<1>2. UNCHANGED data
  BY DEF Reads
<1>3. Fresh(r)
  BY <1>1 DEF AloneInv
<1>4. \A t \in Session : request'[t] = r
  BY <1>1 DEF OneSession, IInv, Continue
<1>5. Fresh(r)'
  BY <1>2, <1>3 DEF Fresh, data, Active
<1>6. BooksOK'
  BY <1>2 DEF AloneInv, BooksOK, LedgerExplainsStock, ClosedShiftIsFinished,
              PaymentMatchesSale, data, Active
<1>7. \A t \in Session : Fresh(request[t])'
  BY <1>4, <1>5
<1>. QED BY <1>6, <1>7 DEF AloneInv

\* What no step may do to the sales: bring one in on a shift that is not
\* open, or overwrite a payment that was given back.
SalesStep ==
    /\ \A i \in DOMAIN sales' \ DOMAIN sales : shift[sales'[i].shift] = "open"
    /\ \A i \in DOMAIN sales :
         sales[i].payment \in {"reversed", "refunded"}
           => sales'[i].payment = sales[i].payment

\* A sale that is recorded leaves the sales before it as they are.
LEMMA SoldIsSalesStep ==
    ASSUME DataOK, NEW x, Sold(x)
    PROVE  SalesStep
<1>1. sales \in Seq(Sales) /\ sales' = Append(sales, x)
  BY DEF DataOK, Sold
<1>2. /\ \A i \in DOMAIN sales' \ DOMAIN sales : sales'[i] = x
      /\ \A i \in DOMAIN sales : sales'[i] = sales[i]
  BY <1>1
<1>. QED BY <1>2 DEF SalesStep, Sold

\* The writes of the shift screens that leave sales alone.
LEMMA ShiftWritesAlone ==
    ASSUME OneSession, IInv, AloneInv, NEW s \in Session,
           \/ OpenShift(s) \/ CloseShift(s) \/ ReopenShift(s)
           \/ Assign(s) \/ CancelAssignment(s)
    PROVE  AloneInv' /\ SalesStep
<1>1. /\ UNCHANGED <<sales, movements, stock>> /\ Continue(s, Idle)
      /\ Fresh(request[s]) /\ ClosedShiftIsFinished
  BY DEF OpenShift, CloseShift, ReopenShift, Assign, CancelAssignment, AloneInv,
         BooksOK
<1>2. /\ assigned \in Seq(Assignments) /\ shift \in [Shift -> ShiftStates]
      /\ Good(request[s])
  BY DEF IInv, DataOK
<1>3. LedgerExplainsStock' /\ PaymentMatchesSale'
  BY <1>1 DEF AloneInv, BooksOK, LedgerExplainsStock, PaymentMatchesSale
<1>4. ClosedShiftIsFinished'
  <2>1. CASE OpenShift(s) \/ ReopenShift(s)
    <3>1. /\ UNCHANGED assigned
          /\ \A h \in Shift : shift'[h] = "closed" => shift[h] = "closed"
      BY <2>1, <1>2 DEF OpenShift, ReopenShift
    <3>2. \A a \in Active : assigned[a].shift \in Shift
      BY RowsTyped DEF Active, Assignments
    <3>. QED BY <1>1, <3>1, <3>2 DEF ClosedShiftIsFinished, Active
  <2>2. CASE CloseShift(s)
    <3>1. UNCHANGED assigned /\ shift' = [shift EXCEPT ![request[s].shift] = "closed"]
      BY <2>2 DEF CloseShift
    <3>2. \A a \in Active : assigned[a].shift # request[s].shift
      BY <1>1, <2>2 DEF CloseShift, Fresh
    <3>3. \A a \in Active : assigned[a].shift \in Shift
      BY RowsTyped DEF Active, Assignments
    <3>. QED BY <1>1, <1>2, <3>1, <3>2, <3>3 DEF ClosedShiftIsFinished, Active
  <2>3. CASE Assign(s)
    <3>. DEFINE x == [shift |-> request[s].shift, nozzle |-> request[s].nozzle,
                      employee |-> request[s].employee, status |-> "active",
                      dispensed |-> 0]
    <3>1. UNCHANGED shift /\ assigned' = Append(assigned, x)
      BY <2>3 DEF Assign
    <3>2. shift[x.shift] = "open"
      BY <1>1, <2>3 DEF Assign, Fresh
    <3>. HIDE DEF x
    <3>3. \A a \in DOMAIN assigned' : (a \in DOMAIN assigned
                                        /\ assigned'[a] = assigned[a])
                                      \/ assigned'[a] = x
      BY <1>2, <3>1
    <3>. QED BY <1>1, <3>1, <3>2, <3>3 DEF ClosedShiftIsFinished, Active
  <2>4. CASE CancelAssignment(s)
    <3>1. UNCHANGED shift
      BY <2>4 DEF CancelAssignment
    <3>2. RowsKept
      BY <2>4, CancelAssignmentKeepsRows
    <3>. QED BY <1>1, <3>1, <3>2 DEF ClosedShiftIsFinished, RowsKept
  <2>. QED BY <2>1, <2>2, <2>3, <2>4
<1>5. AloneInv'
  BY <1>1, <1>3, <1>4, AloneWrite DEF BooksOK
<1>6. SalesStep
  BY <1>1 DEF SalesStep
<1>. QED BY <1>5, <1>6

\* Completing an assignment sells what is left of it, or nothing.
LEMMA CompleteAlone ==
    ASSUME OneSession, IInv, AloneInv, NEW s \in Session, Complete(s)
    PROVE  AloneInv' /\ SalesStep
<1>. DEFINE r == request[s]
            a == assigned[r.row]
            rest == r.litres - Recorded(a.shift, a.nozzle, a.employee)
<1>1. /\ DataOK /\ Continue(s, Idle) /\ UNCHANGED shift /\ BooksOK
      /\ r.row \in DOMAIN assigned
  BY DEF IInv, AloneInv, Complete, Good, WellFormed
<1>2. RowsKept
  BY CompleteKeepsRows
<1>3. CASE UNCHANGED <<sales, movements, stock>>
  <2>1. BooksOK'
    BY <1>1, <1>2, <1>3 DEF BooksOK, LedgerExplainsStock, PaymentMatchesSale,
                            ClosedShiftIsFinished, RowsKept
  <2>2. SalesStep
    BY <1>3 DEF SalesStep
  <2>. QED BY <1>1, <2>1, <2>2, AloneWrite
<1>4. CASE /\ rest \in Positive /\ shift[a.shift] = "open"
           /\ RecordSale(a.shift, a.nozzle, a.employee, rest, NextReceipt, "success")
  <2>1. a.shift \in Shift /\ a.nozzle \in Nozzle /\ a.employee \in Employee
    BY <1>1, RowsTyped DEF Assignments
  <2>2. NextReceipt \in Nat /\ rest \in Nat
    BY <1>1, <1>4, NextIsLength DEF DataOK, Positive
  <2>. HIDE DEF r, a, rest
  <2>3. PICK x : Sold(x)
    BY <1>1, <1>4, <2>1, <2>2, RecordSaleSells
  <2>4. BooksOK'
    BY <1>1, <1>2, <2>3, SoldKeepsBooks DEF RowsKept
  <2>5. SalesStep
    BY <1>1, <2>3, SoldIsSalesStep
  <2>. QED BY <1>1, <2>4, <2>5, AloneWrite
<1>. QED BY <1>3, <1>4 DEF Complete

\* So does a sale, unless its number is taken or the tank too low.
LEMMA SellAlone ==
    ASSUME OneSession, IInv, AloneInv, NEW s \in Session, Sell(s)
    PROVE  AloneInv' /\ SalesStep
<1>. DEFINE r == request[s]
<1>1. /\ DataOK /\ Continue(s, Idle) /\ UNCHANGED <<shift, assigned>> /\ BooksOK
      /\ Good(r) /\ Fresh(r) /\ r.step = "sell"
  BY DEF IInv, AloneInv, Sell
<1>2. RowsKept
  BY <1>1 DEF RowsKept, Active
<1>3. CASE UNCHANGED <<sales, movements, stock>>
  <2>1. BooksOK'
    BY <1>1, <1>2, <1>3 DEF BooksOK, LedgerExplainsStock, PaymentMatchesSale,
                            ClosedShiftIsFinished, RowsKept
  <2>2. SalesStep
    BY <1>3 DEF SalesStep
  <2>. QED BY <1>1, <2>1, <2>2, AloneWrite
<1>4. CASE RecordSale(r.shift, r.nozzle, r.employee, r.litres, r.number, r.payment)
  <2>1. /\ r.shift \in Shift /\ r.nozzle \in Nozzle /\ r.employee \in Employee
        /\ r.litres \in Nat /\ r.number \in Nat
    BY <1>1 DEF Good, WellFormed, Requests
  <2>2. r.payment \in {"pending", "success"} /\ shift[r.shift] = "open"
    BY <1>1 DEF Fresh
  <2>. HIDE DEF r
  <2>3. PICK x : Sold(x)
    BY <1>1, <1>4, <2>1, <2>2, RecordSaleSells
  <2>4. BooksOK'
    BY <1>1, <1>2, <2>3, SoldKeepsBooks DEF RowsKept
  <2>5. SalesStep
    BY <1>1, <2>3, SoldIsSalesStep
  <2>. QED BY <1>1, <2>4, <2>5, AloneWrite
<1>. QED BY <1>3, <1>4 DEF Sell

\* A cancelled sale gives its fuel back at the level the tank has.
LEMMA CancelSaleAlone ==
    ASSUME OneSession, IInv, AloneInv, NEW s \in Session, CancelSale(s)
    PROVE  AloneInv' /\ SalesStep
<1>. DEFINE r == request[s]
            m == [type |-> "adjustment", litres |-> r.litres, sale |-> r.row]
<1>1. /\ DataOK /\ Continue(s, Idle) /\ UNCHANGED <<shift, assigned>> /\ BooksOK
      /\ Good(r) /\ r.seen = stock /\ r.row \in DOMAIN sales
  BY DEF IInv, AloneInv, CancelSale, Fresh, Good, WellFormed
<1>2. r.litres \in Int /\ r.row \in Nat
  BY <1>1 DEF Good, Requests
<1>3. /\ movements' = Append(movements, m) /\ stock' = stock + r.litres
      /\ sales' = [sales EXCEPT ![r.row].status = "cancelled",
                                ![r.row].payment = PaymentOfCancelled(@)]
  BY <1>1 DEF CancelSale
<1>4. m \in Movements /\ m.litres = r.litres
  BY <1>2 DEF Movements, MovementTypes
<1>5. /\ \A i \in DOMAIN sales : i # r.row => sales'[i] = sales[i]
      /\ DOMAIN sales' = DOMAIN sales
      /\ sales'[r.row].status = "cancelled"
      /\ sales'[r.row].payment = PaymentOfCancelled(sales[r.row].payment)
  <2>1. sales \in Seq(Sales) /\ sales[r.row] \in Sales
    BY <1>1, RowsTyped DEF DataOK
  <2>. QED BY <1>1, <1>3, <2>1 DEF Sales
<1>. HIDE DEF r, m
<1>6. LedgerExplainsStock'
  BY <1>1, <1>3, <1>4, LedgerGrows DEF DataOK, BooksOK
<1>7. ClosedShiftIsFinished'
  BY <1>1 DEF BooksOK, ClosedShiftIsFinished, Active
<1>8. PaymentMatchesSale'
  BY <1>1, <1>5 DEF BooksOK, PaymentMatchesSale, PaymentOfCancelled
<1>9. SalesStep
  BY <1>5 DEF SalesStep, PaymentOfCancelled
<1>. QED BY <1>1, <1>6, <1>7, <1>8, <1>9, AloneWrite DEF BooksOK

\* Only a collected payment fails or is refunded.
LEMMA PaymentWriteAlone ==
    ASSUME OneSession, IInv, AloneInv, NEW s \in Session,
           FailPayment(s) \/ RefundPayment(s)
    PROVE  AloneInv' /\ SalesStep
<1>. DEFINE i == request[s].row
<1>1. /\ DataOK /\ Continue(s, Idle) /\ BooksOK /\ i \in DOMAIN sales
      /\ UNCHANGED <<shift, assigned, movements, stock>>
      /\ sales[i].payment = "success"
  BY DEF IInv, AloneInv, FailPayment, RefundPayment, Fresh, Good, WellFormed
<1>2. PICK p \in {"failed", "refunded"} :
           sales' = [sales EXCEPT ![i].payment = p]
  BY DEF FailPayment, RefundPayment
<1>3. /\ \A j \in DOMAIN sales : j # i => sales'[j] = sales[j]
      /\ DOMAIN sales' = DOMAIN sales
      /\ sales'[i].status = sales[i].status
      /\ sales'[i].payment = p
  <2>1. sales \in Seq(Sales) /\ sales[i] \in Sales
    BY <1>1, RowsTyped DEF DataOK
  <2>. QED BY <1>1, <1>2, <2>1 DEF Sales
<1>. HIDE DEF i
<1>4. PaymentMatchesSale'
  <2>1. sales[i].status # "cancelled"
    BY <1>1 DEF BooksOK, PaymentMatchesSale
  <2>. QED BY <1>1, <1>3, <2>1 DEF BooksOK, PaymentMatchesSale
<1>5. LedgerExplainsStock' /\ ClosedShiftIsFinished'
  BY <1>1 DEF BooksOK, LedgerExplainsStock, ClosedShiftIsFinished, Active
<1>6. SalesStep
  BY <1>1, <1>3 DEF SalesStep
<1>. QED BY <1>1, <1>4, <1>5, <1>6, AloneWrite DEF BooksOK

\* A movement is recorded at the level the tank has.
LEMMA MoveStockAlone ==
    ASSUME OneSession, IInv, AloneInv, NEW s \in Session, MoveStock(s)
    PROVE  AloneInv' /\ SalesStep
<1>. DEFINE r == request[s]
            m == [type |-> r.type, litres |-> r.litres, sale |-> 0]
<1>1. /\ DataOK /\ Continue(s, Idle) /\ UNCHANGED <<shift, assigned, sales>>
      /\ BooksOK /\ r \in Requests /\ r.seen = stock
      /\ movements' = Append(movements, m) /\ stock' = r.seen + r.litres
  BY DEF IInv, AloneInv, MoveStock, Fresh
<1>2. m \in Movements /\ m.litres = r.litres
  BY <1>1 DEF Movements, Requests
<1>. HIDE DEF r, m
<1>3. LedgerExplainsStock'
  BY <1>1, <1>2, LedgerGrows DEF DataOK, BooksOK
<1>4. ClosedShiftIsFinished' /\ PaymentMatchesSale'
  BY <1>1 DEF BooksOK, ClosedShiftIsFinished, PaymentMatchesSale, Active
<1>5. SalesStep
  BY <1>1 DEF SalesStep
<1>. QED BY <1>1, <1>3, <1>4, <1>5, AloneWrite DEF BooksOK

\* Every step keeps the books when requests are served one at a time.
LEMMA AloneKeeps ==
    ASSUME OneSession, IInv, AloneInv, [Next]_vars
    PROVE  AloneInv' /\ SalesStep
<1>1. ASSUME UNCHANGED data PROVE BooksOK' /\ SalesStep
  BY <1>1 DEF AloneInv, BooksOK, LedgerExplainsStock, ClosedShiftIsFinished,
              PaymentMatchesSale, data, Active, SalesStep
<1>2. CASE UNCHANGED vars
  <2>1. UNCHANGED data /\ UNCHANGED request
    BY <1>2 DEF vars, data
  <2>2. ASSUME NEW r, Fresh(r) PROVE Fresh(r)'
    BY <2>1, <2>2 DEF Fresh, data, Active
  <2>. QED BY <1>1, <2>1, <2>2 DEF AloneInv
<1>3. CASE Crash
  <2>1. UNCHANGED data /\ \A s \in Session : request'[s] = Idle
    BY <1>3 DEF Crash
  <2>. QED BY <1>1, <2>1, IdleKnowsNothing DEF AloneInv
<1>4. ASSUME NEW s \in Session, Reads(s) PROVE AloneInv' /\ SalesStep
  <2>1. UNCHANGED data
    BY <1>4 DEF Reads
  <2>. QED BY <1>1, <1>4, <2>1, AloneReads
<1>5. ASSUME NEW s \in Session,
             \/ OpenShift(s) \/ CloseShift(s) \/ ReopenShift(s)
             \/ Assign(s) \/ Complete(s) \/ CancelAssignment(s)
             \/ Sell(s) \/ CancelSale(s)
             \/ FailPayment(s) \/ RefundPayment(s) \/ MoveStock(s)
      PROVE  AloneInv' /\ SalesStep
  BY <1>5, ShiftWritesAlone, CompleteAlone, SellAlone, CancelSaleAlone,
     PaymentWriteAlone, MoveStockAlone
<1>. QED BY <1>2, <1>3, <1>4, <1>5, ReadsOrWrites

\* Before anything was done there is nothing to explain.
LEMMA AloneInit == Init => AloneInv
<1>. SUFFICES ASSUME Init PROVE AloneInv
  OBVIOUS
<1>1. /\ assigned = <<>> /\ sales = <<>> /\ movements = <<>>
      /\ stock = OpeningStock /\ \A s \in Session : request[s] = Idle
  BY DEF Init
<1>2. LedgerExplainsStock
  <2>. DEFINE f == [i \in DOMAIN movements |-> movements[i].litres]
  <2>1. DOMAIN f = {}
    BY <1>1
  <2>2. LedgerExplainsStock <=> stock = OpeningStock + SumFunction(f)
    BY DEF LedgerExplainsStock
  <2>. HIDE DEF f
  <2>3. SumFunction(f) = 0
    BY <2>1, SumOfNothing DEF SumFunction
  <2>. QED BY <1>1, <2>2, <2>3, ForecourtAssumption
<1>3. ClosedShiftIsFinished /\ PaymentMatchesSale
  BY <1>1 DEF ClosedShiftIsFinished, PaymentMatchesSale, Active
<1>. QED BY <1>1, <1>2, <1>3, IdleKnowsNothing DEF AloneInv, BooksOK

\* With one session the books agree in every state.
LEMMA AloneInvariant == ASSUME OneSession PROVE Spec => []AloneInv
<1>1. Init => AloneInv
  BY AloneInit
<1>2. IInv /\ AloneInv /\ [Next]_vars => AloneInv'
  BY AloneKeeps
<1>. QED BY <1>1, <1>2, Invariant, PTL DEF Spec

\* When requests are served one at a time the tank's book stock is always
\* the opening stock plus everything its transactions say, whether fuel was
\* sold, given back or moved (tank_service.py: _record_transaction_impl,
\* sale_service.py: cancel_sale).
THEOREM StockIsExplained == ASSUME OneSession PROVE Spec => []LedgerExplainsStock
<1>1. AloneInv => LedgerExplainsStock
  BY DEF AloneInv, BooksOK
<1>. QED BY <1>1, AloneInvariant, PTL

\* When requests are served one at a time nobody is left at a nozzle of a
\* closed shift, and no sale enters the books of a shift that is not open
\* (shift_service.py: close_shift; sale_service.py: _create_sale_impl).
THEOREM ClosedStaysClosed == ASSUME OneSession PROVE Spec => ClosedMeansClosed
<1>1. IInv /\ AloneInv /\ [Next]_vars
        => [\A i \in DOMAIN sales' \ DOMAIN sales : shift[sales'[i].shift] = "open"]_vars
  BY AloneKeeps DEF SalesStep
<1>2. AloneInv => ClosedShiftIsFinished
  BY DEF AloneInv, BooksOK
<1>. QED BY <1>1, <1>2, Invariant, AloneInvariant, PTL
     DEF Spec, ClosedMeansClosed, NoSaleOnClosedShift

\* When requests are served one at a time the payment of a cancelled sale was
\* given back or never counted, and a payment that was given back is never
\* overwritten (sale_service.py: cancel_sale, refund_payment,
\* mark_payment_failed).
THEOREM GivenBackStays == ASSUME OneSession PROVE Spec => GivenBackOnce
<1>1. IInv /\ AloneInv /\ [Next]_vars
        => [\A i \in DOMAIN sales : sales[i].payment \in {"reversed", "refunded"}
              => sales'[i].payment = sales[i].payment]_vars
  BY AloneKeeps DEF SalesStep
<1>2. AloneInv => PaymentMatchesSale
  BY DEF AloneInv, BooksOK
<1>. QED BY <1>1, <1>2, Invariant, AloneInvariant, PTL
     DEF Spec, GivenBackOnce, GivenBackIsFinal

-----------------------------------------------------------------------------
(***************************************************************************)
(* Behind the record locks a sale is cancelled once.                       *)
(***************************************************************************)

\* The transactions that gave the fuel of sale i back.
Returned(i) == {m \in DOMAIN movements : /\ movements[m].sale = i
                                         /\ movements[m].type = "adjustment"}

\* Rows of sales are never lost and none changes its status.
SalesStand ==
    /\ DOMAIN sales \subseteq DOMAIN sales'
    /\ \A i \in DOMAIN sales : sales'[i].status = sales[i].status

\* Nothing was given back: what was recorded about the sales there were is
\* what was recorded before.
NothingReturned == \A i \in DOMAIN sales : Returned(i)' = Returned(i)

\* A transaction that is not an adjustment of an old sale returns nothing.
LEMMA OtherMovement ==
    ASSUME DataOK, NEW m \in Movements, movements' = Append(movements, m),
           m.type # "adjustment" \/ m.sale \notin DOMAIN sales
    PROVE  NothingReturned
<1>. DEFINE n == Len(movements)
<1>1. /\ n \in Nat /\ DOMAIN movements = 1..n /\ DOMAIN movements' = 1..(n + 1)
      /\ movements'[n + 1] = m
      /\ \A k \in 1..n : movements'[k] = movements[k]
  BY DEF DataOK
<1>. HIDE DEF n
<1>2. ASSUME NEW i \in DOMAIN sales PROVE Returned(i)' = Returned(i)
  <2>1. \A k \in DOMAIN movements' : k \in DOMAIN movements \/ k = n + 1
    BY <1>1
  <2>. QED BY <1>1, <2>1 DEF Returned
<1>. QED BY <1>2 DEF NothingReturned

\* CancelledOnce in terms of Returned.
LEMMA CancelledOnceIs ==
    CancelledOnce <=> \A i \in DOMAIN sales :
        Cardinality(Returned(i)) = IF sales[i].status = "cancelled" THEN 1 ELSE 0
BY DEF CancelledOnce, Returned

\* The same of the state after a step.
LEMMA CancelledOnceIsNext ==
    CancelledOnce' <=> \A i \in DOMAIN sales' :
        Cardinality(Returned(i)') = IF sales'[i].status = "cancelled" THEN 1 ELSE 0
BY DEF CancelledOnce, Returned

\* What nobody cancelled stays claimed by whoever claimed it.
LEMMA ClaimsStay ==
    ASSUME SalesStand, NEW r, Claims(r), r.step \in SaleRowSteps => r.row \in DOMAIN sales
    PROVE  Claims(r)'
BY DEF Claims, SalesStand

\* A step that writes, but cancels nothing.
LEMMA NoCancellation ==
    ASSUME IInv, CancelInv, NEW s \in Session, Continue(s, Idle),
           SalesStand, NothingReturned, Len(sales') = Len(sales),
           DOMAIN sales' = DOMAIN sales,
           \A m \in DOMAIN movements' :
              \/ m \in DOMAIN movements /\ movements'[m].sale = movements[m].sale
              \/ movements'[m].sale = 0
    PROVE  CancelInv'
<1>1. CancelledOnce'
  BY CancelledOnceIs, CancelledOnceIsNext DEF CancelInv, SalesStand, NothingReturned
<1>2. Len(sales) \in Nat
  BY DEF IInv, DataOK
<1>3. \A m \in DOMAIN movements' : movements'[m].sale <= Len(sales')
  BY <1>2 DEF CancelInv
<1>4. \A t \in Session : request'[t] = IF t = s THEN Idle ELSE request[t]
  BY DEF IInv, Continue
<1>5. ASSUME NEW t \in Session PROVE Claims(request[t])'
  <2>1. CASE t = s
    <3>1. request'[t] = Idle
      BY <1>4, <2>1
    <3>. QED BY <3>1, IdleKnowsNothing
  <2>2. CASE t # s
    <3>1. request'[t] = request[t]
      BY <1>4, <2>2
    <3>2. Claims(request[t]) /\ WellFormed(request[t])
      BY DEF CancelInv, IInv, Good
    <3>. QED BY <3>1, <3>2 DEF WellFormed, Claims, SalesStand
  <2>. QED BY <2>1, <2>2
<1>. QED BY <1>1, <1>3, <1>5 DEF CancelInv

\* A new sale has not been cancelled.
LEMMA RecordSaleCancels ==
    ASSUME IInv, CancelInv, NEW s \in Session, Continue(s, Idle), NEW h, NEW n, NEW e,
           NEW q \in Nat, NEW number, NEW p, RecordSale(h, n, e, q, number, p)
    PROVE  CancelInv'
<1>. DEFINE x == [receipt |-> number, shift |-> h, nozzle |-> n, employee |-> e,
                  litres |-> q, status |-> "completed", payment |-> p]
            m == [type |-> "issue", litres |-> -q, sale |-> Len(sales) + 1]
<1>1. /\ sales \in Seq(Sales) /\ movements \in Seq(Movements) /\ Len(sales) \in Nat
      /\ DataOK
  BY DEF IInv, DataOK
<1>2. sales' = Append(sales, x) /\ movements' = Append(movements, m)
  BY DEF RecordSale
<1>3. m \in Movements /\ m.type = "issue" /\ m.sale = Len(sales) + 1
  <2>1. -q \in Int
    OBVIOUS
  <2>. QED BY <1>1, <2>1 DEF Movements, MovementTypes
<1>4. x.status = "completed"
  OBVIOUS
<1>. HIDE DEF x, m
<1>5. /\ DOMAIN sales' = DOMAIN sales \cup {Len(sales) + 1}
      /\ Len(sales') = Len(sales) + 1 /\ sales'[Len(sales) + 1] = x
      /\ \A i \in DOMAIN sales : sales'[i] = sales[i] /\ i <= Len(sales)
  BY <1>1, <1>2
<1>6. NothingReturned
  BY <1>1, <1>2, <1>3, OtherMovement
<1>7. \A k \in DOMAIN movements' : \/ k \in DOMAIN movements
                                      /\ movements'[k] = movements[k]
                                   \/ movements'[k] = m
  BY <1>1, <1>2
<1>8. \A j \in {Len(sales) + 1} : Returned(j)' = {}
  <2>1. SUFFICES ASSUME NEW j, j = Len(sales) + 1, NEW k \in DOMAIN movements',
                        movements'[k].sale = j, movements'[k].type = "adjustment"
                 PROVE  FALSE
    BY DEF Returned
  <2>2. k \in DOMAIN movements /\ movements'[k] = movements[k]
    BY <1>3, <1>7, <2>1
  <2>3. movements[k].sale <= Len(sales) /\ movements[k].sale \in Nat
    <3>1. movements[k] \in Movements
      BY <1>1, <2>2
    <3>. QED BY <2>2, <3>1 DEF CancelInv, Movements
  <2>. QED BY <1>1, <2>1, <2>2, <2>3
<1>9. CancelledOnce'
  <2>1. \A i \in DOMAIN sales :
          Cardinality(Returned(i)') = IF sales'[i].status = "cancelled" THEN 1 ELSE 0
    BY <1>5, <1>6, CancelledOnceIs DEF CancelInv, NothingReturned
  <2>2. Cardinality({}) = 0
    BY FS_EmptySet
  <2>. QED BY <1>4, <1>5, <1>8, <2>1, <2>2, CancelledOnceIsNext
<1>10. \A k \in DOMAIN movements' : movements'[k].sale <= Len(sales')
  <2>1. \A k \in DOMAIN movements : movements[k] \in Movements
    BY <1>1
  <2>2. \A k \in DOMAIN movements : movements[k].sale \in Nat
                                    /\ movements[k].sale <= Len(sales)
    BY <2>1 DEF CancelInv, Movements
  <2>. QED BY <1>1, <1>3, <1>5, <1>7, <2>2
<1>11. ASSUME NEW t \in Session PROVE Claims(request[t])'
  <2>1. request'[t] = IF t = s THEN Idle ELSE request[t]
    BY DEF IInv, Continue
  <2>2. CASE t = s
    BY <2>1, <2>2, IdleKnowsNothing
  <2>3. CASE t # s
    <3>1. Claims(request[t]) /\ WellFormed(request[t])
      BY DEF CancelInv, IInv, Good
    <3>. QED BY <1>5, <2>1, <2>3, <3>1 DEF WellFormed, Claims
  <2>. QED BY <2>2, <2>3
<1>. QED BY <1>9, <1>10, <1>11 DEF CancelInv

\* The writes that leave sales and their fuel alone.
LEMMA OtherWritesCancel ==
    ASSUME IInv, CancelInv, NEW s \in Session,
           \/ OpenShift(s) \/ CloseShift(s) \/ ReopenShift(s)
           \/ Assign(s) \/ CancelAssignment(s)
    PROVE  CancelInv'
<1>1. UNCHANGED <<sales, movements>> /\ Continue(s, Idle)
  BY DEF OpenShift, CloseShift, ReopenShift, Assign, CancelAssignment
<1>2. SalesStand /\ NothingReturned
  BY <1>1 DEF SalesStand, NothingReturned, Returned
<1>. QED BY <1>1, <1>2, NoCancellation

\* The writes that may sell.
LEMMA SellingCancels ==
    ASSUME IInv, CancelInv, NEW s \in Session, Sell(s) \/ Complete(s)
    PROVE  CancelInv'
<1>1. CASE UNCHANGED <<sales, movements>>
  <2>1. SalesStand /\ NothingReturned /\ Continue(s, Idle)
    BY <1>1 DEF SalesStand, NothingReturned, Returned, Sell, Complete
  <2>. QED BY <1>1, <2>1, NoCancellation
<1>2. CASE Sell(s) /\ ~UNCHANGED <<sales, movements>>
  <2>. DEFINE r == request[s]
  <2>1. /\ Continue(s, Idle)
        /\ RecordSale(r.shift, r.nozzle, r.employee, r.litres, r.number, r.payment)
    BY <1>2 DEF Sell
  <2>2. r.litres \in Nat
    BY <1>2 DEF IInv, Sell, Good, WellFormed
  <2>. HIDE DEF r
  <2>. QED BY <2>1, <2>2, RecordSaleCancels
<1>3. CASE Complete(s) /\ ~UNCHANGED <<sales, movements>>
  <2>. DEFINE a == assigned[request[s].row]
              rest == request[s].litres - Recorded(a.shift, a.nozzle, a.employee)
  <2>1. /\ Continue(s, Idle) /\ rest \in Nat
        /\ RecordSale(a.shift, a.nozzle, a.employee, rest, NextReceipt, "success")
    BY <1>3 DEF Complete, Positive
  <2>. HIDE DEF a, rest
  <2>. QED BY <2>1, RecordSaleCancels
<1>. QED BY <1>1, <1>2, <1>3

\* Payments have no bearing on what was cancelled.
LEMMA PaymentsCancel ==
    ASSUME IInv, CancelInv, NEW s \in Session, FailPayment(s) \/ RefundPayment(s)
    PROVE  CancelInv'
<1>. DEFINE i == request[s].row
<1>1. /\ DataOK /\ Continue(s, Idle) /\ i \in DOMAIN sales /\ UNCHANGED movements
  BY DEF IInv, FailPayment, RefundPayment, Good, WellFormed
<1>2. PICK p \in {"failed", "refunded"} :
           sales' = [sales EXCEPT ![i].payment = p]
  BY DEF FailPayment, RefundPayment
<1>3. /\ sales \in Seq(Sales) /\ sales[i] \in Sales
  BY <1>1, RowsTyped DEF DataOK
<1>4. /\ DOMAIN sales' = DOMAIN sales /\ Len(sales') = Len(sales)
      /\ \A j \in DOMAIN sales : sales'[j].status = sales[j].status
  BY <1>1, <1>2, <1>3 DEF Sales
<1>. HIDE DEF i
<1>5. SalesStand /\ NothingReturned
  BY <1>1, <1>4 DEF SalesStand, NothingReturned, Returned
<1>. QED BY <1>1, <1>4, <1>5, NoCancellation

\* A movement entered at the tank names no sale.
LEMMA MoveStockCancels ==
    ASSUME IInv, CancelInv, NEW s \in Session, MoveStock(s)
    PROVE  CancelInv'
<1>. DEFINE m == [type |-> request[s].type, litres |-> request[s].litres, sale |-> 0]
<1>1. /\ DataOK /\ Continue(s, Idle) /\ UNCHANGED sales
      /\ movements' = Append(movements, m) /\ movements \in Seq(Movements)
      /\ sales \in Seq(Sales)
  BY DEF IInv, DataOK, MoveStock
<1>2. m \in Movements /\ m.sale = 0
  BY DEF IInv, Requests, Movements
<1>. HIDE DEF m
<1>3. m.sale \notin DOMAIN sales
  BY <1>1, <1>2
<1>4. NothingReturned
  BY <1>1, <1>2, <1>3, OtherMovement
<1>5. SalesStand
  BY <1>1 DEF SalesStand
<1>6. \A k \in DOMAIN movements' :
         \/ k \in DOMAIN movements /\ movements'[k] = movements[k]
         \/ movements'[k] = m
  BY <1>1
<1>. QED BY <1>1, <1>2, <1>4, <1>5, <1>6, NoCancellation

\* A cancellation gives back the fuel of a sale that stood, and nobody else
\* can have been about to give it back: the sale's record is locked.
LEMMA CancelSaleCancels ==
    ASSUME IInv, AssignInv, CancelInv, NEW s \in Session, CancelSale(s)
    PROVE  CancelInv'
<1>. DEFINE r == request[s]
            m == [type |-> "adjustment", litres |-> r.litres, sale |-> r.row]
            n == Len(movements)
<1>1. /\ DataOK /\ Continue(s, Idle) /\ r \in Requests
      /\ r.row \in DOMAIN sales /\ r.resource = <<"sales", r.row>>
      /\ sales[r.row].status = "completed"
      /\ sales \in Seq(Sales) /\ movements \in Seq(Movements)
  BY DEF IInv, DataOK, CancelInv, CancelSale, Good, WellFormed, Claims
<1>2. /\ movements' = Append(movements, m)
      /\ sales' = [sales EXCEPT ![r.row].status = "cancelled",
                                ![r.row].payment = PaymentOfCancelled(@)]
  BY DEF CancelSale
<1>3. m.type = "adjustment" /\ m.sale = r.row
  OBVIOUS
<1>4. /\ DOMAIN sales' = DOMAIN sales /\ Len(sales') = Len(sales)
      /\ sales'[r.row].status = "cancelled"
      /\ \A j \in DOMAIN sales : j # r.row => sales'[j].status = sales[j].status
  <2>1. sales[r.row] \in Sales
    BY <1>1, RowsTyped
  <2>. QED BY <1>1, <1>2, <2>1 DEF Sales
<1>. HIDE DEF m, r
<1>5. /\ n \in Nat /\ DOMAIN movements = 1..n /\ DOMAIN movements' = 1..(n + 1)
      /\ movements'[n + 1] = m
      /\ \A k \in 1..n : movements'[k] = movements[k]
  BY <1>1, <1>2
<1>. HIDE DEF n
<1>6. \A k \in DOMAIN movements' : k \in DOMAIN movements \/ k = n + 1
  BY <1>5
<1>7. \A j \in DOMAIN sales :
         Returned(j)' = IF j = r.row THEN Returned(j) \cup {n + 1} ELSE Returned(j)
  BY <1>3, <1>5, <1>6 DEF Returned
<1>8. CancelledOnce'
  <2>1. SUFFICES ASSUME NEW j \in DOMAIN sales
                 PROVE  Cardinality(Returned(j)')
                          = IF sales'[j].status = "cancelled" THEN 1 ELSE 0
    BY <1>4, CancelledOnceIsNext
  <2>2. Cardinality(Returned(j)) = IF sales[j].status = "cancelled" THEN 1 ELSE 0
    BY CancelledOnceIs DEF CancelInv
  <2>3. CASE j # r.row
    BY <1>4, <1>7, <2>2, <2>3
  <2>4. CASE j = r.row
    <3>1. IsFiniteSet(Returned(j))
      <4>1. IsFiniteSet(1..n)
        BY <1>5, FS_Interval
      <4>2. Returned(j) \in SUBSET (1..n)
        BY <1>5 DEF Returned
      <4>. QED BY <4>1, <4>2, FS_Subset
    <3>2. Cardinality(Returned(j)) = 0
      BY <1>1, <2>2, <2>4
    <3>3. Returned(j) = {}
      BY <3>1, <3>2, FS_EmptySet
    <3>4. Returned(j)' = {n + 1}
      BY <1>7, <2>4, <3>3
    <3>5. Cardinality({n + 1}) = 1
      BY FS_Singleton
    <3>. QED BY <1>4, <2>4, <3>4, <3>5
  <2>. QED BY <2>3, <2>4
<1>9. \A k \in DOMAIN movements' : movements'[k].sale <= Len(sales')
  <2>1. r.row \in Nat /\ r.row <= Len(sales)
    BY <1>1
  <2>2. \A k \in DOMAIN movements : movements[k].sale <= Len(sales)
    BY DEF CancelInv
  <2>. QED BY <1>3, <1>4, <1>5, <1>6, <2>1, <2>2
<1>10. ASSUME NEW t \in Session PROVE Claims(request[t])'
  <2>1. request'[t] = IF t = s THEN Idle ELSE request[t]
    BY <1>1 DEF IInv, Continue
  <2>2. CASE t = s
    BY <2>1, <2>2, IdleKnowsNothing
  <2>3. CASE t # s
    <3>1. Claims(request[t]) /\ WellFormed(request[t])
      BY DEF CancelInv, IInv, Good
    <3>2. request[t].resource # <<"sales", r.row>>
      <4>1. HeldOnce /\ request[s].resource = <<"sales", r.row>>
        BY <1>1 DEF AssignInv, r
      <4>2. <<"sales", r.row>> # NoResource
        BY DEF NoResource
      <4>. QED BY <2>3, <4>1, <4>2 DEF HeldOnce
    <3>. QED BY <1>4, <2>1, <2>3, <3>1, <3>2 DEF WellFormed, Claims
  <2>. QED BY <2>2, <2>3
<1>. QED BY <1>8, <1>9, <1>10 DEF CancelInv

\* Whatever the step, a sale's fuel is given back when it is cancelled only.
LEMMA CancelKeeps == IInv /\ AssignInv /\ CancelInv /\ [Next]_vars => CancelInv'
<1>. SUFFICES ASSUME IInv, AssignInv, CancelInv, [Next]_vars PROVE CancelInv'
  OBVIOUS
<1>1. ASSUME UNCHANGED data
      PROVE  /\ CancelledOnce'
             /\ \A m \in DOMAIN movements' : movements'[m].sale <= Len(sales')
             /\ \A r : Claims(r) => Claims(r)'
  BY <1>1 DEF CancelInv, CancelledOnce, Claims, data
<1>2. CASE UNCHANGED vars
  <2>1. UNCHANGED data /\ UNCHANGED request
    BY <1>2 DEF vars, data
  <2>. QED BY <1>1, <2>1 DEF CancelInv
<1>3. CASE Crash
  <2>1. UNCHANGED data /\ \A s \in Session : request'[s] = Idle
    BY <1>3 DEF Crash
  <2>. QED BY <1>1, <2>1, IdleKnowsNothing DEF CancelInv
<1>4. ASSUME NEW s \in Session, Reads(s) PROVE CancelInv'
  <2>1. UNCHANGED data
    BY <1>4 DEF Reads
  <2>2. PICK r : Continue(s, r) /\ (Claims(request[s]) => Claims(r))
    BY <1>4 DEF Reads
  <2>3. \A t \in Session : request'[t] = IF t = s THEN r ELSE request[t]
    BY <2>2 DEF IInv, Continue
  <2>4. \A t \in Session : Claims(request'[t])
    BY <2>2, <2>3 DEF CancelInv
  <2>5. \A t \in Session : Claims(request[t])'
    BY <2>1, <2>4 DEF Claims, data
  <2>. QED BY <1>1, <2>1, <2>5 DEF CancelInv
<1>5. ASSUME NEW s \in Session,
             \/ OpenShift(s) \/ CloseShift(s) \/ ReopenShift(s)
             \/ Assign(s) \/ Complete(s) \/ CancelAssignment(s)
             \/ Sell(s) \/ CancelSale(s)
             \/ FailPayment(s) \/ RefundPayment(s) \/ MoveStock(s)
      PROVE  CancelInv'
  BY <1>5, OtherWritesCancel, SellingCancels, PaymentsCancel, MoveStockCancels,
     CancelSaleCancels
<1>. QED BY <1>2, <1>3, <1>4, <1>5, ReadsOrWrites

\* On the Main PC, where the sale's record is locked from the first look at
\* it to the answer, the fuel of a sale goes back into the tank when it is
\* cancelled, once, and never otherwise: however requests interleave and
\* wherever the process ends (sale_service.py: cancel_sale; api/lan/live.py:
\* ResourceVersions).
THEOREM SaleCancelledOnce == ASSUME Gated PROVE Spec => []CancelledOnce
<1>1. Init => CancelInv
  <2>. SUFFICES ASSUME Init PROVE CancelInv
    OBVIOUS
  <2>1. sales = <<>> /\ movements = <<>> /\ \A s \in Session : request[s] = Idle
    BY DEF Init
  <2>. QED BY <2>1, IdleKnowsNothing DEF CancelInv, CancelledOnce
<1>2. CancelInv => CancelledOnce
  BY DEF CancelInv
<1>. QED BY <1>1, <1>2, CancelKeeps, Invariant, AssignInvariant, PTL DEF Spec

-----------------------------------------------------------------------------
(***************************************************************************)
(* An assignment is completed together with the sales that cover it.       *)
(***************************************************************************)

\* The sales Recorded counts.
Counted(h, n, e) == {i \in DOMAIN sales : /\ sales[i].shift = h
                                          /\ sales[i].nozzle = n
                                          /\ sales[i].employee = e
                                          /\ sales[i].status = "completed"}

SaleLitres == [i \in DOMAIN sales |-> sales[i].litres]

\* What is recorded for an assignment is a sum over the sales counted for it.
LEMMA RecordedIs ==
    ASSUME NEW h, NEW n, NEW e
    PROVE  /\ Recorded(h, n, e) = SumFunctionOnSet(SaleLitres, Counted(h, n, e))
           /\ Recorded(h, n, e)' = SumFunctionOnSet(SaleLitres', Counted(h, n, e)')
BY DEF Recorded, SaleLitres, Counted

\* What is recorded is a number of litres.
LEMMA RecordedTyped ==
    ASSUME sales \in Seq(Sales), NEW h, NEW n, NEW e
    PROVE  /\ Recorded(h, n, e) \in Nat /\ IsFiniteSet(Counted(h, n, e))
           /\ \A i \in Counted(h, n, e) : i \in DOMAIN sales /\ SaleLitres[i] \in Nat
<1>1. Counted(h, n, e) \in SUBSET (1..Len(sales)) /\ Len(sales) \in Nat
  BY DEF Counted
<1>2. IsFiniteSet(Counted(h, n, e))
  <2>1. IsFiniteSet(1..Len(sales))
    BY <1>1, FS_Interval
  <2>. QED BY <1>1, <2>1, FS_Subset
<1>3. \A i \in DOMAIN sales : sales[i] \in Sales
  OBVIOUS
<1>4. \A i \in Counted(h, n, e) : i \in DOMAIN sales /\ SaleLitres[i] \in Nat
  BY <1>3 DEF Counted, SaleLitres, Sales
<1>. QED BY <1>2, <1>4, RecordedIs, SumIsNat

\* A completed sale adds its litres to what is recorded for its attendant.
LEMMA RecordedGrows ==
    ASSUME sales \in Seq(Sales), NEW h, NEW n, NEW e, NEW x \in Sales,
           sales' = Append(sales, x), x.shift = h, x.nozzle = n, x.employee = e,
           x.status = "completed"
    PROVE  Recorded(h, n, e)' = Recorded(h, n, e) + x.litres
<1>. DEFINE k == Len(sales) + 1
            C == Counted(h, n, e)
            D == Counted(h, n, e)'
<1>1. /\ DOMAIN sales' = DOMAIN sales \cup {k} /\ k \notin DOMAIN sales
      /\ sales'[k] = x /\ \A i \in DOMAIN sales : sales'[i] = sales[i]
  OBVIOUS
<1>. HIDE DEF k
<1>2. D = C \cup {k} /\ k \notin C
  BY <1>1 DEF Counted
<1>3. SaleLitres'[k] = x.litres /\ \A i \in C : SaleLitres'[i] = SaleLitres[i]
  BY <1>1 DEF SaleLitres, Counted
<1>4. x.litres \in Nat
  BY DEF Sales
<1>5. IsFiniteSet(C) /\ \A i \in C : SaleLitres[i] \in Nat
  BY RecordedTyped
<1>6. /\ Recorded(h, n, e) = SumFunctionOnSet(SaleLitres, C)
      /\ Recorded(h, n, e)' = SumFunctionOnSet(SaleLitres', D)
  BY RecordedIs
<1>. HIDE DEF C, D
<1>7. SumFunctionOnSet(SaleLitres', C \cup {k})
        = SumFunctionOnSet(SaleLitres', C) + SaleLitres'[k]
  <2>1. \A i \in C \cup {k} : SaleLitres'[i] \in Int
    BY <1>3, <1>4, <1>5
  <2>. QED BY <1>2, <1>5, <2>1, SumGrows
<1>8. SumFunctionOnSet(SaleLitres', C) = SumFunctionOnSet(SaleLitres, C)
  BY <1>3, <1>5, SumAgrees
<1>. QED BY <1>2, <1>3, <1>7, <1>8, <1>6

\* No other step completes an assignment.
LEMMA OnlyCompleteCompletes ==
    ASSUME IInv, [Next]_vars, NEW a \in DOMAIN assigned, Completes(a)
    PROVE  \E s \in Session : Complete(s)
<1>1. CASE UNCHANGED assigned
  BY <1>1 DEF Completes
<1>2. ASSUME NEW s \in Session, Reads(s) PROVE UNCHANGED assigned
  BY <1>2 DEF Reads, data
<1>3. Crash => UNCHANGED assigned
  BY DEF Crash, data
<1>4. ASSUME NEW s \in Session, Assign(s) PROVE FALSE
  <2>1. PICK x : assigned' = Append(assigned, x)
    BY <1>4 DEF Assign
  <2>2. assigned'[a] = assigned[a]
    BY <2>1 DEF IInv, DataOK
  <2>. QED BY <2>2 DEF Completes
<1>5. ASSUME NEW s \in Session, CancelAssignment(s) PROVE FALSE
  <2>. DEFINE i == request[s].row
  <2>1. assigned' = [assigned EXCEPT ![i].status = "cancelled"]
        /\ i \in DOMAIN assigned /\ assigned[i] \in Assignments
    BY <1>5, RowsTyped DEF CancelAssignment, IInv, Good, WellFormed
  <2>2. assigned'[a].status = assigned[a].status \/ assigned'[a].status = "cancelled"
    BY <2>1 DEF Assignments, IInv, DataOK
  <2>. QED BY <2>2 DEF Completes
<1>6. ASSUME NEW s \in Session,
             \/ OpenShift(s) \/ CloseShift(s) \/ ReopenShift(s)
             \/ Sell(s) \/ CancelSale(s)
             \/ FailPayment(s) \/ RefundPayment(s) \/ MoveStock(s)
      PROVE  UNCHANGED assigned
  BY <1>6 DEF OpenShift, CloseShift, ReopenShift, Sell, CancelSale, FailPayment,
              RefundPayment, MoveStock
<1>7. CASE UNCHANGED vars
  BY <1>1, <1>7 DEF vars
<1>. QED BY <1>1, <1>2, <1>3, <1>4, <1>5, <1>6, <1>7, ReadsOrWrites

\* What it records covers what the meter showed.
LEMMA CompleteCovers ==
    ASSUME IInv, NEW s \in Session, Complete(s), NEW a \in DOMAIN assigned,
           Completes(a)
    PROVE  Covered(a)'
<1>. DEFINE r == request[s]
            b == assigned[r.row]
            rest == r.litres - Recorded(b.shift, b.nozzle, b.employee)
            closed == [assigned EXCEPT ![r.row].status = "completed",
                                       ![r.row].dispensed = r.litres]
<1>1. /\ DataOK /\ r.row \in DOMAIN assigned /\ r.litres \in Nat
      /\ sales \in Seq(Sales) /\ assigned \in Seq(Assignments)
  BY DEF IInv, DataOK, Complete, Good, WellFormed
<1>2. b \in Assignments
  BY <1>1, RowsTyped
<1>3. /\ assigned' = closed
      /\ \/ rest \notin Positive /\ UNCHANGED sales
         \/ /\ rest \in Positive
            /\ RecordSale(b.shift, b.nozzle, b.employee, rest, NextReceipt, "success")
  BY DEF Complete, Completes
<1>4. /\ assigned'[r.row].dispensed = r.litres
      /\ assigned'[r.row].shift = b.shift /\ assigned'[r.row].nozzle = b.nozzle
      /\ assigned'[r.row].employee = b.employee
      /\ \A c \in DOMAIN assigned : c # r.row => assigned'[c] = assigned[c]
  BY <1>1, <1>2, <1>3 DEF Assignments
<1>5. a = r.row
  BY <1>4 DEF Completes
<1>. HIDE DEF r, rest, closed
<1>6. ASSUME NEW h, NEW n, NEW e, h = b.shift, n = b.nozzle, e = b.employee
      PROVE  Recorded(h, n, e)' >= r.litres
  <2>1. Recorded(h, n, e) \in Nat /\ rest = r.litres - Recorded(h, n, e)
    BY <1>1, <1>6, RecordedTyped DEF rest, r
  <2>2. CASE rest \notin Positive /\ UNCHANGED sales
    <3>1. Recorded(h, n, e)' = Recorded(h, n, e)
      BY <2>2 DEF Recorded
    <3>. QED BY <1>1, <2>1, <2>2, <3>1 DEF Positive
  <2>3. CASE /\ rest \in Positive
             /\ RecordSale(b.shift, b.nozzle, b.employee, rest, NextReceipt, "success")
    <3>. DEFINE x == [receipt |-> NextReceipt, shift |-> h, nozzle |-> n,
                      employee |-> e, litres |-> rest, status |-> "completed",
                      payment |-> "success"]
    <3>1. sales' = Append(sales, x)
      BY <1>6, <2>3 DEF RecordSale
    <3>2. x \in Sales
      <4>1. NextReceipt \in Nat
        BY <1>1, NextIsLength DEF DataOK
      <4>2. h \in Shift /\ n \in Nozzle /\ e \in Employee
        BY <1>2, <1>6 DEF Assignments
      <4>3. rest \in Nat
        BY <2>3 DEF Positive
      <4>. QED BY <4>1, <4>2, <4>3 DEF Sales, SaleStates, PaymentStates
    <3>3. /\ x.shift = h /\ x.nozzle = n /\ x.employee = e
          /\ x.status = "completed" /\ x.litres = rest
      OBVIOUS
    <3>. HIDE DEF x
    <3>4. Recorded(h, n, e)' = Recorded(h, n, e) + rest
      BY <1>1, <3>1, <3>2, <3>3, RecordedGrows
    <3>. QED BY <1>1, <2>1, <3>4
  <2>. QED BY <1>3, <2>2, <2>3
<1>7. Covered(a)' <=> Recorded(assigned[a].shift, assigned[a].nozzle,
                                assigned[a].employee)' >= assigned'[a].dispensed
  BY DEF Covered
<1>8. \A h, n, e : h = b.shift /\ n = b.nozzle /\ e = b.employee
                     => Recorded(h, n, e)' >= r.litres
  BY <1>6
<1>. QED BY <1>4, <1>5, <1>7, <1>8 DEF Recorded

\* When an assignment is completed, the litres its meter shows are covered
\* by recorded sales in the same commit, whatever else is going on
\* (shift_service.py: complete_nozzle_assignment; sale_service.py:
\* settle_assignment_cash).
THEOREM CompletedIsCovered == Spec => SettledOnCompletion
<1>1. IInv /\ [Next]_vars
        => [\A a \in DOMAIN assigned : Completes(a) => Covered(a)']_vars
  BY OnlyCompleteCompletes, CompleteCovers
<1>. QED BY <1>1, Invariant, PTL DEF Spec, SettledOnCompletion

=============================================================================
