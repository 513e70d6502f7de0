------------------------------- MODULE Payroll -------------------------------
(***************************************************************************)
(* The monthly payroll (app/services/payroll_service.py): a month is       *)
(* prepared as a draft, its deductions are typed, an owner approves it and *)
(* its lines are paid.  Advances given and cash shortages booked           *)
(* (app/services/employee_shortage_service.py) are what the deductions     *)
(* recover.  No path of these screens names a record, so on the Main PC    *)
(* nothing keeps two of their requests apart but the write lock.           *)
(***************************************************************************)
EXTENDS Desks, Integers, Sequences, FiniteSets, FiniteSetsExt, Functions

CONSTANTS Employee,
          LastMonth,     \* bound: months 1 .. LastMonth
          Gross,         \* what each employee earns a month
          MaxDebts,      \* bound: advances given and shortages booked
          MaxPayments    \* bound: payments marked in a month

ASSUME PayrollAssumption ==
    /\ LastMonth \in Nat \ {0}
    /\ {Gross, MaxDebts, MaxPayments} \subseteq Nat

VARIABLES month,      \* the current month (date.today())
          advances,   \* EmployeeAdvance rows
          runs,       \* PayrollRun status per month
          lines,      \* PayrollLine per month and employee
          payments,   \* PayrollPayment rows of each line, oldest first
          shortages   \* per employee: booked, and recovered directly

payrollVars == <<month, advances, runs, lines, payments, shortages>>

Month == 1 .. LastMonth
Settled == {"approved", "paid"}

Blank == [advance |-> 0, shortage |-> 0, net |-> Gross]

-----------------------------------------------------------------------------
(* What the service computes from the rows.                                *)

\* advance_given: active advances up to a month, one of them left out.
Given(e, upTo, except) ==
    LET given == {a \in advances : /\ a.employee = e /\ a.status = "active"
                                   /\ a.on <= upTo /\ a.id # except}
    IN SumFunction([a \in given |-> a.amount])

\* The deductions of one kind taken in approved months before m.
TakenBefore(e, m, kind) ==
    SumFunction([k \in {k \in Month : k < m /\ runs[k] \in Settled} |-> lines[k][e][kind]])

\* advance_recovered without before_month: every approved or paid month.
Recovered(e) == TakenBefore(e, LastMonth + 1, "advance")

\* advance_outstanding(up to the month's end, before_month = m).
AdvanceLeft(e, m) == Given(e, m, 0) - TakenBefore(e, m, "advance")

\* shortage_outstanding(before_month = m).
ShortageLeft(e, m) ==
    shortages[e].booked - shortages[e].recovered - TakenBefore(e, m, "shortage")

Active(paid, m, e) == {i \in DOMAIN paid[m][e] : paid[m][e][i].status = "active"}

AllPaid(m, paid) == \A e \in Employee : Active(paid, m, e) # {}

-----------------------------------------------------------------------------
(* Advances and shortages.                                                 *)

\* How many debts there are; used by the bound only.
Debts == Cardinality(advances) + MapThenSumSet(LAMBDA e : shortages[e].booked, Employee)

RecordAdvance ==
    /\ AtOnce
    /\ Debts < MaxDebts
    /\ \E e \in Employee, n \in 1 .. Gross, on \in Month :
           advances' = advances \cup
               {[id |-> Cardinality(advances) + 1, employee |-> e, amount |-> n,
                 on |-> on, status |-> "active"]}
    /\ UNCHANGED <<month, runs, lines, payments, shortages>>

\* Bug: the void does not look at what salaries have recovered.
VoidAllowedAlways(a) == TRUE

\* Without this advance, is what was recovered still covered to date?
VoidAllowed(a) == Given(a.employee, month, a.id) - Recovered(a.employee) >= 0

VoidAdvanceRead(s) ==
    /\ \E a \in advances :
           /\ a.status = "active"
           /\ VoidAllowed(a)
           /\ Begin(s, [kind |-> "void advance", key |-> NoRecord, advance |-> a])
    /\ UNCHANGED payrollVars

VoidAdvanceWrite(s) ==
    /\ Runs(s, "void advance")
    /\ advances' = (advances \ {job[s].advance})
                       \cup {[job[s].advance EXCEPT !.status = "void"]}
    /\ End(s)
    /\ UNCHANGED <<month, runs, lines, payments, shortages>>

\* record_shortage books the expense and the shortage of one variance.
RecordShortage ==
    /\ AtOnce
    /\ Debts < MaxDebts
    /\ \E e \in Employee :
           shortages' = [shortages EXCEPT ![e].booked = @ + 1]
    /\ UNCHANGED <<month, advances, runs, lines, payments>>

\* record_recovery compares the amount with nothing.
RecordRecovery ==
    /\ AtOnce
    /\ \E e \in Employee :
           /\ 0 < shortages[e].booked
           /\ shortages[e].recovered < MaxDebts    \* the bound of Debts again
           /\ shortages' = [shortages EXCEPT ![e].recovered = @ + 1]
    /\ UNCHANGED <<month, advances, runs, lines, payments>>

-----------------------------------------------------------------------------
(* The monthly register.                                                   *)

\* payroll_runs.month is unique: of two requests one inserts the row.
PrepareMonth ==
    /\ AtOnce
    /\ \E m \in Month :
           /\ runs[m] = "none"
           /\ runs' = [runs EXCEPT ![m] = "draft"]
           /\ lines' = [lines EXCEPT ![m] = [e \in Employee |-> Blank]]
    /\ UNCHANGED <<month, advances, payments, shortages>>

MayType(m) == runs[m] = "draft"

SetDeductionsRead(s) ==
    /\ \E m \in Month, e \in Employee, adv, short \in 0 .. Gross :
           /\ MayType(m)
           /\ adv <= AdvanceLeft(e, m)
           /\ short <= Max({0, ShortageLeft(e, m)})
           /\ adv + short <= lines[m][e].net + lines[m][e].advance + lines[m][e].shortage
           /\ Begin(s, [kind |-> "deductions", key |-> NoRecord, month |-> m,
                        employee |-> e, old |-> lines[m][e],
                        new |-> [advance |-> adv, shortage |-> short,
                                 net |-> Gross - adv - short]])
    /\ UNCHANGED payrollVars

\* Bug: the change is added to what is stored.
MergeByDifference(stored, old, new) ==
    [f \in DOMAIN stored |-> stored[f] + new[f] - old[f]]

\* SQLAlchemy writes the columns whose value is not the one it loaded.
Merge(stored, old, new) ==
    [f \in DOMAIN stored |-> IF new[f] = old[f] THEN stored[f] ELSE new[f]]

SetDeductionsWrite(s) ==
    /\ Runs(s, "deductions")
    /\ LET j == job[s] IN
           lines' = [lines EXCEPT ![j.month][j.employee] = Merge(@, j.old, j.new)]
    /\ End(s)
    /\ UNCHANGED <<month, advances, runs, payments, shortages>>

ApproveRead(s) ==
    /\ \E m \in Month :
           /\ runs[m] = "draft"
           /\ Begin(s, [kind |-> "approve", key |-> NoRecord, month |-> m])
    /\ UNCHANGED payrollVars

ApproveWrite(s) ==
    /\ Runs(s, "approve")
    /\ runs' = [runs EXCEPT ![job[s].month] = "approved"]
    /\ End(s)
    /\ UNCHANGED <<month, advances, lines, payments, shortages>>

\* Bug: a draft is paid.
MayPayDraft(m, e) == runs[m] # "none" /\ Active(payments, m, e) = {}

MayPay(m, e) == runs[m] \in Settled /\ Active(payments, m, e) = {}

PayRead(s) ==
    /\ \E m \in Month, e \in Employee :
           /\ MayPay(m, e)
           /\ MapThenSumSet(LAMBDA x : Len(payments[m][x]), Employee) < MaxPayments
           /\ Begin(s, [kind |-> "pay", key |-> NoRecord, month |-> m, employee |-> e,
                        amount |-> lines[m][e].net, status |-> runs[m]])
    /\ UNCHANGED payrollVars

\* The payment is inserted; then, under the lock, the whole month is looked
\* at, and a status that differs from the one loaded is written.
PayWrite(s) ==
    /\ Runs(s, "pay")
    /\ LET j == job[s]
           paid == [payments EXCEPT ![j.month][j.employee] =
                        Append(@, [amount |-> j.amount, status |-> "active"])]
       IN  /\ payments' = paid
           /\ runs' = IF AllPaid(j.month, paid) /\ j.status # "paid"
                      THEN [runs EXCEPT ![j.month] = "paid"] ELSE runs
    /\ End(s)
    /\ UNCHANGED <<month, advances, lines, shortages>>

VoidPaymentRead(s) ==
    /\ \E m \in Month, e \in Employee : \E i \in Active(payments, m, e) :
           Begin(s, [kind |-> "void payment", key |-> NoRecord, month |-> m,
                     employee |-> e, row |-> i])
    /\ UNCHANGED payrollVars

\* Bug: the month stays paid when a payment is undone.
ReopenedNever(m) == runs[m]

\* Bug: the month falls back to a draft.
ReopenedDraft(m) == IF runs[m] = "paid" THEN "draft" ELSE runs[m]

\* The month's status is loaded after the payment was written.
Reopened(m) == IF runs[m] = "paid" THEN "approved" ELSE runs[m]

VoidPaymentWrite(s) ==
    /\ Runs(s, "void payment")
    /\ LET j == job[s] IN
           /\ payments' = [payments EXCEPT ![j.month][j.employee][j.row].status = "void"]
           /\ runs' = [runs EXCEPT ![j.month] = Reopened(j.month)]
    /\ End(s)
    /\ UNCHANGED <<month, advances, lines, shortages>>

NextMonth ==
    /\ month < LastMonth
    /\ month' = month + 1
    /\ UNCHANGED <<deskVars, advances, runs, lines, payments, shortages>>

-----------------------------------------------------------------------------
PayrollInit ==
    /\ month = 1
    /\ advances = {}
    /\ runs = [m \in Month |-> "none"]
    /\ lines = [m \in Month |-> [e \in Employee |-> Blank]]
    /\ payments = [m \in Month |-> [e \in Employee |-> <<>>]]
    /\ shortages = [e \in Employee |-> [booked |-> 0, recovered |-> 0]]

PayrollNext ==
    \/ RecordAdvance \/ RecordShortage \/ RecordRecovery
    \/ PrepareMonth \/ NextMonth
    \/ \E s \in Session :
           \/ VoidAdvanceRead(s) \/ VoidAdvanceWrite(s)
           \/ SetDeductionsRead(s) \/ SetDeductionsWrite(s)
           \/ ApproveRead(s) \/ ApproveWrite(s)
           \/ PayRead(s) \/ PayWrite(s)
           \/ VoidPaymentRead(s) \/ VoidPaymentWrite(s)
           \/ GiveUp(s) /\ UNCHANGED payrollVars

PayrollSpec == DesksInit /\ PayrollInit /\ [][PayrollNext]_<<deskVars, payrollVars>>

-----------------------------------------------------------------------------
(* Properties.                                                             *)

Line == [advance : 0 .. Gross, shortage : 0 .. Gross, net : -Gross .. Gross]
AdvanceRow == [id : Nat \ {0}, employee : Employee, amount : 1 .. Gross, on : Month,
               status : {"active", "void"}]
PaymentRow == [amount : -Gross .. Gross, status : {"active", "void"}]

\* Every row has the fields and values its table allows.
PayrollTypeOK ==
    /\ mainPC \in BOOLEAN
    /\ month \in Month
    /\ runs \in [Month -> {"none", "draft"} \cup Settled]
    /\ lines \in [Month -> [Employee -> Line]]
    /\ advances \subseteq AdvanceRow
    /\ payments \in [Month -> [Employee -> Seq(PaymentRow)]]
    /\ shortages \in [Employee -> [booked : Nat, recovered : Nat]]

\* A month marked paid has an active payment for every line, whatever
\* payments and voids ran beside each other: both look at the month again
\* after they have taken the write lock (pay and void_payment).
PaidMeansPaid == \A m \in Month : runs[m] = "paid" => AllPaid(m, payments)

\* Nothing is paid before an owner has approved the month, and no later step
\* takes a month with payments back to a draft (docs: "Nothing is paid
\* before the owner approves").
PaidAfterApproval ==
    \A m \in Month, e \in Employee : payments[m][e] # <<>> => runs[m] \in Settled

\* In the Qt window, a payslip is paid at most once at a time and what was
\* paid is the salary less the deductions the line shows (the tallies of
\* payroll_checks.py).
PaidWhatTheLineSays ==
    ~mainPC => \A m \in Month, e \in Employee :
        /\ lines[m][e].net = Gross - lines[m][e].advance - lines[m][e].shortage
        /\ Cardinality(Active(payments, m, e)) <= 1
        /\ \A i \in Active(payments, m, e) : payments[m][e][i].amount = lines[m][e].net

\* In the Qt window, undoing an advance never leaves less given, to date,
\* than approved salaries have recovered (void_advance).
VoidKeepsRecovered ==
    [][~mainPC => \A a \in advances :
           a.status = "active" /\ [a EXCEPT !.status = "void"] \in advances'
               => Given(a.employee, month, a.id) >= Recovered(a.employee)]_<<deskVars, payrollVars>>

\* What the payroll is trusted with: a month is paid after its approval, in full,
\* as its lines say and once; and an advance that was recovered is not undone.
SalaryIsPaidAsApproved ==
    /\ []PaidAfterApproval
    /\ []PaidMeansPaid
    /\ []PaidWhatTheLineSays
    /\ VoidKeepsRecovered

\* payroll_checks.py:5: "advances recovered never exceed advances given".
\* Two draft months may each recover the same advance, since only approved
\* months count, and both may then be approved.
RecoveredWithinGiven ==
    \A e \in Employee : Recovered(e) <= Given(e, LastMonth, 0)

=============================================================================
