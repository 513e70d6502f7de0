---------------------------- MODULE Reconciliation ----------------------------
(***************************************************************************)
(* The money of one shift (app/services/reconciliation_service.py): what   *)
(* its completed sales and approved expenses make each payment mode expect *)
(* is compared, once, with what was declared; a cash shortage is booked as *)
(* an expense and tracked against an employee                              *)
(* (employee_shortage_service.py, expense_service.py).                     *)
(***************************************************************************)
EXTENDS Desks, Integers, FiniteSets, Functions

CONSTANTS SaleAmount,   \* the amount of every sale
          SmallExpense, \* the amount of an expense that is typed
          Variances,    \* by how much what is declared is off
          MaxTenderSales, MaxExpenses   \* bounds

ASSUME ReconciliationAssumption ==
    /\ {SaleAmount, SmallExpense} \subseteq Nat \ {0}
    /\ Variances \subseteq Int /\ {MaxTenderSales, MaxExpenses} \subseteq Nat

VARIABLES sold,       \* completed sales of each payment mode
          expenses,   \* Expense rows of the shift
          reconciled, \* status of the ShiftReconciliation, or "not yet"
          tenderLines, \* its lines, by payment mode
          receivables, \* EmployeeCashShortage rows of its cash line
          moved       \* history: sales or other expenses counted since it was read

reconciliationVars == <<sold, expenses, reconciled, tenderLines, receivables, moved>>

Tender == {"Cash", "Card"}

Counted(e) == e.status = "approved"

AmountOf(e) == e.amount

Expected(t) ==
    sold[t] * SaleAmount
        - SumFunction([e \in {x \in expenses : x.tender = t /\ Counted(x)} |-> AmountOf(e)])

Magnitude(n) == IF n < 0 THEN -n ELSE n

\* classify_reconciliation_variance: 0.5, 1 and 2 percent of the expected.
Severity(expected, variance) ==
    LET off == Magnitude(variance)
        base == Magnitude(expected)
    IN  CASE 200 * off <= base -> "normal"
          [] 200 * off > base /\ 100 * off <= base -> "warning"
          [] 100 * off > base /\ 50 * off <= base -> "investigation"
          [] OTHER -> "approval"

\* Bug: one good line is enough.
AcceptedIfAny(found) ==
    \E t \in DOMAIN found : Severity(found[t].expected, found[t].variance) \in {"normal", "warning"}

\* The worst line decides.
Accepted(found) ==
    \A t \in DOMAIN found : Severity(found[t].expected, found[t].variance) \in {"normal", "warning"}

\* A counted amount changes after the reconciliation has read it.
Moves ==
    moved' = (moved \/ reconciled # "not yet"
                \/ \E s \in Session : Runs(s, "reconcile"))

-----------------------------------------------------------------------------
(* Sales and expenses of the shift go on, whatever its state.              *)

Sell ==
    /\ AtOnce
    /\ \E t \in Tender :
           /\ sold[t] < MaxTenderSales
           /\ sold' = [sold EXCEPT ![t] = @ + 1]
    /\ Moves
    /\ UNCHANGED <<expenses, reconciled, tenderLines, receivables>>

CancelSale ==
    /\ AtOnce
    /\ \E t \in Tender : sold[t] > 0 /\ sold' = [sold EXCEPT ![t] = @ - 1]
    /\ Moves
    /\ UNCHANGED <<expenses, reconciled, tenderLines, receivables>>

\* _create_expense_impl: pending, in cash or by card.
NewExpense(t, amount, shortage) ==
    [id |-> Cardinality(expenses) + 1, tender |-> t, amount |-> amount,
     shortage |-> shortage, status |-> "pending"]

CreateExpense ==
    /\ AtOnce
    /\ Cardinality(expenses) < MaxExpenses
    /\ \E t \in Tender : expenses' = expenses \cup {NewExpense(t, SmallExpense, FALSE)}
    /\ UNCHANGED <<sold, reconciled, tenderLines, receivables, moved>>

Decide(e, status) == expenses' = (expenses \ {e}) \cup {[e EXCEPT !.status = status]}

ApproveExpense ==
    /\ AtOnce
    /\ \E e \in expenses :
           /\ e.status = "pending"
           /\ Decide(e, "approved")
           /\ IF e.shortage THEN UNCHANGED moved ELSE Moves
    /\ UNCHANGED <<sold, reconciled, tenderLines, receivables>>

RejectExpense ==
    /\ AtOnce
    /\ \E e \in expenses : e.status = "pending" /\ Decide(e, "rejected")
    /\ UNCHANGED <<sold, reconciled, tenderLines, receivables, moved>>

-----------------------------------------------------------------------------
(* perform_shift_reconciliation: expected is read before the first write.  *)

\* Every payment mode something is expected of has its line.
TenderInUse == {t \in Tender : Expected(t) # 0}

ReconcileRead(s) ==
    /\ reconciled = "not yet"
    /\ \E off \in [TenderInUse -> Variances] :
           Begin(s, [kind |-> "reconcile", key |-> NoRecord,
                     lines |-> [t \in TenderInUse |-> [expected |-> Expected(t), variance |-> off[t],
                                                  declared |-> Expected(t) + off[t]]]])
    /\ UNCHANGED reconciliationVars

\* Bug: a shift can be reconciled again.
MayReconcileAgain == TRUE

\* shift_id is unique: the second of two is refused by the table.
MayReconcile == reconciled = "not yet"

ReconcileWrite(s) ==
    /\ Runs(s, "reconcile") /\ MayReconcile
    /\ reconciled' = IF Accepted(job[s].lines) THEN "accepted" ELSE "pending approval"
    /\ tenderLines' = job[s].lines
    /\ End(s)
    /\ UNCHANGED <<sold, expenses, receivables, moved>>

ApproveReconciliation ==
    /\ AtOnce
    /\ reconciled = "pending approval"
    /\ reconciled' = "approved"
    /\ UNCHANGED <<sold, expenses, tenderLines, receivables, moved>>

-----------------------------------------------------------------------------
(* record_shortage: the line and its shortage are read before the write.   *)

\* Bug: a surplus is booked too.
IsShortOrOver(line) == line.variance # 0

IsShort(line) == line.variance < 0

ShortageRead(s) ==
    /\ reconciled # "not yet" /\ "Cash" \in DOMAIN tenderLines
    /\ IsShort(tenderLines["Cash"])
    /\ receivables = {}
    /\ Begin(s, [kind |-> "shortage", key |-> NoRecord])
    /\ UNCHANGED reconciliationVars

\* Bug: nothing keeps a line from being booked twice.
MayBookAgain == TRUE

\* The line's id is unique among them; the expense of the request
\* that is refused goes with it.
MayBook == receivables = {}

ShortageWrite(s) ==
    /\ Runs(s, "shortage") /\ MayBook
    /\ Cardinality(expenses) < MaxExpenses
    /\ LET e == NewExpense("Cash", Magnitude(tenderLines["Cash"].variance), TRUE)
       IN  /\ expenses' = expenses \cup {e}
           /\ receivables' = receivables \cup {[expense |-> e.id, amount |-> e.amount]}
    /\ End(s)
    /\ UNCHANGED <<sold, reconciled, tenderLines, moved>>

-----------------------------------------------------------------------------
ReconciliationInit ==
    /\ sold = [t \in Tender |-> 0]
    /\ expenses = {} /\ reconciled = "not yet" /\ tenderLines = [t \in {} |-> 0]
    /\ receivables = {} /\ moved = FALSE

ReconciliationNext ==
    \/ Sell \/ CancelSale \/ CreateExpense \/ ApproveExpense \/ RejectExpense
    \/ ApproveReconciliation
    \/ \E s \in Session :
           \/ ReconcileRead(s) \/ ReconcileWrite(s) \/ ShortageRead(s) \/ ShortageWrite(s)
           \/ GiveUp(s) /\ UNCHANGED reconciliationVars

ReconciliationSpec ==
    DesksInit /\ ReconciliationInit /\ [][ReconciliationNext]_<<deskVars, reconciliationVars>>

-----------------------------------------------------------------------------
(* Properties.                                                             *)

ExpenseRow ==
    [id : 1 .. MaxExpenses, tender : Tender, amount : Nat \ {0}, shortage : BOOLEAN,
     status : {"pending", "approved", "rejected"}]

\* The rows have the values their tables allow, and a reconciliation that
\* was accepted by itself has no line that is off by more than one percent.
ReconciliationTypeOK ==
    /\ sold \in [Tender -> 0 .. MaxTenderSales] /\ moved \in BOOLEAN
    /\ expenses \subseteq ExpenseRow
    /\ reconciled \in {"not yet", "accepted", "pending approval", "approved"}
    /\ DOMAIN tenderLines \subseteq Tender
    /\ reconciled = "accepted" => \A t \in DOMAIN tenderLines :
           100 * Magnitude(tenderLines[t].variance) <= Magnitude(tenderLines[t].expected)

\* When the shortage that was booked is approved and nothing else was
\* counted meanwhile, the cash that is expected is the cash that was
\* declared (record_shortage, _expected_amounts).
ShortageBalances ==
    \A x \in receivables : \A e \in expenses :
        e.id = x.expense /\ e.status = "approved" /\ ~moved
            => Expected("Cash") = tenderLines["Cash"].declared

\* A shift's shortage costs it once: every expense of that kind belongs to
\* a receivable of the same amount, and there is one at most, although two
\* PCs may book the same line at once (record_shortage, unique line id).
ShortageCostsOnce ==
    /\ Cardinality({e \in expenses : e.shortage}) <= 1
    /\ \A e \in expenses : e.shortage => [expense |-> e.id, amount |-> e.amount] \in receivables

\* What a shift was reconciled with is never replaced, whoever else was
\* reconciling it (perform_shift_reconciliation, unique shift_id).
ReconciledOnce ==
    [][reconciled # "not yet" =>
           reconciled' # "not yet" /\ tenderLines' = tenderLines]_<<deskVars, reconciliationVars>>

\* What the reconciliation is trusted with: a shift is reconciled once, and a
\* shortage it finds is one expense that accounts for it.
ShortageIsBookedOnce ==
    /\ ReconciledOnce
    /\ []ShortageCostsOnce
    /\ []ShortageBalances

\* employee_shortage_service.py:4: "A cash shortage found at shift
\* reconciliation is booked as an Expense the moment it's found, so the
\* books balance immediately".  The expense is pending, and only approved
\* ones are counted: nothing balances before somebody approves it.
BooksBalanceImmediately ==
    receivables # {} /\ ~moved => Expected("Cash") = tenderLines["Cash"].declared

=============================================================================
