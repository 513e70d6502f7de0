----------------------------- MODULE MCBackOffice -----------------------------
(***************************************************************************)
(* The requests of the office screens.  The components share the sessions  *)
(* (module Desks) and none of their tables, so each behaviour follows one  *)
(* of them, chosen at the start; credit is followed once through its sales *)
(* and once through its collections, bank matching once through its rules  *)
(* and once through its service.                                           *)
(***************************************************************************)
EXTENDS Payroll, Procurement, SignIn, Credit, BankRecon, CloseDesk, Reconciliation,
        Leave, TankBook, Bowser, Pumps, TLC

CONSTANTS s1, s2, e1, e2, o1, d1, d2, i1, f1, f2

VARIABLE followed

MCSession == {s1, s2}
MCEmployee2 == {e1, e2}
MCOrder == {o1}
MCDelivery == {d1, d2}
MCInvoice == {i1}
MCFuel1 == {f1}
MCNoReference == {NoReference}
MCByHand == {"present"}
MCVariances == {-3, 1}
MCDirections == {"credit", "debit"}

MCSymmetry == Permutations(Session)

MCModes == {"payroll", "procurement", "sign in", "passwords", "selling", "collecting",
            "statement", "matching", "readings", "totals", "cash book",
            "reconciliation", "leave", "tank", "bowser", "nozzles", "prices"}

figuresVars == <<closeDeskVars, reconciliationVars>>
siteVars == <<leaveVars, tankBookVars, bowserVars, pumpVars>>
deskTables == <<payrollVars, procurementVars, signInVars, creditVars, bankVars, figuresVars>>
mcVars == <<deskVars, deskTables, siteVars, followed>>

\* What is promised of these desks holds in one window, so they are followed
\* there; the reconciliation, on the Main PC, where its requests overlap.
OneWindow == {"sign in", "passwords", "selling", "collecting", "statement", "matching", "readings",
              "tank", "bowser", "nozzles"}

MCInit ==
    /\ DesksInit
    /\ PayrollInit /\ ProcurementInit /\ SignInInit /\ CreditInit /\ BankInit /\ CloseDeskInit
    /\ ReconciliationInit /\ LeaveInit /\ TankBookInit /\ BowserInit /\ PumpsInit
    /\ followed \in MCModes
    /\ followed \in OneWindow => ~mainPC
    /\ followed = "reconciliation" => mainPC
    /\ followed \notin {"selling", "collecting"} =>
           rows = 0 /\ rules = [approval |-> TRUE, over |-> "warn"]
    /\ followed # "nozzles" => allowed = CHOOSE n \in Limits : TRUE

\* Bounds: the service is followed with one payment of the smallest amount.
SmallStatement ==
    /\ \A l \in bankLines' : l.date = 1 /\ l.credit + l.debit = 1
    /\ \A k \in Source : sources'[k] # Gone => k = 1 /\ sources'[k].date = 1 /\ sources'[k].amount = 1

\* ... and the sales of the credit customer with the smallest amounts;
\* the limit of an account is the smallest in both.
SmallLimit ==
    /\ limit' <= 1
    /\ \A s \in Session : job'[s] # Idle /\ job'[s].kind = "open account" => job'[s].limit = 1

SmallBills ==
    /\ \A b \in bills' : b.amount = 1
    /\ \A s \in Session : job'[s] # Idle /\ job'[s].kind = "sale" => job'[s].amount = 1

\* The readings of two shifts are followed without their totals and cash,
\* all that is typed for one shift with the readings 0 and 1, and with one
\* advance.
OnlyReadings == Typed({0}, {1, 2}, {}, BOOLEAN, {FALSE})
OneReading == Typed({0}, {1}, 1 .. 2, {FALSE}, BOOLEAN)

\* A meter may show them.
ASSUME MeterAssumption == MaxMeter >= 2

MCNext ==
    /\ UNCHANGED followed
    /\ \/ /\ followed = "payroll" /\ PayrollNext
          /\ UNCHANGED <<procurementVars, signInVars, creditVars, bankVars, figuresVars, siteVars>>
       \/ /\ followed = "procurement" /\ ProcurementNext
          /\ UNCHANGED <<payrollVars, signInVars, creditVars, bankVars, figuresVars, siteVars>>
       \/ /\ followed = "sign in" /\ SignInNext
          /\ UNCHANGED <<payrollVars, procurementVars, creditVars, bankVars, figuresVars, siteVars>>
       \/ /\ followed = "passwords" /\ PasswordNext
          /\ UNCHANGED <<payrollVars, procurementVars, creditVars, bankVars, figuresVars, siteVars>>
       \/ /\ followed = "selling" /\ SellingNext /\ SmallLimit /\ SmallBills
          /\ UNCHANGED <<payrollVars, procurementVars, signInVars, bankVars, figuresVars, siteVars>>
       \/ /\ followed = "collecting" /\ CollectingNext /\ SmallLimit
          /\ UNCHANGED <<payrollVars, procurementVars, signInVars, bankVars, figuresVars, siteVars>>
       \/ /\ followed = "statement" /\ StatementNext
          /\ UNCHANGED <<payrollVars, procurementVars, signInVars, creditVars, figuresVars, siteVars>>
       \/ /\ followed = "matching" /\ BankNext /\ SmallStatement
          /\ UNCHANGED <<payrollVars, procurementVars, signInVars, creditVars, figuresVars, siteVars>>
       \/ /\ followed = "readings" /\ TypingNext(OnlyReadings)
          /\ dtpSold' = {} /\ books' = books
          /\ UNCHANGED <<payrollVars, procurementVars, signInVars, creditVars, bankVars, reconciliationVars, siteVars>>
       \/ /\ followed = "totals" /\ TypingNext(OneReading) /\ shifts' \subseteq {1}
          /\ books'[1] \in {NoBook} \cup [advance : {1}, final : 0 .. 1]
          /\ UNCHANGED <<payrollVars, procurementVars, signInVars, creditVars, bankVars, reconciliationVars, siteVars>>
       \/ /\ followed = "cash book" /\ CashBookNext
          /\ UNCHANGED <<payrollVars, procurementVars, signInVars, creditVars, bankVars, reconciliationVars, siteVars>>
       \/ /\ followed = "reconciliation" /\ ReconciliationNext
          /\ UNCHANGED <<payrollVars, procurementVars, signInVars, creditVars, bankVars, closeDeskVars, siteVars>>
       \/ /\ followed = "leave" /\ LeaveNext
          /\ UNCHANGED <<deskTables, tankBookVars, bowserVars, pumpVars>>
       \/ /\ followed = "tank" /\ TankBookNext
          /\ UNCHANGED <<deskTables, leaveVars, bowserVars, pumpVars>>
       \/ /\ followed = "bowser" /\ BowserNext
          /\ UNCHANGED <<deskTables, leaveVars, tankBookVars, pumpVars>>
       \/ /\ followed = "nozzles" /\ NozzlesNext
          /\ UNCHANGED <<deskTables, leaveVars, tankBookVars, bowserVars>>
       \/ /\ followed = "prices" /\ PricesNext
          /\ UNCHANGED <<deskTables, leaveVars, tankBookVars, bowserVars>>

MCSpec == MCInit /\ [][MCNext]_mcVars

\* What the books of the fuel are trusted with: the tank's differences are
\* explained by tank_service.py, the bowser's days follow from each other by
\* bowser_service.py, and so do the prices by fuel_service.py.
FuelIsExplained == TankIsExplained /\ BowserIsCarried /\ PumpsAreInOrder

\* The tables of every desk keep their types.
BackOfficeTypeOK ==
    /\ PayrollTypeOK /\ ProcurementTypeOK /\ SignInTypeOK /\ CreditTypeOK
    /\ BankTypeOK /\ CloseDeskTypeOK /\ ReconciliationTypeOK
    /\ LeaveTypeOK /\ TankBookTypeOK /\ BowserTypeOK /\ PumpsTypeOK

=============================================================================
