--------------------------- MODULE MCForecourtMainPC ---------------------------
(***************************************************************************)
(* Two requests at the same moment on the Main PC.  A behaviour keeps to   *)
(* the requests of one desk: those that change shifts and assignments,     *)
(* those that move money and fuel, or those that take the entry of a       *)
(* closed shift up its review chain (module EntryReview).  The first two   *)
(* both open shifts and sell.                                              *)
(***************************************************************************)
EXTENDS Forecourt, TLC

CONSTANTS s1, s2, h1, n1, n2, e1, e2

CONSTANTS TwoOwners, MaxFigures, MaxEvents

VARIABLES desk,
          entryStatus, entryEvents, figures, reviewRequest   \* of module EntryReview

entryVars == <<entryStatus, entryEvents, figures, reviewRequest>>

\* Accountants and owners are employees too.
Review == INSTANCE EntryReview WITH
              User <- Employee, NoUser <- None,
              status <- entryStatus, events <- entryEvents, request <- reviewRequest

MCSession == {s1, s2}
MCShift == {h1}
MCNozzle == {n1, n2}
MCEmployee == {e1, e2}

MCKinds == RequestKinds

StepsAt(d) ==
    {"idle", "open"} \cup SellingSteps
    \cup IF d = "shift"
         THEN ShiftSteps \cup AssigningSteps \cup AssignmentSteps
         ELSE SaleRowSteps \cup {"move stock"}

\* Bound: tank transactions.  A payment or a cancellation needs a sale first.
MovementsAt(d) == IF d = "shift" THEN 2 ELSE MaxMovements

\* Bound: whose sales move money and fuel does not matter there.
OneAttendant ==
    \A a, b \in {request[s] : s \in {t \in Session : request[t].nozzle # None}}
                 \cup {sales[i] : i \in DOMAIN sales} :
        a.nozzle = b.nozzle /\ a.employee = b.employee

MCInit == Init /\ Review!Init /\ desk \in {"shift", "money", "review"}

DeskNext ==
    /\ desk # "review"
    /\ Next
    /\ \A s \in Session : request'[s].step \in StepsAt(desk)
    /\ Len(movements') <= MovementsAt(desk)
    /\ desk = "money" => OneAttendant'
    /\ UNCHANGED <<desk, entryVars>>

ReviewNext == desk = "review" /\ Review!Next /\ UNCHANGED <<desk, vars>>

MCSpec == MCInit /\ [][DeskNext \/ ReviewNext]_<<vars, entryVars, desk>>

\* Two owners have a say, whatever the other session saves in between.
DifferentOwners == Review!DifferentOwners

\* Sessions, nozzles and employees are interchangeable.
MCSymmetry ==
    Permutations(Session) \cup Permutations(Nozzle) \cup Permutations(Employee)

=============================================================================
