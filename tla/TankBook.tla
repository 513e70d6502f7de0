------------------------------- MODULE TankBook -------------------------------
(***************************************************************************)
(* The book of one tank and its periodic reconciliation                    *)
(* (app/services/tank_service.py, tank_transaction_repository.py): what    *)
(* moved between two dips explains the difference between them, and the    *)
(* rest is the variance an owner looks into.  A reconciliation sums the    *)
(* movements by their dates and sets the book to what was dipped.          *)
(***************************************************************************)
EXTENDS Desks, Integers, Sequences, FiniteSets, Functions

CONSTANTS Full,          \* capacity of the tank
          AtStart,       \* stock the tank was created with
          LastBookDay,   \* bounds
          MaxMoves, MaxDips, MaxLost

ASSUME TankBookAssumption ==
    /\ {Full, MaxMoves, MaxDips, MaxLost} \subseteq Nat /\ LastBookDay \in Nat \ {0}
    /\ AtStart \in 0 .. Full
    /\ NoRecord # "tank"

VARIABLES bookDay,   \* the current day
          inTank,    \* litres in the tank
          book,      \* Tank.current_stock
          moves,     \* TankTransaction rows
          dips,      \* FuelReconciliation rows, oldest first
          lost       \* history: litres lost unseen since the last reconciliation

tankBookVars == <<bookDay, inTank, book, moves, dips, lost>>

BookDay == 1 .. LastBookDay
OneTank == "tank"

\* How a movement of each type changes the tank and the book.  Adjustments
\* correct the book; that of a cancelled sale ("returned") comes with the fuel
\* "that went back in the tank" (sale_service.py cancel_sale).
InTank(type) == CASE type \in {"receipt", "returned"} -> 1
                  [] type \in {"issue", "internal"} -> -1 [] OTHER -> 0
InBook(type) == CASE type = "more" -> 1 [] type = "less" -> -1 [] OTHER -> InTank(type)
MoveType == {"receipt", "issue", "internal", "more", "less", "returned"}

\* Receipts stay below the capacity, issues above empty, adjustments both.
Within(stock) == stock \in 0 .. Full

MovesOf(type) == {m \in moves : m.type = type}

\* A sale is cancelled once (Forecourt, CancelledOnce).
SomethingToReturn(type) ==
    type = "returned" => Cardinality(MovesOf("returned")) < Cardinality(MovesOf("issue"))

-----------------------------------------------------------------------------
(* Movements (_record_transaction_impl), one litre at a time.              *)

\* Sales, unloads and internal use name other records than the tank.
MoveRead(s) ==
    /\ Cardinality(moves) < MaxMoves
    /\ \E type \in MoveType :
           /\ SomethingToReturn(type)
           /\ Within(book + InBook(type))
           /\ Within(inTank + InTank(type))
           /\ Begin(s, [kind |-> "move", type |-> type, seen |-> book,
                        key |-> IF type \in {"more", "less"} THEN OneTank ELSE NoRecord])
    /\ UNCHANGED tankBookVars

MoveWrite(s) ==
    /\ Runs(s, "move")
    /\ Cardinality(moves) < MaxMoves
    /\ LET type == job[s].type IN
           /\ SomethingToReturn(type)
           /\ Within(inTank + InTank(type))
           /\ inTank' = inTank + InTank(type)
           /\ book' = job[s].seen + InBook(type)
           /\ moves' = moves \cup {[id |-> Cardinality(moves) + 1, type |-> type,
                                    day |-> bookDay, after |-> Len(dips)]}
    /\ End(s)
    /\ UNCHANGED <<bookDay, dips, lost>>

-----------------------------------------------------------------------------
(* Reconciliation.                                                         *)

\* get_latest_for_tank: by date; rows of one day come in any order.
Latest == {i \in DOMAIN dips : \A k \in DOMAIN dips : dips[k].day <= dips[i].day}

\* Bug: nothing is carried over from the dip before.
OpeningAtStart(i) == AtStart

\* What the period opens with, and the day it begins, or 0.
Opening(i) == IF i = 0 THEN AtStart ELSE dips[i].physical
Begins(i) == IF i = 0 THEN 0 ELSE dips[i].day

\* sum_for_tank_by_type: both days are included.
InPeriod(m, from, to) == m.day >= from /\ m.day <= to

\* Bug: what the pump used itself is not taken off.
ExplainedByWithoutInternal(type) == IF type \in {"receipt", "issue"} THEN InTank(type) ELSE 0

\* Receipts, issues and internal use explain the difference; adjustments do not.
ExplainedBy(type) == IF type \in {"receipt", "issue", "internal"} THEN InTank(type) ELSE 0

Explained(from, to) ==
    SumFunction([m \in {m \in moves : InPeriod(m, from, to)} |-> ExplainedBy(m.type)])

\* The tank is dipped, a date is typed, and the period is summed.
DipRead(s) ==
    /\ Len(dips) < MaxDips
    /\ \E i \in IF dips = <<>> THEN {0} ELSE Latest, day \in BookDay :
           Begin(s, [kind |-> "dip", key |-> OneTank, day |-> day, physical |-> inTank,
                     expected |-> Opening(i) + Explained(Begins(i), day),
                     lost |-> lost, last |-> i])
    /\ UNCHANGED tankBookVars

\* Bug: the book is left as it was.
BookAfterUnset(physical) == book

BookAfter(physical) == physical

DipWrite(s) ==
    /\ Runs(s, "dip")
    /\ LET j == job[s] IN
           /\ dips' = Append(dips, [day |-> j.day, physical |-> j.physical, last |-> j.last,
                                    variance |-> j.physical - j.expected, lost |-> j.lost])
           /\ book' = BookAfter(j.physical)
           /\ lost' = lost - j.lost
    /\ End(s)
    /\ UNCHANGED <<bookDay, inTank, moves>>

-----------------------------------------------------------------------------
\* Fuel is lost or stolen, and nobody types it.
Leak ==
    /\ AtOnce
    /\ lost < MaxLost /\ inTank > 0
    /\ inTank' = inTank - 1
    /\ lost' = lost + 1
    /\ UNCHANGED <<bookDay, book, moves, dips>>

BookDayPasses ==
    /\ AtOnce
    /\ bookDay < LastBookDay
    /\ bookDay' = bookDay + 1
    /\ UNCHANGED <<inTank, book, moves, dips, lost>>

TankBookInit ==
    /\ bookDay = 1
    /\ inTank = AtStart /\ book = AtStart
    /\ moves = {} /\ dips = <<>>
    /\ lost = 0

TankBookNext ==
    \/ Leak \/ BookDayPasses
    \/ \E s \in Session :
           \/ MoveRead(s) \/ MoveWrite(s)
           \/ DipRead(s) \/ DipWrite(s)
           \/ GiveUp(s) /\ UNCHANGED tankBookVars

TankBookSpec == DesksInit /\ TankBookInit /\ [][TankBookNext]_<<deskVars, tankBookVars>>

-----------------------------------------------------------------------------
(* Properties.                                                             *)

MoveRow == [id : 1 .. MaxMoves, type : MoveType, day : BookDay, after : 0 .. MaxDips]
DipRow == [day : BookDay, physical : 0 .. Full, last : 0 .. MaxDips, variance : Int, lost : Int]

\* The fields hold what their columns allow.
TankBookTypeOK ==
    /\ bookDay \in BookDay /\ inTank \in 0 .. Full /\ book \in Int
    /\ moves \subseteq MoveRow
    /\ dips \in Seq(DipRow) /\ Len(dips) <= MaxDips
    /\ lost \in Int

\* The dates tell what moved between this dip and the one before.
DatesTell(n) ==
    /\ dips[n].last = n - 1
    /\ \A m \in moves : m.after < n =>
           (m.after = n - 1 <=> InPeriod(m, Begins(n - 1), dips[n].day))

ReturnedBefore(n) == {m \in moves : m.type = "returned" /\ m.after = n - 1}

\* In one window the variance of such a dip is what was lost since the one
\* before, less the fuel of cancelled sales, whatever was received, sold, used
\* and adjusted (_perform_reconciliation_impl): a cancellation is the only
\* movement an owner has to know of to read the variance as a loss.
VarianceIsLossButReturns ==
    ~mainPC => \A n \in DOMAIN dips :
        DatesTell(n) => dips[n].variance = Cardinality(ReturnedBefore(n)) - dips[n].lost

AdjustedSince ==
    SumFunction([m \in {m \in moves : m.after = Len(dips)} |-> InBook(m.type) - InTank(m.type)])

\* In one window the book differs from the tank only by what was lost or
\* adjusted since the last dip: a reconciliation leaves no old difference
\* behind (perform_reconciliation: "a silent, unexplained stock change").
BookFollowsTank == ~mainPC => book = inTank + lost + AdjustedSince

\* What the book of a tank is trusted with.
TankIsExplained == VarianceIsLossButReturns /\ BookFollowsTank

\* tank_service.py:324: what left the tank is subtracted, or a "real, explained
\* draw" shows up "as unexplained variance - exactly the false-alarm problem this
\* reconciliation exists to avoid".  A cancelled sale is subtracted, and what came
\* back is not added again.
VarianceIsLoss ==
    ~mainPC => \A n \in DOMAIN dips : DatesTell(n) => dips[n].variance = -dips[n].lost

\* The same for any dip.  A movement on the day of a dip, made before it, is
\* summed for the next dip again.
EveryVarianceIsLoss == \A n \in DOMAIN dips : dips[n].variance = -dips[n].lost

=============================================================================
