------------------------------- MODULE CloseDesk -------------------------------
(***************************************************************************)
(* The figures that are typed for a shift: the closing reading of a nozzle *)
(* (app/services/shift_close_service.py), the totals per payment mode      *)
(* (tender_entry_service.py), and the cash handed over, deposited and      *)
(* recovered (shift_cash_book_service.py).  The Close Shift desk           *)
(* (close_desk_service.py) types all of them in one unit of work.  Each    *)
(* screen names the shift in a path of its own, so the record lock keeps   *)
(* two requests of one screen apart and not those of two screens.  One     *)
(* nozzle is followed, which nobody was assigned to before its reading is  *)
(* typed; an assignment made earlier brings its opening reading with it,   *)
(* as a typed one does.                                                    *)
(***************************************************************************)
EXTENDS Desks, Integers, FiniteSets, Functions

CONSTANTS MaxShift,     \* bound: shifts, numbered by date
          MaxMeter,     \* bound: meter readings
          MaxReadings, MaxEntries, MaxCash,   \* bounds
          NoBook,
          NotTyped      \* a field of the desk that is left empty

ASSUME CloseDeskAssumption ==
    {MaxShift, MaxMeter, MaxReadings, MaxEntries, MaxCash} \subseteq Nat

VARIABLES shifts,     \* shifts that exist, one of each date; the order of dates is <
          openShifts,
          readings,   \* completed assignments of the nozzle, numbered by end time
          entries,    \* ShiftTenderEntry rows
          dtpSold,    \* shifts with DTP sales on the Terminal
          books,      \* ShiftCashBook of each shift
          cashMoves   \* deposits and recoveries posted to each book

closeDeskVars == <<shifts, openShifts, readings, entries, dtpSold, books, cashMoves>>

ShiftNo == 1 .. MaxShift
Dtp == "DTP Card"
TypedTender == {"Card", Dtp}
Screen == {"close-shift", "shift-close", "shift-totals"}

CreateShift ==
    /\ AtOnce
    /\ \E n \in ShiftNo \ shifts :
           /\ shifts' = shifts \cup {n}
           /\ openShifts' = openShifts \cup {n}
    /\ UNCHANGED <<readings, entries, dtpSold, books, cashMoves>>

ReopenShift ==
    /\ AtOnce
    /\ \E n \in shifts \ openShifts : openShifts' = openShifts \cup {n}
    /\ UNCHANGED <<shifts, readings, entries, dtpSold, books, cashMoves>>

\* The first DTP sale of a shift, and the cancelling of the last one.
DtpSale ==
    /\ AtOnce
    /\ \E n \in shifts : dtpSold' = IF n \in dtpSold THEN dtpSold \ {n} ELSE dtpSold \cup {n}
    /\ UNCHANGED <<shifts, openShifts, readings, entries, books, cashMoves>>

-----------------------------------------------------------------------------
(* A request of one of the screens: what it reads before its first write.  *)

\* Bug: the last closing reading is the one of the latest shift.
LastClosingByShift ==
    IF readings = {} THEN NotTyped
    ELSE (CHOOSE r \in readings : \A q \in readings :
              q.shift < r.shift \/ (q.shift = r.shift /\ q.at <= r.at)).closing

\* The closing reading that was typed last, whatever its shift.
LastClosing ==
    IF readings = {} THEN NotTyped
    ELSE (CHOOSE r \in readings : \A q \in readings : q.at <= r.at).closing

ActiveTotal(n, t) == {e \in entries : e.shift = n /\ e.tender = t /\ e.live}

\* _last_closing, or what was typed; nothing when no reading is typed.
OpeningOf(typed, opening) ==
    CASE ~typed -> NotTyped
      [] typed /\ opening # NotTyped -> opening
      [] typed /\ opening = NotTyped -> LastClosing

\* What can be typed on the screens, with these openings and closings, these
\* totals, and with or without a preview and the cash.
Sheet(screen, reading, total, preview, cash) ==
    [screen |-> screen, opening |-> reading[1], closing |-> reading[2],
     tender |-> total[1], total |-> total[2], preview |-> preview, cash |-> cash]

NoReading == <<NotTyped, NotTyped>>
NoTotal == <<"Card", NotTyped>>

ReadingsTyped(openings, closings) == (openings \cup {NotTyped}) \X closings

ShiftCloseSheets(openings, closings) ==
    {Sheet("shift-close", r, NoTotal, FALSE, FALSE) : r \in ReadingsTyped(openings, closings)}

TotalsSheets(totals) ==
    {Sheet("shift-totals", NoReading, t, FALSE, FALSE) : t \in TypedTender \X totals}

CloseShiftSheets(openings, closings, totals, previews, cashes) ==
    {Sheet("close-shift", r, t, preview, cash) :
         r \in ReadingsTyped(openings, closings) \cup {NoReading},
         t \in {NoTotal} \cup {"Card"} \X totals,
         preview \in previews, cash \in cashes}

Typed(openings, closings, totals, previews, cashes) ==
    ShiftCloseSheets(openings, closings) \cup TotalsSheets(totals)
        \cup CloseShiftSheets(openings, closings, totals, previews, cashes)

\* submit refuses a shift that has its reading or is closed, and a reading
\* without an opening or below it.
MayComplete(n, opening, closing) ==
    /\ \A r \in readings : r.shift # n
    /\ n \in openShifts
    /\ opening # NotTyped
    /\ closing >= opening

\* set_total: the Terminal's DTP sales are not typed a second time.
MayTypeTotal(n, tender) == tender = Dtp => n \notin dtpSold

DeskRead(s, typed) ==
    /\ \E i \in typed, n \in shifts :
           LET opening == OpeningOf(i.closing # NotTyped, i.opening)
           IN  /\ i.closing # NotTyped => MayComplete(n, opening, i.closing)
               /\ i.total # NotTyped => MayTypeTotal(n, i.tender)
               /\ Begin(s, [kind |-> "desk", key |-> <<i.screen, n>>, shift |-> n, input |-> i,
                            open |-> n \in openShifts, opening |-> opening,
                            active |-> ActiveTotal(n, i.tender)])
    /\ UNCHANGED closeDeskVars

-----------------------------------------------------------------------------
(* ... and what it writes, all of it or nothing.                           *)

Completed(j) ==
    IF j.input.closing = NotTyped THEN {}
    ELSE {[shift |-> j.shift, opening |-> j.opening, closing |-> j.input.closing,
           typed |-> j.input.opening # NotTyped, at |-> Cardinality(readings) + 1]}

\* Bug: the total that was replaced stays active.
VoidedNone(old) == old

Voided(old) == {[o EXCEPT !.live = FALSE] : o \in old}

\* set_total: the active total is read before the write lock is taken, when
\* no reading was written before; the same figure again changes nothing.
Retyped(j, old) ==
    IF j.input.total = NotTyped \/ \E o \in old : o.amount = j.input.total THEN entries
    ELSE (entries \ old) \cup Voided(old)
             \cup {[id |-> Cardinality(entries) + 1, shift |-> j.shift,
                    tender |-> j.input.tender, amount |-> j.input.total, live |-> TRUE]}

\* Bug: the cash book can be written over.
MayRecordBookAgain(n, book) == TRUE

\* One cash book per shift (shift_id is unique); the same figures pass.
MayRecordBook(n, book) == books[n] \in {NoBook, book}

DeskWrite(s) ==
    /\ Runs(s, "desk") /\ ~job[s].input.preview
    /\ LET j == job[s]
           active == IF j.input.closing = NotTyped THEN j.active
                     ELSE ActiveTotal(j.shift, j.input.tender)
           book == [advance |-> 1, final |-> 1]
       IN  /\ Cardinality(readings) < MaxReadings /\ Cardinality(entries) < MaxEntries
           /\ readings' = readings \cup Completed(j)
           /\ \E old \in SUBSET active :
                  /\ Cardinality(old) <= 1 /\ (old = {} => active = {})
                  /\ entries' = Retyped(j, old)
           /\ j.input.cash => MayRecordBook(j.shift, book)
           /\ books' = IF j.input.cash THEN [books EXCEPT ![j.shift] = book] ELSE books
           /\ openShifts' = IF j.open /\ j.input.screen = "close-shift" THEN openShifts \ {j.shift}
                            ELSE openShifts
    /\ End(s)
    /\ UNCHANGED <<shifts, dtpSold, cashMoves>>

\* A preview runs the same writes and is rolled back by an exception of its
\* own; nothing of it stays.
Preview(s) ==
    /\ Runs(s, "desk") /\ job[s].input.preview
    /\ End(s)
    /\ UNCHANGED closeDeskVars

-----------------------------------------------------------------------------
(* The cash book's own screen.                                             *)

RecordMovements ==
    /\ AtOnce
    /\ \E n \in shifts, advance, final \in 0 .. 1 :
           /\ books[n] = NoBook
           /\ books' = [books EXCEPT ![n] = [advance |-> advance, final |-> final]]
    /\ UNCHANGED <<shifts, openShifts, readings, entries, dtpSold, cashMoves>>

\* Bug: a deposit needs no cash book.
HasBookAlways(n) == TRUE

HasBook(n) == books[n] # NoBook

\* record_bank_deposit, and record_recovery of an employee's shortage.
MoveCash ==
    /\ AtOnce
    /\ \E n \in shifts, way \in {"deposit", "recovery"} :
           /\ HasBook(n)
           /\ cashMoves[n][way] < MaxCash
           /\ cashMoves' = [cashMoves EXCEPT ![n][way] = @ + 1]
    /\ UNCHANGED <<shifts, openShifts, readings, entries, dtpSold, books>>

Earlier(n) == {m \in shifts : m < n}

\* The unbroken run of cash books just before a shift.
RunBefore(n) ==
    {m \in Earlier(n) : \A k \in Earlier(n) : k >= m => books[k] # NoBook}

\* Bug: what employees paid back is not carried over.
CarriedWithoutRecoveries(m) == books[m].advance + books[m].final - cashMoves[m].deposit

Carried(m) == books[m].advance + books[m].final + cashMoves[m].recovery - cashMoves[m].deposit

OpeningBalance(n) == SumFunction([m \in RunBefore(n) |-> Carried(m)])

ClosingCash(n) ==
    OpeningBalance(n) + books[n].advance + books[n].final
        + cashMoves[n].recovery - cashMoves[n].deposit

-----------------------------------------------------------------------------
CloseDeskInit ==
    /\ shifts = {} /\ openShifts = {}
    /\ readings = {} /\ entries = {} /\ dtpSold = {}
    /\ books = [n \in ShiftNo |-> NoBook]
    /\ cashMoves = [n \in ShiftNo |-> [deposit |-> 0, recovery |-> 0]]

TypingNext(typed) ==
    \/ CreateShift \/ ReopenShift \/ DtpSale \/ RecordMovements
    \/ \E s \in Session :
           \/ DeskRead(s, typed) \/ DeskWrite(s) \/ Preview(s)
           \/ GiveUp(s) /\ UNCHANGED closeDeskVars

CashBookNext == CreateShift \/ RecordMovements \/ MoveCash

CloseDeskNext == TypingNext(Typed(0 .. MaxMeter, 0 .. MaxMeter, 1 .. 2, BOOLEAN, BOOLEAN)) \/ CashBookNext

CloseDeskSpec == DesksInit /\ CloseDeskInit /\ [][CloseDeskNext]_<<deskVars, closeDeskVars>>

-----------------------------------------------------------------------------
(* Properties.                                                             *)

\* Every row has the values its table allows; what happened to a shift that
\* was never created is nothing.
CloseDeskTypeOK ==
    /\ openShifts \subseteq shifts /\ shifts \subseteq ShiftNo /\ dtpSold \subseteq shifts
    /\ readings \subseteq [shift : shifts, opening : 0 .. MaxMeter, closing : 0 .. MaxMeter,
                           typed : BOOLEAN, at : 1 .. MaxReadings]
    /\ entries \subseteq [id : 1 .. MaxEntries, shift : shifts, tender : TypedTender,
                          amount : 1 .. 2, live : BOOLEAN]
    /\ \A n \in ShiftNo : books[n] = NoBook \/ books[n] \in [advance : 0 .. 1, final : 0 .. 1]
    /\ cashMoves \in [ShiftNo -> [deposit : 0 .. MaxCash, recovery : 0 .. MaxCash]]
    /\ \A n \in ShiftNo : books[n] = NoBook => cashMoves[n] = [deposit |-> 0, recovery |-> 0]

\* In one window no litre of the nozzle's meter is in two shifts, in
\* whatever order their sheets are typed, unless an opening reading is
\* typed where the last closing one was known (submit, _last_closing).
MeterBilledOnce ==
    ~mainPC /\ (\A r \in readings : r.typed => r.at = 1)
        => \A q, r \in readings : q.at < r.at => q.closing <= r.opening

\* In one window a payment mode of a shift has one total that counts,
\* whatever screens it is typed on (set_total).
OneActiveTotal ==
    ~mainPC => \A n \in shifts, t \in TypedTender : Cardinality(ActiveTotal(n, t)) <= 1

\* A shift's advance and final are written once, by whichever screen and on
\* whichever PC (record_shift_cash_movements, _record_cash).
BookWrittenOnce ==
    [][\A n \in ShiftNo : books[n] # NoBook => books'[n] = books[n]]_<<deskVars, closeDeskVars>>

\* A shift opens with the cash the shift before it closed with, whatever was
\* deposited or recovered there since and whichever shift was added between
\* (_opening_balance against get_cash_book_summary).
OpeningIsClosing ==
    \A n \in shifts : \A m \in Earlier(n) :
        /\ \A k \in Earlier(n) : k <= m
        /\ books[m] # NoBook
        => OpeningBalance(n) = ClosingCash(m)

\* What the Close Shift desk is trusted with: no litre, no total and no cash
\* is counted twice, within a shift or between a shift and the next.
NothingCountedTwice ==
    /\ []MeterBilledOnce
    /\ []OneActiveTotal
    /\ []OpeningIsClosing
    /\ BookWrittenOnce

\* shift_close_service.py:4: "the opening reading is the nozzle's last
\* closing reading".  Two shifts closed side by side on the Main PC both
\* start from the closing reading before them.
MeterNeverBilledTwice ==
    (\A r \in readings : r.typed => r.at = 1)
        => \A q, r \in readings : q.at < r.at => q.closing <= r.opening

\* tender_entry_service.py:4: "a re-typed total voids the old entry".  The
\* totals screen and the desk name the shift in different paths, and two
\* requests that both found no active total leave two.
TotalsAreReplaced ==
    \A n \in shifts, t \in TypedTender : Cardinality(ActiveTotal(n, t)) <= 1

=============================================================================
