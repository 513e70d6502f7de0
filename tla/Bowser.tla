-------------------------------- MODULE Bowser --------------------------------
(***************************************************************************)
(* The bowser's stock (app/services/bowser_service.py, BowserRepository):  *)
(* fuel is transferred to it by an internal sale, delivered on bills, and  *)
(* its meter read once a day.  No stock is kept: what the bowser holds on  *)
(* a day is worked out from the last opening set by hand and everything    *)
(* between.  The rupees beside the litres are left out.                    *)
(***************************************************************************)
EXTENDS Desks, Integers, FiniteSets, Functions

CONSTANTS LastBowserDay, MaxLitres, MaxBowserRows   \* bounds

ASSUME BowserAssumption == {LastBowserDay, MaxLitres, MaxBowserRows} \subseteq Nat

VARIABLES internal,    \* Customer rows with the name of the bowser
          transfers,   \* BowserTransfer rows with the status of their sale
          bowserBills, \* BowserBill rows
          meters,      \* BowserMeterReading rows
          openings     \* BowserOpening rows

bowserVars == <<internal, transfers, bowserBills, meters, openings>>

BowserDay == 1 .. LastBowserDay
Litres == 1 .. MaxLitres
BillNumber == {"A", "B"}

InForce(rows, day) == {r \in rows : r.day = day /\ r.status = "active"}

\* The newest of some rows; ids are given in the order of created_at.
NewestOf(rows) == CHOOSE r \in rows : \A q \in rows : q.id <= r.id

Rows ==
    Cardinality(transfers) + Cardinality(bowserBills) + Cardinality(meters) + Cardinality(openings)

NextId(table) == Cardinality(table) + 1

-----------------------------------------------------------------------------
(* What the bowser holds.                                                  *)

LitresOf(r) == r.litres

SumOf(rows) == SumFunction([r \in rows |-> LitresOf(r)])

\* latest_opening_before_or_on.
Manual(day) ==
    LET set == {o \in openings : o.day <= day /\ o.status = "active"}
        last == {o \in set : \A q \in set : q.day <= o.day}
    IN  IF set = {} THEN [day |-> 0, litres |-> 0] ELSE NewestOf(last)

\* Bug: what happened on the day of the opening itself is left out.
CountsAfter(manual, day) == day > manual.day

\* Events from the day of the opening on.
CountsFrom(manual, day) == day >= manual.day

\* _position_before: what the day opens with.
PositionBefore(day) ==
    LET manual == Manual(day)
        between(rows) == {r \in rows : r.day < day /\ CountsFrom(manual, r.day)}
    IN  IF manual.day = day THEN manual.litres
        ELSE manual.litres + SumOf(between(transfers))
                 - SumOf({b \in between(bowserBills) : b.status = "active"})

\* build_day.
Closing(day) ==
    PositionBefore(day) + SumOf({t \in transfers : t.day = day}) - SumOf(InForce(bowserBills, day))

-----------------------------------------------------------------------------
(* Requests.                                                               *)

\* internal_customer is looked for before the first write.
TransferRead(s) ==
    /\ Rows < MaxBowserRows
    /\ \E day \in BowserDay, n \in Litres :
           Begin(s, [kind |-> "transfer", key |-> NoRecord, day |-> day, litres |-> n,
                     found |-> internal > 0])
    /\ UNCHANGED bowserVars

TransferWrite(s) ==
    /\ Runs(s, "transfer")
    /\ Rows < MaxBowserRows
    /\ internal' = IF job[s].found THEN internal ELSE internal + 1
    /\ transfers' = transfers \cup {[id |-> NextId(transfers), day |-> job[s].day,
                                     litres |-> job[s].litres, status |-> "active"]}
    /\ End(s)
    /\ UNCHANGED <<bowserBills, meters, openings>>

\* The sale of a transfer is cancelled; the transfer is not looked at.
CancelTransferSale ==
    /\ AtOnce
    /\ \E t \in transfers :
           /\ t.status = "active"
           /\ transfers' = (transfers \ {t}) \cup {[t EXCEPT !.status = "cancelled"]}
    /\ UNCHANGED <<internal, bowserBills, meters, openings>>

\* Bug: a number may be used twice on a day.
NumberFreeAlways(no, day) == TRUE

NumberFree(no, day) == \A b \in InForce(bowserBills, day) : b.no # no

BillRead(s) ==
    /\ Rows < MaxBowserRows
    /\ \E no \in BillNumber, day \in BowserDay, n \in Litres :
           /\ NumberFree(no, day)
           /\ Begin(s, [kind |-> "bill", key |-> NoRecord, no |-> no, day |-> day, litres |-> n])
    /\ UNCHANGED bowserVars

BillWrite(s) ==
    /\ Runs(s, "bill")
    /\ Rows < MaxBowserRows
    /\ bowserBills' = bowserBills \cup {[id |-> NextId(bowserBills), no |-> job[s].no,
           day |-> job[s].day, litres |-> job[s].litres, status |-> "active"]}
    /\ End(s)
    /\ UNCHANGED <<internal, transfers, meters, openings>>

VoidBillRead(s) ==
    /\ \E b \in bowserBills :
           /\ b.status = "active"
           /\ Begin(s, [kind |-> "void bill", key |-> NoRecord, bill |-> b])
    /\ UNCHANGED bowserVars

VoidBillWrite(s) ==
    /\ Runs(s, "void bill")
    /\ bowserBills' = (bowserBills \ {job[s].bill}) \cup {[job[s].bill EXCEPT !.status = "void"]}
    /\ End(s)
    /\ UNCHANGED <<internal, transfers, meters, openings>>

\* Bug: the reading that is replaced stays in force.
ReplacedNone(rows, old) == rows

\* The row that was read before the first write becomes void.
Replaced(rows, old) ==
    {IF r \in old THEN [r EXCEPT !.status = "void"] ELSE r : r \in rows}

NewestInForce(rows, day) ==
    IF InForce(rows, day) = {} THEN {} ELSE {NewestOf(InForce(rows, day))}

\* A meter reading or an opening of a day replaces the one before.
DailyRead(s) ==
    /\ Rows < MaxBowserRows
    /\ \E kind \in {"meter", "opening"}, day \in BowserDay, n \in 0 .. MaxLitres :
           Begin(s, [kind |-> kind, key |-> NoRecord, day |-> day, litres |-> n,
                     old |-> NewestInForce(IF kind = "meter" THEN meters ELSE openings, day)])
    /\ UNCHANGED bowserVars

MeterWrite(s) ==
    /\ Runs(s, "meter")
    /\ Rows < MaxBowserRows
    /\ meters' = Replaced(meters, job[s].old) \cup
           {[id |-> NextId(meters), day |-> job[s].day, status |-> "active"]}
    /\ End(s)
    /\ UNCHANGED <<internal, transfers, bowserBills, openings>>

OpeningWrite(s) ==
    /\ Runs(s, "opening")
    /\ Rows < MaxBowserRows
    /\ openings' = Replaced(openings, job[s].old) \cup
           {[id |-> NextId(openings), day |-> job[s].day, litres |-> job[s].litres,
             status |-> "active"]}
    /\ End(s)
    /\ UNCHANGED <<internal, transfers, bowserBills, meters>>

-----------------------------------------------------------------------------
BowserInit ==
    /\ internal = 0
    /\ transfers = {} /\ bowserBills = {} /\ meters = {} /\ openings = {}

BowserNext ==
    \/ CancelTransferSale
    \/ \E s \in Session :
           \/ TransferRead(s) \/ TransferWrite(s)
           \/ BillRead(s) \/ BillWrite(s)
           \/ VoidBillRead(s) \/ VoidBillWrite(s)
           \/ DailyRead(s) \/ MeterWrite(s) \/ OpeningWrite(s)
           \/ GiveUp(s) /\ UNCHANGED bowserVars

BowserSpec == DesksInit /\ BowserInit /\ [][BowserNext]_<<deskVars, bowserVars>>

-----------------------------------------------------------------------------
(* Properties.                                                             *)

InForceOrVoid == {"active", "void"}
TransferRow == [id : Nat, day : BowserDay, litres : Litres, status : {"active", "cancelled"}]
BowserBillRow ==
    [id : Nat, no : BillNumber, day : BowserDay, litres : Litres, status : InForceOrVoid]
MeterRow == [id : Nat, day : BowserDay, status : InForceOrVoid]
OpeningRow == [id : Nat, day : BowserDay, litres : 0 .. MaxLitres, status : InForceOrVoid]

\* Every row has the values its table allows.
BowserTypeOK ==
    /\ internal \in Nat
    /\ transfers \subseteq TransferRow /\ bowserBills \subseteq BowserBillRow
    /\ meters \subseteq MeterRow /\ openings \subseteq OpeningRow

\* What the bowser closes a day with it opens the next one with, unless the
\* opening was set by hand: however rows are dated, voided and replaced, the
\* two ways of working it out agree (build_day, _position_before).
CarriedForward ==
    \A day \in 1 .. (LastBowserDay - 1) :
        InForce(openings, day + 1) = {} => PositionBefore(day + 1) = Closing(day)

\* In one window a day has one reading, one opening and one bill of a number
\* in force (record_meter, set_opening, record_bill).
OnceADay ==
    ~mainPC => \A day \in BowserDay :
        /\ Cardinality(InForce(meters, day)) <= 1
        /\ Cardinality(InForce(openings, day)) <= 1
        /\ \A b, c \in InForce(bowserBills, day) : b.no = c.no => b = c

\* What the bowser's stock is trusted with.
BowserIsCarried == CarriedForward /\ OnceADay

\* bowser_service.py:74: "The credit customer a Stock Transfer is billed to", one
\* customer.  Two first transfers at once make two.
OneInternalCustomer == internal <= 1

\* site_repositories.py:84: the stock is every transfer.  One whose sale was
\* cancelled has put its fuel back into the tank and is still counted.
OnlyStandingTransfers == \A t \in transfers : t.status = "active"

=============================================================================
