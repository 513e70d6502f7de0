--------------------------------- MODULE Pumps ---------------------------------
(***************************************************************************)
(* One dispenser with its nozzles (app/services/nozzle_service.py) and the *)
(* price of one fuel (fuel_service.py), with the requests that depend on   *)
(* them: assigning a nozzle (shift_service.py) and billing at the price    *)
(* (sale_service.py).  The paths of a status and of a price name their     *)
(* record, an assignment names its shift, a new nozzle and a sale name     *)
(* none.                                                                   *)
(***************************************************************************)
EXTENDS Desks, Integers, Sequences, FiniteSets

CONSTANTS Nozzle,       \* bound: nozzles that may be created
          WorkShift,    \* open shifts
          Limits,       \* values of the setting max_nozzles_per_dispenser
          Rates,        \* prices a manager sets
          MaxPrices     \* bound: changes of the price

ASSUME PumpsAssumption ==
    /\ IsFiniteSet(Nozzle) /\ WorkShift # {} /\ Limits \subseteq Nat /\ Limits # {}
    /\ Rates \subseteq Nat \ {0} /\ MaxPrices \in Nat
    /\ NoRecord # <<"fuel", 1>>

VARIABLES inUse,      \* the dispenser: is it active?
          status,     \* of each nozzle: "none", "active" or "maintenance"
          assigned,   \* active assignments: the shift and the nozzle
          allowed,    \* max_nozzles_per_dispenser now
          greatest,   \* history: the greatest it has been
          rate,       \* rate_per_liter, seeded with 0
          prices,     \* FuelPriceHistory rows, oldest first
          billed      \* the rates of the sales

nozzleVars == <<inUse, status, assigned, allowed, greatest>>
priceVars == <<rate, prices, billed>>
pumpVars == <<nozzleVars, priceVars>>

Unpriced == 0

Fitted == {n \in Nozzle : status[n] # "none"}

-----------------------------------------------------------------------------
(* The dispenser and its nozzles.                                          *)

\* set_dispenser_status; its nozzles stay as they are.
SetDispenserStatus ==
    /\ AtOnce
    /\ inUse' = ~inUse
    /\ UNCHANGED <<status, assigned, allowed, greatest, priceVars>>

\* Bug: one nozzle too many.
HasRoomForOneMore == Cardinality(Fitted) <= allowed

HasRoom == Cardinality(Fitted) < allowed

CreateNozzleRead(s) ==
    /\ inUse /\ HasRoom
    /\ \E n \in Nozzle \ Fitted : Begin(s, [kind |-> "create", key |-> NoRecord, nozzle |-> n])
    /\ UNCHANGED pumpVars

\* The code is unique.
CreateNozzleWrite(s) ==
    /\ Runs(s, "create")
    /\ job[s].nozzle \notin Fitted
    /\ status' = [status EXCEPT ![job[s].nozzle] = "active"]
    /\ End(s)
    /\ UNCHANGED <<inUse, assigned, allowed, greatest, priceVars>>

\* Bug: one shift is asked for, as when a nozzle is assigned.
MayTakeOutOfOneShift(n) == <<CHOOSE w \in WorkShift : TRUE, n>> \notin assigned

\* get_active_for_nozzle: any assignment, across all shifts.
MayTakeOut(n) == \A w \in WorkShift : <<w, n>> \notin assigned

SetNozzleRead(s) ==
    /\ \E n \in Fitted, new \in {"active", "maintenance"} :
           /\ new # "active" => MayTakeOut(n)
           /\ Begin(s, [kind |-> "status", key |-> <<"nozzle", n>>, nozzle |-> n, new |-> new])
    /\ UNCHANGED pumpVars

SetNozzleWrite(s) ==
    /\ Runs(s, "status")
    /\ status' = [status EXCEPT ![job[s].nozzle] = job[s].new]
    /\ End(s)
    /\ UNCHANGED <<inUse, assigned, allowed, greatest, priceVars>>

\* Bug: any nozzle that exists can be given out.
MayAssignFitted(w, n) == n \in Fitted /\ <<w, n>> \notin assigned

\* Two shifts that are open may have the same nozzle.
MayAssign(w, n) == status[n] = "active" /\ <<w, n>> \notin assigned

AssignRead(s) ==
    /\ \E w \in WorkShift, n \in Nozzle :
           /\ MayAssign(w, n)
           /\ Begin(s, [kind |-> "assign", key |-> <<"shift", w>>, nozzle |-> n])
    /\ UNCHANGED pumpVars

AssignWrite(s) ==
    /\ Runs(s, "assign")
    /\ assigned' = assigned \cup {<<job[s].key[2], job[s].nozzle>>}
    /\ End(s)
    /\ UNCHANGED <<inUse, status, allowed, greatest, priceVars>>

\* Completed or cancelled.
EndAssignment ==
    /\ AtOnce
    /\ \E a \in assigned : assigned' = assigned \ {a}
    /\ UNCHANGED <<inUse, status, allowed, greatest, priceVars>>

\* PumpSettingsService.set, by an owner.
SetLimit ==
    /\ AtOnce
    /\ allowed' \in Limits
    /\ greatest' = IF allowed' > greatest THEN allowed' ELSE greatest
    /\ UNCHANGED <<inUse, status, assigned, priceVars>>

-----------------------------------------------------------------------------
(* The price.                                                              *)

\* A change to what is there already is refused.
SetRateRead(s) ==
    /\ Len(prices) < MaxPrices
    /\ \E new \in Rates \ {rate} :
           Begin(s, [kind |-> "rate", key |-> <<"fuel", 1>>, old |-> rate, new |-> new])
    /\ UNCHANGED pumpVars

\* Bug: the row of the history is a commit of its own, and the one that stores
\* the price fails.
PriceAfterUnstored(s) == rate

\* The history and the price are one unit of work.
PriceAfter(s) == job[s].new

SetRateWrite(s) ==
    /\ Runs(s, "rate")
    /\ Len(prices) < MaxPrices
    /\ prices' = Append(prices, [old |-> job[s].old, new |-> job[s].new])
    /\ rate' = PriceAfter(s)
    /\ End(s)
    /\ UNCHANGED <<nozzleVars, billed>>

\* Bug: a fuel without a price is sold for nothing.
IsPricedAlways == TRUE

\* ensure_fuel_is_priced.
IsPriced == rate > 0

\* The sale keeps the rate it read.
SaleRead(s) ==
    /\ IsPriced
    /\ Begin(s, [kind |-> "bill", key |-> NoRecord, rate |-> rate])
    /\ UNCHANGED pumpVars

SaleWrite(s) ==
    /\ Runs(s, "bill")
    /\ billed' = billed \cup {job[s].rate}
    /\ End(s)
    /\ UNCHANGED <<nozzleVars, rate, prices>>

-----------------------------------------------------------------------------
PumpsInit ==
    /\ inUse = TRUE
    /\ status = [n \in Nozzle |-> "none"] /\ assigned = {}
    /\ allowed \in Limits /\ greatest = allowed
    /\ rate = Unpriced /\ prices = <<>> /\ billed = {}

NozzlesNext ==
    \/ SetDispenserStatus \/ EndAssignment \/ SetLimit
    \/ \E s \in Session :
           \/ CreateNozzleRead(s) \/ CreateNozzleWrite(s)
           \/ SetNozzleRead(s) \/ SetNozzleWrite(s)
           \/ AssignRead(s) \/ AssignWrite(s)
           \/ GiveUp(s) /\ UNCHANGED pumpVars

PricesNext ==
    \E s \in Session :
        \/ SetRateRead(s) \/ SetRateWrite(s)
        \/ SaleRead(s) \/ SaleWrite(s)
        \/ GiveUp(s) /\ UNCHANGED pumpVars

PumpsSpec == DesksInit /\ PumpsInit /\ [][NozzlesNext \/ PricesNext]_<<deskVars, pumpVars>>

-----------------------------------------------------------------------------
(* Properties.                                                             *)

\* The rows have the values their tables allow.
PumpsTypeOK ==
    /\ inUse \in BOOLEAN /\ assigned \subseteq WorkShift \X Nozzle
    /\ status \in [Nozzle -> {"none", "active", "maintenance"}]
    /\ {allowed, greatest} \subseteq Limits
    /\ rate \in Rates \cup {Unpriced} /\ billed \subseteq Rates
    /\ \A i \in DOMAIN prices : prices[i] \in [old : Rates \cup {Unpriced}, new : Rates]

\* In one window nobody works at a nozzle that was taken out of service, so
\* every assignment can be completed: its settlement is a sale, and sales at
\* such a nozzle are refused (set_nozzle_status, assign_nozzle).
OutOfServiceIsIdle == ~mainPC => \A a \in assigned : status[a[2]] = "active"

\* In one window the dispenser never has more nozzles than the owners ever
\* allowed (create_nozzle).
NozzlesWithinLimit == ~mainPC => Cardinality(Fitted) <= greatest

\* The rows of the history follow from one another up to the price of now,
\* also when two PCs change it (set_rate: "a price that changed with no
\* record of the change is exactly the silent rewrite").
PriceIsRecorded ==
    /\ \A i \in DOMAIN prices :
           prices[i].old = IF i = 1 THEN Unpriced ELSE prices[i - 1].new
    /\ rate = IF prices = <<>> THEN Unpriced ELSE prices[Len(prices)].new

\* Every rate that was billed was set by somebody and is in the history.
BilledWasSet == \A r \in billed : \E i \in DOMAIN prices : prices[i].new = r

\* What the pumps are trusted with.
PumpsAreInOrder ==
    /\ OutOfServiceIsIdle /\ NozzlesWithinLimit
    /\ PriceIsRecorded /\ BilledWasSet

\* models/fuel_price_history.py: the sale "snapshots its own rate at the moment
\* of sale".  On the Main PC a price that changes between the reading and the
\* commit of a sale is not the one billed.
BilledAtPrice ==
    [][\A s \in Session : Runs(s, "bill") /\ job'[s] = Idle /\ billed' # billed =>
           job[s].rate = rate]_<<deskVars, pumpVars>>

=============================================================================
