----------------------------- MODULE Procurement -----------------------------
(***************************************************************************)
(* Orders to suppliers, the tankers that deliver them, and the suppliers'  *)
(* invoices (app/services/procurement_service.py).  A delivery arrives, its *)
(* documents and quality are verified, the tank is dipped before and after *)
(* unloading, and the difference is received into the tank's stock.  The   *)
(* paths of the requests name an order, a delivery or an invoice, so on    *)
(* the Main PC requests about one of them wait for each other, while those *)
(* about an order do not wait for those about its deliveries.              *)
(***************************************************************************)
EXTENDS Desks, Integers, FiniteSets, Functions

CONSTANTS Order, Delivery, Invoice,   \* rows that may come to exist
          Fuel,          \* fuels, each ordered and each with its tank
          Ordered,       \* litres ordered of each fuel
          Volume,        \* capacity of each tank
          Owed           \* amount of each invoice

ASSUME ProcurementAssumption ==
    /\ {Ordered, Volume, Owed} \subseteq Nat \ {0}
    /\ NoRecord \notin Order \cup Delivery \cup Invoice
    /\ IsFiniteSet(Delivery)

VARIABLES supplierActive,   \* Supplier.status is active
          orders,           \* PurchaseOrder.status, "none" before it exists
          deliveries,       \* FuelDelivery rows
          level,            \* Tank.current_stock of each fuel's tank
          receipts,         \* TankTransaction rows of type receipt
          invoices          \* SupplierInvoice status and its payments

procurementVars == <<supplierActive, orders, deliveries, level, receipts, invoices>>

Absent == [status |-> "none"]

Open == {"placed", "partially_delivered"}
InProgress == {"arrived", "documents_verified", "quality_verified"}

OfOrder(o) ==
    {d \in Delivery : deliveries[d].status # "none" /\ deliveries[d].order = o}

Unloaded(o) == {d \in OfOrder(o) : deliveries[d].status = "unloaded"}

\* received_by_fuel, from the unloaded deliveries of an order.
ReceivedOf(f, ds) ==
    SumFunction([d \in {d \in ds : deliveries[d].fuel = f} |-> deliveries[d].received])

-----------------------------------------------------------------------------
(* Suppliers and orders.                                                   *)

SetSupplierStatus ==
    /\ AtOnce
    /\ supplierActive' = ~supplierActive
    /\ UNCHANGED <<orders, deliveries, level, receipts, invoices>>

CreateOrderRead(s) ==
    /\ supplierActive
    /\ \E o \in Order :
           /\ orders[o] = "none"
           /\ Begin(s, [kind |-> "create order", key |-> NoRecord, order |-> o])
    /\ UNCHANGED procurementVars

\* po_number is unique: a second order with the number is refused.
CreateOrderWrite(s) ==
    /\ Runs(s, "create order")
    /\ orders[job[s].order] = "none"
    /\ orders' = [orders EXCEPT ![job[s].order] = "placed"]
    /\ End(s)
    /\ UNCHANGED <<supplierActive, deliveries, level, receipts, invoices>>

\* Bug: an order is cancelled whatever has been delivered.
MayCancelOpen(o) == orders[o] \in Open

MayCancel(o) == orders[o] = "placed"

CancelOrderRead(s) ==
    /\ \E o \in Order :
           /\ MayCancel(o)
           /\ Begin(s, [kind |-> "cancel order", key |-> o])
    /\ UNCHANGED procurementVars

CancelOrderWrite(s) ==
    /\ Runs(s, "cancel order")
    /\ orders' = [orders EXCEPT ![job[s].key] = "cancelled"]
    /\ End(s)
    /\ UNCHANGED <<supplierActive, deliveries, level, receipts, invoices>>

-----------------------------------------------------------------------------
(* Deliveries.                                                             *)

ArrivalRead(s) ==
    /\ \E o \in Order, d \in Delivery, f \in Fuel :
           /\ orders[o] \in Open
           /\ deliveries[d] = Absent
           /\ Begin(s, [kind |-> "arrival", key |-> o, delivery |-> d, fuel |-> f])
    /\ UNCHANGED procurementVars

ArrivalWrite(s) ==
    /\ Runs(s, "arrival")
    /\ LET j == job[s] IN
           /\ deliveries[j.delivery] = Absent
           /\ deliveries' = [deliveries EXCEPT ![j.delivery] =
                 [status |-> "arrived", order |-> j.key, fuel |-> j.fuel,
                  preDip |-> -1, received |-> 0]]
    /\ End(s)
    /\ UNCHANGED <<supplierActive, orders, level, receipts, invoices>>

\* verify_documents, verify_quality and reject_delivery: the status asked
\* for and the status written.
Steps == {<<{"arrived"}, "documents_verified">>,
          <<{"documents_verified"}, "quality_verified">>,
          <<InProgress, "rejected">>}

StepRead(s) ==
    /\ \E d \in Delivery, step \in Steps :
           /\ deliveries[d].status \in step[1]
           /\ Begin(s, [kind |-> "step", key |-> d, status |-> step[2]])
    /\ UNCHANGED procurementVars

StepWrite(s) ==
    /\ Runs(s, "step")
    /\ deliveries' = [deliveries EXCEPT ![job[s].key].status = job[s].status]
    /\ End(s)
    /\ UNCHANGED <<supplierActive, orders, level, receipts, invoices>>

\* The reading is stored by a commit of its own before the delivery is; it
\* may be taken again.
PreDipRead(s) ==
    /\ \E d \in Delivery, dip \in 0 .. Volume :
           /\ deliveries[d].status = "quality_verified"
           /\ Begin(s, [kind |-> "pre-dip", key |-> d, dip |-> dip])
    /\ UNCHANGED procurementVars

PreDipWrite(s) ==
    /\ Runs(s, "pre-dip")
    /\ deliveries' = [deliveries EXCEPT ![job[s].key].preDip = job[s].dip]
    /\ End(s)
    /\ UNCHANGED <<supplierActive, orders, level, receipts, invoices>>

UnloadRead(s) ==
    /\ \E d \in Delivery, dip \in 0 .. Volume :
           /\ deliveries[d].status = "quality_verified"
           /\ deliveries[d].preDip # -1
           /\ dip > deliveries[d].preDip
           /\ Begin(s, [kind |-> "unload", key |-> d, order |-> deliveries[d].order,
                        fuel |-> deliveries[d].fuel,
                        received |-> dip - deliveries[d].preDip])
    /\ UNCHANGED procurementVars

FullyDelivered(got) == \A f \in Fuel : got[f] >= Ordered

\* Bug: the status counts this delivery only.
RefreshedByThisAlone(o, ds, f, n) ==
    IF FullyDelivered([g \in Fuel |-> IF g = f THEN n ELSE 0])
    THEN "delivered" ELSE "partially_delivered"

\* _refresh_purchase_order_status, with the deliveries ds unloaded before
\* and n litres of f unloaded now.
Refreshed(o, ds, f, n) ==
    IF FullyDelivered([g \in Fuel |-> ReceivedOf(g, ds) + (IF g = f THEN n ELSE 0)])
    THEN "delivered" ELSE "partially_delivered"

\* The post-dip reading is inserted first.  The tank, the order and its
\* other deliveries are loaded after it, under the write lock.
UnloadWrite(s) ==
    /\ Runs(s, "unload")
    /\ LET j == job[s] IN
           /\ level[j.fuel] + j.received <= Volume
           /\ level' = [level EXCEPT ![j.fuel] = @ + j.received]
           /\ receipts' = receipts + j.received
           /\ deliveries' = [deliveries EXCEPT ![j.key].status = "unloaded",
                                               ![j.key].received = j.received]
           /\ orders' = [orders EXCEPT ![j.order] =
                  Refreshed(j.order, Unloaded(j.order) \ {j.key}, j.fuel, j.received)]
    /\ End(s)
    /\ UNCHANGED <<supplierActive, invoices>>

\* Fuel leaves the tank through a sale (module Forecourt).
Issue ==
    /\ \E f \in Fuel :
           /\ level[f] > 0
           /\ level' = [level EXCEPT ![f] = @ - 1]
    /\ UNCHANGED <<deskVars, supplierActive, orders, deliveries, receipts, invoices>>

-----------------------------------------------------------------------------
(* Invoices.                                                               *)

CreateInvoice ==
    /\ AtOnce
    /\ \E i \in Invoice :
           /\ invoices[i] = Absent
           /\ invoices' = [invoices EXCEPT ![i] = [status |-> "unpaid", paid |-> 0]]
    /\ UNCHANGED <<supplierActive, orders, deliveries, level, receipts>>

PaymentRead(s) ==
    /\ \E i \in Invoice :
           /\ invoices[i].status \in {"unpaid", "partially_paid"}
           /\ \E n \in 1 .. Owed - invoices[i].paid :
                  Begin(s, [kind |-> "supplier payment", key |-> i, amount |-> n,
                            already |-> invoices[i].paid])
    /\ UNCHANGED procurementVars

\* Bug: the status looks at this payment only.
InvoiceStatusOfOne(already, n) == IF n >= Owed THEN "paid" ELSE "partially_paid"

InvoiceStatus(already, n) == IF already + n >= Owed THEN "paid" ELSE "partially_paid"

PaymentWrite(s) ==
    /\ Runs(s, "supplier payment")
    /\ LET j == job[s] IN
           invoices' = [invoices EXCEPT ![j.key] =
               [status |-> InvoiceStatus(j.already, j.amount), paid |-> @.paid + j.amount]]
    /\ End(s)
    /\ UNCHANGED <<supplierActive, orders, deliveries, level, receipts>>

-----------------------------------------------------------------------------
ProcurementInit ==
    /\ supplierActive = TRUE
    /\ orders = [o \in Order |-> "none"]
    /\ deliveries = [d \in Delivery |-> Absent]
    /\ level = [f \in Fuel |-> 0]
    /\ receipts = 0
    /\ invoices = [i \in Invoice |-> Absent]

ProcurementNext ==
    \/ SetSupplierStatus \/ CreateInvoice \/ Issue
    \/ \E s \in Session :
           \/ CreateOrderRead(s) \/ CreateOrderWrite(s)
           \/ CancelOrderRead(s) \/ CancelOrderWrite(s)
           \/ ArrivalRead(s) \/ ArrivalWrite(s)
           \/ StepRead(s) \/ StepWrite(s)
           \/ PreDipRead(s) \/ PreDipWrite(s)
           \/ UnloadRead(s) \/ UnloadWrite(s)
           \/ PaymentRead(s) \/ PaymentWrite(s)
           \/ GiveUp(s) /\ UNCHANGED procurementVars

ProcurementSpec ==
    DesksInit /\ ProcurementInit /\ [][ProcurementNext]_<<deskVars, procurementVars>>

-----------------------------------------------------------------------------
(* Properties.                                                             *)

DeliveryRow == [status : InProgress \cup {"unloaded", "rejected"}, order : Order,
                fuel : Fuel, preDip : -1 .. Volume, received : 0 .. Volume]
InvoiceRow == [status : {"unpaid", "partially_paid", "paid"}, paid : 0 .. Owed]

ProcurementTypeOK ==
    /\ supplierActive \in BOOLEAN
    /\ orders \in [Order -> Open \cup {"none", "delivered", "cancelled"}]
    /\ deliveries \in [Delivery -> DeliveryRow \cup {Absent}]
    /\ level \in [Fuel -> 0 .. Volume]
    /\ receipts \in Nat
    /\ invoices \in [Invoice -> InvoiceRow \cup {Absent}]

\* What the receipts moved into the tanks is what the unloaded deliveries
\* say they brought: no delivery is received twice and none that was
\* rejected is received (record_post_dip_and_unload against itself and
\* against reject_delivery, held apart by the record lock).
FuelReceivedOnce ==
    receipts = SumFunction([d \in {d \in Delivery : deliveries[d].status = "unloaded"}
                                |-> deliveries[d].received])

\* An order is "delivered" exactly when its unloaded deliveries cover every
\* fuel and "partially_delivered" when some fuel came and more is due,
\* whichever of its deliveries unloaded beside each other.
StatusFollowsDeliveries ==
    \A o \in Order :
        LET full == \A f \in Fuel : ReceivedOf(f, Unloaded(o)) >= Ordered
        IN  /\ orders[o] = "delivered" => full
            /\ orders[o] = "partially_delivered" => Unloaded(o) # {} /\ ~full

\* In the Qt window the two agree the other way round as well: an order
\* with an unloaded delivery is never left placed or cancelled.
NeverDriftsInOneWindow ==
    ~mainPC => \A o \in Order : Unloaded(o) # {} =>
        orders[o] \in {"partially_delivered", "delivered"}

\* The payments of an invoice never exceed its amount, and its status tells
\* how much of it is paid (record_payment, held apart by the record lock).
InvoicePaidOnce ==
    \A i \in Invoice : invoices[i] # Absent =>
        /\ invoices[i].paid <= Owed
        /\ invoices[i].status = CASE invoices[i].paid = 0    -> "unpaid"
                                  [] invoices[i].paid = Owed -> "paid"
                                  [] OTHER                   -> "partially_paid"

\* What procurement is trusted with: fuel is received once and its order says
\* so, and an invoice is paid once.
OrderedFuelIsAccountedFor ==
    /\ FuelReceivedOnce
    /\ StatusFollowsDeliveries
    /\ NeverDriftsInOneWindow
    /\ InvoicePaidOnce

\* procurement_service.py:428: the status is "recomputed from scratch each
\* time rather than incremented, so it can never drift out of sync".  On the
\* Main PC a cancellation that saw the order placed lands after an unload.
NeverDrifts ==
    \A o \in Order : Unloaded(o) # {} => orders[o] \in {"partially_delivered", "delivered"}

=============================================================================
