----------------------------- MODULE OfficeProofs -----------------------------
(***************************************************************************)
(* Proofs about the desks of the back office that share its sessions and   *)
(* locks: procurement, payroll, bank reconciliation, and the books of the  *)
(* fuel (pumps and prices, the tank's book, the bowser's stock), for any   *)
(* number of sessions, rows and amounts.                                   *)
(***************************************************************************)
EXTENDS MCBackOffice, SumLemmas, TLAPS

(***************************************************************************)
(* Sessions and record locks (module Desks).                               *)
(***************************************************************************)

\* In one window a single request runs, and nowhere do two requests name the
\* same record in their paths.
DesksInv ==
    /\ mainPC \in BOOLEAN
    /\ DOMAIN job = Session
    /\ \A s, t \in Session :
          job[s] # Idle /\ job[t] # Idle /\ s # t =>
             mainPC /\ (job[s].key = job[t].key => job[s].key = NoRecord)

\* What a session's request becomes, and that the others' stay, when it starts.
LEMMA BeginJob ==
    ASSUME DesksInv, NEW s \in Session, NEW j, Begin(s, j)
    PROVE  /\ DesksInv' /\ mainPC' = mainPC
           /\ job[s] = Idle /\ job'[s] = j
           /\ \A t \in Session : t # s => job'[t] = job[t]
           /\ ~ mainPC => \A t \in Session : job[t] = Idle
           /\ \A t \in Session : job[t] # Idle /\ j.key # NoRecord => job[t].key # j.key
<1>1. /\ job[s] = Idle /\ mainPC' = mainPC /\ job' = [job EXCEPT ![s] = j]
      /\ mainPC \/ \A t \in Session \ {s} : job[t] = Idle
      /\ \A t \in Session \ {s} : job[t] # Idle /\ j.key # NoRecord => job[t].key # j.key
  BY DEF Begin, RecordFree, Others
<1>2. job'[s] = j /\ \A t \in Session : t # s => job'[t] = job[t]
  BY <1>1 DEF DesksInv
<1>3. DOMAIN job' = Session
  BY <1>1 DEF DesksInv
<1>4. \A t \in Session : t # s /\ job'[t] # Idle =>
         mainPC /\ (j.key = job[t].key => j.key = NoRecord)
  BY <1>1, <1>2
<1>5. DesksInv'
  BY <1>1, <1>2, <1>3, <1>4 DEF DesksInv
<1>. QED BY <1>1, <1>2, <1>5

\* ... and when it ends.
LEMMA EndJob ==
    ASSUME DesksInv, NEW s \in Session, End(s)
    PROVE  /\ DesksInv' /\ mainPC' = mainPC /\ job'[s] = Idle
           /\ \A t \in Session : t # s => job'[t] = job[t]
<1>1. mainPC' = mainPC /\ job' = [job EXCEPT ![s] = Idle]
  BY DEF End
<1>2. job'[s] = Idle /\ \A t \in Session : t # s => job'[t] = job[t]
  BY <1>1 DEF DesksInv
<1>. QED BY <1>1, <1>2 DEF DesksInv

\* A step that starts or ends no request, of this desk or another.
LEMMA DesksStay == ASSUME DesksInv, UNCHANGED deskVars PROVE DesksInv'
BY DEF DesksInv, deskVars

\* The record locks start in order.
LEMMA DesksStart == ASSUME DesksInit PROVE DesksInv
BY DEF DesksInit, DesksInv

-----------------------------------------------------------------------------
(***************************************************************************)
(* Procurement: fuel is received once, orders and invoices follow.         *)
(***************************************************************************)

\* What a request that has read and not yet written can rely on, as long as
\* it keeps its record (procurement_service.py reads before it writes).
ProcurementJob(j) ==
    /\ j.kind = "create order" => j.order \in Order
    /\ j.kind = "cancel order" =>
         j.key \in Order /\ (~ mainPC => orders[j.key] = "placed")
    /\ j.kind = "arrival" =>
         /\ j.key \in Order /\ orders[j.key] # "none"
         /\ j.delivery \in Delivery /\ j.fuel \in Fuel
    /\ j.kind = "step" =>
         /\ j.key \in Delivery /\ deliveries[j.key].status \in InProgress
         /\ j.status \in InProgress \cup {"rejected"}
    /\ j.kind = "pre-dip" =>
         /\ j.key \in Delivery /\ deliveries[j.key].status = "quality_verified"
         /\ j.dip \in 0 .. Volume
    /\ j.kind = "unload" =>
         /\ j.key \in Delivery /\ deliveries[j.key].status = "quality_verified"
         /\ j.order = deliveries[j.key].order /\ j.fuel = deliveries[j.key].fuel
         /\ j.received \in 1 .. Volume
    /\ j.kind = "supplier payment" =>
         /\ j.key \in Invoice /\ invoices[j.key].status \in {"unpaid", "partially_paid"}
         /\ j.already = invoices[j.key].paid /\ j.amount \in 1 .. Owed - j.already

\* Only an order that exists has deliveries, and one that nothing was
\* unloaded for has never left "placed".
OrdersInv ==
    /\ \A d \in Delivery :
          deliveries[d].status # "none" => orders[deliveries[d].order] # "none"
    /\ \A o \in Order : orders[o] \in {"none", "placed"} => Unloaded(o) = {}

ProcurementInv ==
    /\ DesksInv /\ ProcurementTypeOK /\ OrdersInv
    /\ FuelReceivedOnce /\ StatusFollowsDeliveries /\ NeverDriftsInOneWindow
    /\ InvoicePaidOnce
    /\ \A s \in Session : job[s] # Idle => ProcurementJob(job[s])

\* The litres that the deliveries ds brought.
Brought(ds) == SumFunction([d \in ds |-> deliveries[d].received])

\* Deliveries whose litres stay bring as much as they did.
LEMMA LitresSame ==
    ASSUME NEW T, IsFiniteSet(T),
           \A d \in T : deliveries'[d].received = deliveries[d].received
    PROVE  Brought(T)' = Brought(T)
<1>. DEFINE f == [d \in T |-> deliveries[d].received]
           h == [d \in T |-> deliveries'[d].received]
<1>1. SumFunctionOnSet(f, T) = SumFunctionOnSet(h, T)
  BY SumAgrees
<1>. QED BY <1>1 DEF Brought, SumFunction

\* One more delivery brings its litres, and only its own.
LEMMA LitresMore ==
    ASSUME NEW T, IsFiniteSet(T), NEW e, e \notin T, deliveries'[e].received \in Int,
           \A d \in T : deliveries'[d].received = deliveries[d].received
                        /\ deliveries[d].received \in Int
    PROVE  Brought(T \cup {e})' = Brought(T) + deliveries'[e].received
<1>. DEFINE f == [d \in T |-> deliveries[d].received]
           h == [d \in T \cup {e} |-> deliveries'[d].received]
<1>1. SumFunctionOnSet(h, T \cup {e}) = SumFunctionOnSet(h, T) + h[e]
  BY SumGrows
<1>2. SumFunctionOnSet(h, T) = SumFunctionOnSet(f, T)
  BY SumAgrees
<1>. QED BY <1>1, <1>2 DEF Brought, SumFunction

\* No delivery brings no fuel.
LEMMA LitresOfNothing == Brought({}) = 0
<1>1. SumFunctionOnSet([d \in {} |-> deliveries[d].received], {}) = 0
  BY SumOfNothing
<1>. QED BY <1>1 DEF Brought, SumFunction

\* The deliveries of an order, and all of them, are finitely many.
LEMMA FewDeliveries ==
    /\ \A ds \in SUBSET Delivery : IsFiniteSet(ds)
    /\ \A o : Unloaded(o) \subseteq Delivery
BY ProcurementAssumption, FS_Subset DEF Unloaded, OfOrder

\* A step that unloads nothing, and touches nothing that was unloaded,
\* leaves what every order received as it is.
LEMMA NothingUnloaded ==
    ASSUME ProcurementTypeOK, FuelReceivedOnce, receipts' = receipts,
           \A d \in Delivery :
              /\ deliveries'[d].status = "unloaded" <=> deliveries[d].status = "unloaded"
              /\ deliveries[d].status = "unloaded" => deliveries'[d] = deliveries[d]
    PROVE  /\ FuelReceivedOnce'
           /\ \A o : Unloaded(o)' = Unloaded(o)
           /\ \A o, f : ReceivedOf(f, Unloaded(o))' = ReceivedOf(f, Unloaded(o))
<1>1. \A o : Unloaded(o) = {d \in Delivery : deliveries[d].status = "unloaded"
                                             /\ deliveries[d].order = o}
  BY DEF Unloaded, OfOrder
<1>2. \A o : Unloaded(o)' = {d \in Delivery : deliveries'[d].status = "unloaded"
                                              /\ deliveries'[d].order = o}
  BY DEF Unloaded, OfOrder
<1>3. ASSUME NEW o PROVE Unloaded(o)' = Unloaded(o)
  BY <1>1, <1>2
<1>4. ASSUME NEW o, NEW f
      PROVE  ReceivedOf(f, Unloaded(o))' = ReceivedOf(f, Unloaded(o))
  <2>. DEFINE T == {d \in Unloaded(o) : deliveries[d].fuel = f}
  <2>1. {d \in Unloaded(o) : deliveries[d].fuel = f}'
          = {d \in Unloaded(o) : deliveries[d].fuel = f}
    BY <1>1, <1>3
  <2>2. ReceivedOf(f, Unloaded(o)) = Brought(T)
    BY DEF ReceivedOf, Brought
  <2>3. PICK U : U = T
    OBVIOUS
  <2>4. ReceivedOf(f, Unloaded(o))' = Brought(U)'
    BY <2>1, <2>3 DEF ReceivedOf, Brought
  <2>5. IsFiniteSet(U) /\ \A d \in U : deliveries'[d].received = deliveries[d].received
    BY <1>1, <2>3, FewDeliveries
  <2>6. Brought(U)' = Brought(U)
    BY <2>5, LitresSame
  <2>. QED BY <2>2, <2>3, <2>4, <2>6
<1>5. FuelReceivedOnce'
  <2>1. PICK U : U = {d \in Delivery : deliveries[d].status = "unloaded"}
    OBVIOUS
  <2>2. U = {d \in Delivery : deliveries'[d].status = "unloaded"}
    BY <2>1
  <2>3. receipts = Brought(U)
    BY <2>1 DEF FuelReceivedOnce, Brought
  <2>4. IsFiniteSet(U) /\ \A d \in U : deliveries'[d].received = deliveries[d].received
    BY <2>1, FewDeliveries
  <2>5. Brought(U)' = Brought(U)
    BY <2>4, LitresSame
  <2>. QED BY <2>2, <2>3, <2>5 DEF FuelReceivedOnce, Brought
<1>. QED BY <1>3, <1>4, <1>5

\* ... so an order keeps its agreement with them while it keeps its status.
LEMMA OrdersKept ==
    ASSUME ProcurementInv, mainPC' = mainPC, receipts' = receipts,
           \A d \in Delivery :
              /\ deliveries'[d].status = "unloaded" <=> deliveries[d].status = "unloaded"
              /\ deliveries[d].status = "unloaded" => deliveries'[d] = deliveries[d]
              /\ deliveries'[d].status # "none" => orders'[deliveries'[d].order] # "none",
           \A o \in Order :
              \/ orders'[o] = orders[o]
              \/ orders[o] = "none" /\ orders'[o] = "placed"
              \/ orders'[o] = "cancelled" /\ (~ mainPC => orders[o] = "placed")
    PROVE  OrdersInv' /\ FuelReceivedOnce' /\ StatusFollowsDeliveries'
           /\ NeverDriftsInOneWindow'
<1>1. /\ FuelReceivedOnce'
      /\ \A o : Unloaded(o)' = Unloaded(o)
      /\ \A o, f : ReceivedOf(f, Unloaded(o))' = ReceivedOf(f, Unloaded(o))
  BY NothingUnloaded DEF ProcurementInv
<1>2. OrdersInv'
  BY <1>1 DEF ProcurementInv, OrdersInv
<1>3. StatusFollowsDeliveries'
  <2> SUFFICES ASSUME NEW o \in Order
               PROVE  LET full == \A f \in Fuel : ReceivedOf(f, Unloaded(o))' >= Ordered
                      IN  /\ orders'[o] = "delivered" => full
                          /\ orders'[o] = "partially_delivered"
                                => Unloaded(o)' # {} /\ ~ full
    BY DEF StatusFollowsDeliveries
  <2>1. orders'[o] \in {"delivered", "partially_delivered"} => orders'[o] = orders[o]
    OBVIOUS
  <2>. QED BY <1>1, <2>1 DEF ProcurementInv, StatusFollowsDeliveries
<1>4. NeverDriftsInOneWindow'
  BY <1>1 DEF ProcurementInv, OrdersInv, NeverDriftsInOneWindow
<1>. QED BY <1>1, <1>2, <1>3, <1>4

\* The tables a read leaves alone keep all that is said of them.
LEMMA ProcurementTablesStay ==
    ASSUME ProcurementInv, UNCHANGED procurementVars, mainPC' = mainPC
    PROVE  /\ ProcurementTypeOK' /\ OrdersInv' /\ FuelReceivedOnce'
           /\ StatusFollowsDeliveries' /\ NeverDriftsInOneWindow' /\ InvoicePaidOnce'
           /\ \A j : ProcurementJob(j) => ProcurementJob(j)'
<1>1. UNCHANGED <<supplierActive, orders, deliveries, level, receipts, invoices>>
  BY DEF procurementVars
<1>2. \A d \in Delivery :
         deliveries'[d].status # "none" => orders'[deliveries'[d].order] # "none"
  BY <1>1 DEF ProcurementInv, OrdersInv
<1>3. \A d \in Delivery :
         /\ deliveries'[d].status = "unloaded" <=> deliveries[d].status = "unloaded"
         /\ deliveries[d].status = "unloaded" => deliveries'[d] = deliveries[d]
         /\ deliveries'[d].status # "none" => orders'[deliveries'[d].order] # "none"
  BY <1>1, <1>2
<1>4. \A o \in Order :
         \/ orders'[o] = orders[o]
         \/ orders[o] = "none" /\ orders'[o] = "placed"
         \/ orders'[o] = "cancelled" /\ (~ mainPC => orders[o] = "placed")
  BY <1>1
<1>5. OrdersInv' /\ FuelReceivedOnce' /\ StatusFollowsDeliveries' /\ NeverDriftsInOneWindow'
  BY <1>1, <1>3, <1>4, OrdersKept
<1>6. ProcurementTypeOK' /\ InvoicePaidOnce'
  BY <1>1 DEF ProcurementInv, ProcurementTypeOK, InvoicePaidOnce
<1>7. ASSUME NEW j, ProcurementJob(j) PROVE ProcurementJob(j)'
  <2>1. /\ orders' = orders /\ deliveries' = deliveries /\ invoices' = invoices
        /\ mainPC' = mainPC /\ mainPC \in BOOLEAN
    BY <1>1 DEF ProcurementInv, DesksInv
  <2>2. (~ mainPC)' = (~ mainPC)
    BY <2>1
  <2>. QED BY <1>7, <2>1, <2>2 DEF ProcurementJob
<1>. QED BY <1>5, <1>6, <1>7

\* A request that reads relies on what it has just read.
LEMMA ProcurementRead ==
    ASSUME ProcurementInv, NEW s \in Session, NEW j, Begin(s, j), ProcurementJob(j),
           UNCHANGED procurementVars
    PROVE  ProcurementInv'
<1>1. /\ DesksInv' /\ mainPC' = mainPC /\ job'[s] = j
      /\ \A t \in Session : t # s => job'[t] = job[t]
  BY BeginJob DEF ProcurementInv
<1>2. \A t \in Session : job'[t] # Idle => ProcurementJob(job[t])'
  <2>1. \A t \in Session : job'[t] # Idle => ProcurementJob(job'[t])
    BY <1>1 DEF ProcurementInv
  <2>2. \A i : ProcurementJob(i) => ProcurementJob(i)'
    BY <1>1, ProcurementTablesStay
  <2> SUFFICES ASSUME NEW t \in Session, job'[t] # Idle PROVE ProcurementJob(job[t])'
    OBVIOUS
  <2>3. PICK i : i = job'[t]
    OBVIOUS
  <2>4. ProcurementJob(i)'
    BY <2>1, <2>2, <2>3
  <2>. QED BY <2>3, <2>4 DEF ProcurementJob
<1>. QED BY <1>1, <1>2, ProcurementTablesStay DEF ProcurementInv

\* A request that ends leaves the others with what they rely on, if its
\* writes are about a record that none of theirs is.
LEMMA ProcurementEnd ==
    ASSUME ProcurementInv, NEW s \in Session, job[s] # Idle, End(s),
           ProcurementTypeOK', OrdersInv', FuelReceivedOnce', StatusFollowsDeliveries',
           NeverDriftsInOneWindow', InvoicePaidOnce',
           \A t \in Session : t # s /\ job[t] # Idle /\ mainPC =>
              \A j : j = job[t] => ProcurementJob(j)'
    PROVE  ProcurementInv'
<1>1. /\ DesksInv' /\ job'[s] = Idle /\ mainPC' = mainPC
      /\ \A t \in Session : t # s => job'[t] = job[t]
  BY EndJob DEF ProcurementInv
<1>2. ASSUME NEW t \in Session, job'[t] # Idle PROVE ProcurementJob(job[t])'
  <2>1. PICK j : j = job'[t]
    OBVIOUS
  <2>2. t # s /\ j = job[t] /\ mainPC
    BY <1>1, <1>2, <2>1 DEF ProcurementInv, DesksInv
  <2>3. ProcurementJob(j)'
    BY <1>1, <1>2, <2>2
  <2>. QED BY <2>1, <2>3 DEF ProcurementJob
<1>. QED BY <1>1, <1>2 DEF ProcurementInv

\* The other requests, when one about the record key writes that alone.
LEMMA ProcurementOthers ==
    ASSUME ProcurementInv, NEW s \in Session, NEW t \in Session, t # s,
           job[s] # Idle, job[t] # Idle
    PROVE  /\ mainPC /\ ProcurementJob(job[t])
           /\ job[s].key # NoRecord => job[t].key # job[s].key
BY DEF ProcurementInv, DesksInv

\* Orders are created and cancelled (create_purchase_order, cancel_purchase_order).
LEMMA OrderWritten ==
    ASSUME ProcurementInv, NEW s \in Session, CreateOrderWrite(s) \/ CancelOrderWrite(s)
    PROVE  ProcurementInv'
<1>. USE DEF Runs
<1>1. PICK o \in Order, st \in {"placed", "cancelled"} :
        /\ orders' = [orders EXCEPT ![o] = st]
        /\ st = "placed" => orders[o] = "none"
        /\ st = "cancelled" => (~ mainPC => orders[o] = "placed")
  <2>1. CASE CreateOrderWrite(s)
    <3>1. ProcurementJob(job[s]) /\ job[s].kind = "create order"
      BY <2>1 DEF CreateOrderWrite, ProcurementInv
    <3>. QED BY <2>1, <3>1 DEF CreateOrderWrite, ProcurementJob
  <2>2. CASE CancelOrderWrite(s)
    <3>1. ProcurementJob(job[s]) /\ job[s].kind = "cancel order"
      BY <2>2 DEF CancelOrderWrite, ProcurementInv
    <3>. QED BY <2>2, <3>1 DEF CancelOrderWrite, ProcurementJob
  <2>. QED BY <2>1, <2>2
<1>2. /\ job[s] # Idle /\ End(s)
      /\ UNCHANGED <<supplierActive, deliveries, level, receipts, invoices>>
  BY DEF CreateOrderWrite, CancelOrderWrite
<1>3. mainPC' = mainPC
  BY <1>2, EndJob DEF ProcurementInv
<1>4. ProcurementTypeOK
  BY DEF ProcurementInv
<1>5. orders'[o] = st /\ \A p \in Order : p # o => orders'[p] = orders[p]
  BY <1>1, <1>4 DEF ProcurementTypeOK
<1>6. ProcurementTypeOK'
  BY <1>1, <1>2, <1>4 DEF ProcurementTypeOK, Open
<1>7. \A d \in Delivery :
         deliveries[d].status # "none" => orders'[deliveries[d].order] # "none"
  <2> SUFFICES ASSUME NEW d \in Delivery, deliveries[d].status # "none"
               PROVE  orders'[deliveries[d].order] # "none"
    OBVIOUS
  <2>1. deliveries[d].order \in Order /\ orders[deliveries[d].order] # "none"
    BY <1>4 DEF ProcurementInv, OrdersInv, ProcurementTypeOK, DeliveryRow, Absent
  <2>. QED BY <1>5, <2>1
<1>8. OrdersInv' /\ FuelReceivedOnce' /\ StatusFollowsDeliveries' /\ NeverDriftsInOneWindow'
  <2>1. \A d \in Delivery :
         /\ deliveries'[d].status = "unloaded" <=> deliveries[d].status = "unloaded"
         /\ deliveries[d].status = "unloaded" => deliveries'[d] = deliveries[d]
         /\ deliveries'[d].status # "none" => orders'[deliveries'[d].order] # "none"
    BY <1>2, <1>7
  <2>2. \A p \in Order :
         \/ orders'[p] = orders[p]
         \/ orders[p] = "none" /\ orders'[p] = "placed"
         \/ orders'[p] = "cancelled" /\ (~ mainPC => orders[p] = "placed")
    BY <1>1, <1>5
  <2>. QED BY <1>2, <1>3, <2>1, <2>2, OrdersKept
<1>9. InvoicePaidOnce'
  BY <1>2 DEF ProcurementInv, InvoicePaidOnce
<1>10. ASSUME NEW t \in Session, t # s, job[t] # Idle, mainPC, NEW j, j = job[t]
       PROVE  ProcurementJob(j)'
  <2>1. ProcurementJob(j)
    BY <1>2, <1>10, ProcurementOthers
  <2>2. mainPC'
    BY <1>3, <1>10
  <2>3. \A p \in Order : orders[p] # "none" => orders'[p] # "none"
    BY <1>1, <1>5
  <2>. QED BY <1>2, <2>1, <2>2, <2>3 DEF ProcurementJob
<1>. QED BY <1>2, <1>6, <1>8, <1>9, <1>10, ProcurementEnd

\* A delivery changes without being unloaded: it arrives, moves a step on,
\* is rejected, or its tank is dipped (record_arrival ... record_pre_dip).
LEMMA DeliveryWritten ==
    ASSUME ProcurementInv, NEW s \in Session,
           ArrivalWrite(s) \/ StepWrite(s) \/ PreDipWrite(s)
    PROVE  ProcurementInv'
<1>. USE DEF Runs
<1>1. ProcurementTypeOK /\ OrdersInv /\ job[s] # Idle /\ End(s) /\ ProcurementJob(job[s])
  BY DEF ProcurementInv, ArrivalWrite, StepWrite, PreDipWrite
<1>2. mainPC' = mainPC
  BY <1>1, EndJob DEF ProcurementInv
<1>3. UNCHANGED <<supplierActive, orders, level, receipts, invoices>>
  BY DEF ArrivalWrite, StepWrite, PreDipWrite
<1>4. PICK e \in Delivery, r \in DeliveryRow :
        /\ deliveries' = [deliveries EXCEPT ![e] = r]
        /\ r.status # "unloaded" /\ deliveries[e].status # "unloaded"
        /\ orders[r.order] # "none"
        /\ deliveries[e] = Absent \/ job[s].key = e
  <2>1. CASE ArrivalWrite(s)
    <3>. DEFINE j == job[s]
           r == [status |-> "arrived", order |-> j.key, fuel |-> j.fuel,
                 preDip |-> -1, received |-> 0]
    <3>1. j.kind = "arrival" /\ deliveries[j.delivery] = Absent
          /\ deliveries' = [deliveries EXCEPT ![j.delivery] = r]
      BY <2>1 DEF ArrivalWrite
    <3>2. j.key \in Order /\ orders[j.key] # "none" /\ j.delivery \in Delivery /\ j.fuel \in Fuel
      BY <1>1, <3>1 DEF ProcurementJob
    <3>3. -1 \in -1 .. Volume /\ 0 \in 0 .. Volume
      BY ProcurementAssumption
    <3>4. r \in DeliveryRow /\ r.status = "arrived" /\ r.order = j.key
      <4>. HIDE DEF j
      <4>. QED BY <3>2, <3>3 DEF DeliveryRow, InProgress
    <3>5. deliveries[j.delivery].status # "unloaded" /\ orders[r.order] # "none"
      BY <3>1, <3>2 DEF Absent
    <3>. HIDE DEF r
    <3>. QED BY <3>1, <3>2, <3>4, <3>5
  <2>2. CASE StepWrite(s)
    <3>. DEFINE j == job[s]
           r == [deliveries[j.key] EXCEPT !.status = j.status]
    <3>1. j.kind = "step" /\ deliveries' = [deliveries EXCEPT ![j.key] = r]
      BY <2>2 DEF StepWrite
    <3>2. j.key \in Delivery /\ deliveries[j.key].status \in InProgress
          /\ j.status \in InProgress \cup {"rejected"}
      BY <1>1, <3>1 DEF ProcurementJob
    <3>3. deliveries[j.key] \in DeliveryRow
      BY <1>1, <3>2 DEF ProcurementTypeOK, Absent, InProgress
    <3>4. r \in DeliveryRow /\ r.status = j.status /\ r.order = deliveries[j.key].order
      BY <3>2, <3>3 DEF DeliveryRow
    <3>. QED BY <1>1, <3>1, <3>2, <3>4 DEF InProgress, OrdersInv
  <2>3. CASE PreDipWrite(s)
    <3>. DEFINE j == job[s]
           r == [deliveries[j.key] EXCEPT !.preDip = j.dip]
    <3>1. j.kind = "pre-dip" /\ deliveries' = [deliveries EXCEPT ![j.key] = r]
      BY <2>3 DEF PreDipWrite
    <3>2. j.key \in Delivery /\ deliveries[j.key].status = "quality_verified"
          /\ j.dip \in 0 .. Volume
      BY <1>1, <3>1 DEF ProcurementJob
    <3>3. deliveries[j.key] \in DeliveryRow /\ Volume \in Nat \ {0}
      BY <1>1, <3>2, ProcurementAssumption DEF ProcurementTypeOK, Absent
    <3>4. r \in DeliveryRow /\ r.status = "quality_verified"
          /\ r.order = deliveries[j.key].order
      BY <3>2, <3>3 DEF DeliveryRow
    <3>. QED BY <1>1, <3>1, <3>2, <3>4 DEF OrdersInv
  <2>. QED BY <2>1, <2>2, <2>3
<1>5. deliveries'[e] = r /\ \A d \in Delivery : d # e => deliveries'[d] = deliveries[d]
  BY <1>1, <1>4 DEF ProcurementTypeOK
<1>6. ProcurementTypeOK' /\ InvoicePaidOnce'
  BY <1>1, <1>3, <1>4 DEF ProcurementInv, ProcurementTypeOK, InvoicePaidOnce
<1>7. OrdersInv' /\ FuelReceivedOnce' /\ StatusFollowsDeliveries' /\ NeverDriftsInOneWindow'
  <2>1. \A d \in Delivery :
         /\ deliveries'[d].status = "unloaded" <=> deliveries[d].status = "unloaded"
         /\ deliveries[d].status = "unloaded" => deliveries'[d] = deliveries[d]
         /\ deliveries'[d].status # "none" => orders'[deliveries'[d].order] # "none"
    BY <1>1, <1>3, <1>4, <1>5 DEF OrdersInv
  <2>2. \A p \in Order :
         \/ orders'[p] = orders[p]
         \/ orders[p] = "none" /\ orders'[p] = "placed"
         \/ orders'[p] = "cancelled" /\ (~ mainPC => orders[p] = "placed")
    BY <1>3
  <2>. QED BY <1>2, <1>3, <2>1, <2>2, OrdersKept
<1>8. ASSUME NEW t \in Session, t # s, job[t] # Idle, mainPC, NEW j, j = job[t]
      PROVE  ProcurementJob(j)'
  <2>1. ProcurementJob(j) /\ (job[s].key # NoRecord => j.key # job[s].key)
    BY <1>1, <1>8, ProcurementOthers
  <2>2. mainPC' /\ e # NoRecord
    BY <1>2, <1>8, ProcurementAssumption
  <2>3. j.kind \in {"step", "pre-dip", "unload"} => j.key \in Delivery /\ j.key # e
    <3>1. CASE deliveries[e] = Absent
      <4>1. deliveries[e].status = "none"
        BY <3>1 DEF Absent
      <4>2. j.kind \in {"step", "pre-dip", "unload"}
              => j.key \in Delivery /\ deliveries[j.key].status # "none"
        BY <2>1 DEF ProcurementJob, InProgress
      <4>. QED BY <4>1, <4>2
    <3>2. CASE job[s].key = e
      BY <2>1, <2>2, <3>2 DEF ProcurementJob
    <3>. QED BY <1>4, <3>1, <3>2
  <2>4. j.kind \in {"step", "pre-dip", "unload"}
          => j.key \in Delivery /\ deliveries'[j.key] = deliveries[j.key]
    BY <1>5, <2>3
  <2>5. orders' = orders /\ invoices' = invoices /\ (~ mainPC)' = (~ mainPC)
    BY <1>3, <1>8, <2>2
  <2>. QED BY <2>1, <2>4, <2>5 DEF ProcurementJob
<1>. QED BY <1>1, <1>6, <1>7, <1>8, ProcurementEnd

\* An unloading: the tank, the receipts, the delivery and the order's status
\* move together (record_post_dip_and_unload, _refresh_purchase_order_status).
LEMMA DeliveryUnloaded ==
    ASSUME ProcurementInv, NEW s \in Session, UnloadWrite(s)
    PROVE  ProcurementInv'
<1>1. PICK j : j = job[s]
  OBVIOUS
<1>. DEFINE e == j.key
       n == j.received
       o == j.order
<1>2. /\ ProcurementTypeOK /\ OrdersInv /\ FuelReceivedOnce
      /\ job[s] # Idle /\ End(s) /\ ProcurementJob(j) /\ j.kind = "unload"
  BY <1>1 DEF ProcurementInv, UnloadWrite, Runs
<1>3. /\ level[j.fuel] + n <= Volume
      /\ level' = [level EXCEPT ![j.fuel] = @ + n]
      /\ receipts' = receipts + n
      /\ deliveries' = [deliveries EXCEPT ![e].status = "unloaded", ![e].received = n]
      /\ orders' = [orders EXCEPT ![o] = Refreshed(o, Unloaded(o) \ {e}, j.fuel, n)]
      /\ UNCHANGED <<supplierActive, invoices>>
  BY <1>1 DEF UnloadWrite
<1>4. mainPC' = mainPC
  BY <1>2, EndJob DEF ProcurementInv
<1>5. /\ e \in Delivery /\ deliveries[e].status = "quality_verified"
      /\ o = deliveries[e].order /\ j.fuel = deliveries[e].fuel /\ n \in 1 .. Volume
      /\ Volume \in Nat \ {0}
  BY <1>2, ProcurementAssumption DEF ProcurementJob
<1>6. deliveries[e] \in DeliveryRow /\ o \in Order /\ j.fuel \in Fuel
  BY <1>2, <1>5 DEF ProcurementTypeOK, Absent, DeliveryRow
<1>7. PICK r \in DeliveryRow :
        /\ deliveries' = [deliveries EXCEPT ![e] = r]
        /\ r.status = "unloaded" /\ r.received = n
        /\ r.order = o /\ r.fuel = j.fuel
  <2>. DEFINE q == [deliveries[e] EXCEPT !.status = "unloaded", !.received = n]
  <2>1. deliveries' = [deliveries EXCEPT ![e] = q]
    BY <1>2, <1>3, <1>5 DEF ProcurementTypeOK
  <2>2. q \in DeliveryRow /\ q.status = "unloaded" /\ q.received = n
        /\ q.order = o /\ q.fuel = j.fuel
    <3>1. n \in 0 .. Volume
      BY <1>5
    <3>. HIDE DEF n, e, o
    <3>. QED BY <1>5, <1>6, <3>1 DEF DeliveryRow
  <2>. QED BY <2>1, <2>2
<1>8. PICK st \in {"delivered", "partially_delivered"} :
        /\ st = Refreshed(o, Unloaded(o) \ {e}, j.fuel, n)
        /\ orders' = [orders EXCEPT ![o] = st]
  BY <1>3 DEF Refreshed
<1>. HIDE DEF e, n, o
<1>9. /\ deliveries'[e] = r /\ \A d \in Delivery : d # e => deliveries'[d] = deliveries[d]
      /\ orders'[o] = st /\ \A p \in Order : p # o => orders'[p] = orders[p]
  BY <1>2, <1>5, <1>6, <1>7, <1>8 DEF ProcurementTypeOK
<1>10. ProcurementTypeOK'
  <2>1. level' \in [Fuel -> 0 .. Volume] /\ receipts' \in Nat
    BY <1>2, <1>3, <1>5, <1>6 DEF ProcurementTypeOK
  <2>2. orders' \in [Order -> Open \cup {"none", "delivered", "cancelled"}]
    BY <1>2, <1>8 DEF ProcurementTypeOK, Open
  <2>3. /\ deliveries' \in [Delivery -> DeliveryRow \cup {Absent}]
        /\ supplierActive' \in BOOLEAN
        /\ invoices' \in [Invoice -> InvoiceRow \cup {Absent}]
    BY <1>2, <1>3, <1>7 DEF ProcurementTypeOK
  <2>. QED BY <2>1, <2>2, <2>3 DEF ProcurementTypeOK
<1>11. /\ Unloaded(o)' = Unloaded(o) \cup {e} /\ e \notin Unloaded(o)
       /\ \A p : p # o => Unloaded(p)' = Unloaded(p)
  <2>1. \A p : Unloaded(p) = {d \in Delivery : deliveries[d].status = "unloaded"
                                             /\ deliveries[d].order = p}
    BY DEF Unloaded, OfOrder
  <2>2. \A p : Unloaded(p)' = {d \in Delivery : deliveries'[d].status = "unloaded"
                                              /\ deliveries'[d].order = p}
    BY DEF Unloaded, OfOrder
  <2>3. ASSUME NEW p, NEW d
        PROVE  d \in Unloaded(p)' <=> (d \in Unloaded(p) \/ (d = e /\ p = o))
    BY <1>5, <1>7, <1>9, <2>1, <2>2
  <2>4. e \notin Unloaded(o)
    BY <1>5, <2>1
  <2>5. Unloaded(o)' = Unloaded(o) \cup {e}
    BY <2>3, Zenon
  <2>6. ASSUME NEW p, p # o PROVE Unloaded(p)' = Unloaded(p)
    <3>1. \A d : d \in Unloaded(p)' <=> d \in Unloaded(p)
      BY <2>3, <2>6
    <3>. QED BY <3>1, Zenon
  <2>. QED BY <2>4, <2>5, <2>6, Zenon
<1>12. \A d \in Delivery : deliveries[d].status = "unloaded" =>
          /\ deliveries'[d] = deliveries[d] /\ deliveries[d].received \in Int
          /\ deliveries'[d].fuel = deliveries[d].fuel
  BY <1>2, <1>5, <1>9 DEF ProcurementTypeOK, Absent, DeliveryRow
<1>13. ASSUME NEW f, NEW p, p # o
       PROVE  ReceivedOf(f, Unloaded(p))' = ReceivedOf(f, Unloaded(p))
  <2>1. PICK T : T = {d \in Unloaded(p) : deliveries[d].fuel = f}
    OBVIOUS
  <2>2. T \subseteq Delivery /\ \A d \in T : deliveries[d].status = "unloaded"
    BY <2>1 DEF Unloaded, OfOrder
  <2>3. T = {d \in Unloaded(p)' : deliveries'[d].fuel = f}
    BY <1>11, <1>12, <1>13, <2>1, <2>2 DEF Unloaded, OfOrder
  <2>4. Brought(T)' = Brought(T)
    BY <1>12, <2>2, FewDeliveries, LitresSame
  <2>. QED BY <2>1, <2>3, <2>4 DEF ReceivedOf, Brought
<1>14. ASSUME NEW f
       PROVE  ReceivedOf(f, Unloaded(o))'
                = ReceivedOf(f, Unloaded(o) \ {e}) + (IF f = j.fuel THEN n ELSE 0)
  <2>1. PICK T : T = {d \in Unloaded(o) : deliveries[d].fuel = f}
    OBVIOUS
  <2>2. /\ T \subseteq Delivery /\ e \notin T /\ IsFiniteSet(T)
        /\ \A d \in T : deliveries[d].status = "unloaded"
    BY <1>11, <2>1, FewDeliveries DEF Unloaded, OfOrder
  <2>3. ReceivedOf(f, Unloaded(o) \ {e}) = Brought(T)
    BY <1>11, <2>1 DEF ReceivedOf, Brought
  <2>4. CASE f = j.fuel
    <3>1. PICK U : U = T \cup {e}
      OBVIOUS
    <3>2. U = {d \in Unloaded(o)' : deliveries'[d].fuel = f}
      BY <1>7, <1>9, <1>11, <1>12, <2>1, <2>2, <2>4, <3>1 DEF Unloaded, OfOrder
    <3>3. n \in Int /\ deliveries'[e].received = n
      BY <1>5, <1>7, <1>9
    <3>4. Brought(T \cup {e})' = Brought(T) + n
      BY <1>12, <2>2, <3>3, LitresMore
    <3>. QED BY <2>3, <2>4, <3>1, <3>2, <3>4 DEF ReceivedOf, Brought
  <2>5. CASE f # j.fuel
    <3>1. T = {d \in Unloaded(o)' : deliveries'[d].fuel = f}
      BY <1>7, <1>9, <1>11, <1>12, <2>1, <2>2, <2>5 DEF Unloaded, OfOrder
    <3>2. Brought(T)' = Brought(T)
      BY <1>12, <2>2, LitresSame
    <3>3. Brought(T) \in Int
      <4>. DEFINE g == [d \in T |-> deliveries[d].received]
      <4>1. SumFunctionOnSet(g, T) \in Int
        BY <1>12, <2>2, SumIsInt
      <4>. QED BY <4>1 DEF Brought, SumFunction
    <3>. QED BY <2>3, <2>5, <3>1, <3>2, <3>3 DEF ReceivedOf, Brought
  <2>. QED BY <2>4, <2>5
<1>15. FuelReceivedOnce'
  <2>1. PICK T : T = {d \in Delivery : deliveries[d].status = "unloaded"}
    OBVIOUS
  <2>2. e \notin T /\ IsFiniteSet(T)
    BY <1>5, <2>1, FewDeliveries
  <2>3. PICK U : U = T \cup {e}
    OBVIOUS
  <2>4. U = {d \in Delivery : deliveries'[d].status = "unloaded"}
    BY <1>5, <1>7, <1>9, <2>1, <2>3
  <2>5. n \in Int /\ deliveries'[e].received = n
    BY <1>5, <1>7, <1>9
  <2>6. Brought(T \cup {e})' = Brought(T) + n
    BY <1>12, <2>1, <2>2, <2>5, LitresMore
  <2>7. receipts = Brought(T)
    BY <1>2, <2>1 DEF FuelReceivedOnce, Brought
  <2>. QED BY <1>3, <2>3, <2>4, <2>6, <2>7 DEF FuelReceivedOnce, Brought, n
<1>16. StatusFollowsDeliveries'
  <2> SUFFICES ASSUME NEW p \in Order
               PROVE  LET full == \A f \in Fuel : ReceivedOf(f, Unloaded(p))' >= Ordered
                      IN  /\ orders'[p] = "delivered" => full
                          /\ orders'[p] = "partially_delivered"
                                => Unloaded(p)' # {} /\ ~ full
    BY DEF StatusFollowsDeliveries
  <2>1. CASE p # o
    BY <1>9, <1>11, <1>13, <2>1 DEF ProcurementInv, StatusFollowsDeliveries
  <2>2. CASE p = o
    <3>. DEFINE got == [g \in Fuel |-> ReceivedOf(g, Unloaded(o) \ {e})
                                       + (IF g = j.fuel THEN n ELSE 0)]
    <3>1. \A f \in Fuel : ReceivedOf(f, Unloaded(o))' = got[f]
      BY <1>14
    <3>2. FullyDelivered(got) <=> \A f \in Fuel : ReceivedOf(f, Unloaded(o))' >= Ordered
      BY <3>1 DEF FullyDelivered
    <3>3. st = IF FullyDelivered(got) THEN "delivered" ELSE "partially_delivered"
      BY <1>8 DEF Refreshed
    <3>. QED BY <1>9, <1>11, <2>2, <3>2, <3>3
  <2>. QED BY <2>1, <2>2
<1>17. OrdersInv' /\ NeverDriftsInOneWindow'
  <2>1. ASSUME NEW d \in Delivery, deliveries'[d].status # "none"
        PROVE  orders'[deliveries'[d].order] # "none"
    <3>1. deliveries'[d].order = deliveries[d].order /\ deliveries[d].status # "none"
      BY <1>5, <1>7, <1>9, <2>1
    <3>2. deliveries[d].order \in Order /\ orders[deliveries[d].order] # "none"
      BY <1>2, <3>1 DEF OrdersInv, ProcurementTypeOK, Absent, DeliveryRow
    <3>. QED BY <1>8, <1>9, <3>1, <3>2
  <2>2. \A p \in Order : orders'[p] \in {"none", "placed"} => Unloaded(p)' = {}
    BY <1>2, <1>8, <1>9, <1>11 DEF OrdersInv
  <2>3. \A p \in Order : p # o => Unloaded(p)' = Unloaded(p) /\ orders'[p] = orders[p]
    BY <1>9, <1>11
  <2>4. NeverDriftsInOneWindow'
    BY <1>4, <1>8, <1>9, <2>3 DEF ProcurementInv, NeverDriftsInOneWindow
  <2>. QED BY <2>1, <2>2, <2>4 DEF OrdersInv
<1>18. InvoicePaidOnce'
  BY <1>3 DEF ProcurementInv, InvoicePaidOnce
<1>19. ASSUME NEW t \in Session, t # s, job[t] # Idle, mainPC, NEW i, i = job[t]
       PROVE  ProcurementJob(i)'
  <2>1. ProcurementJob(i) /\ (e # NoRecord => i.key # e)
    BY <1>2, <1>19, <1>1, ProcurementOthers DEF e
  <2>2. e # NoRecord
    BY <1>5, ProcurementAssumption
  <2>3. i.kind \in {"step", "pre-dip", "unload"}
          => i.key \in Delivery /\ deliveries'[i.key] = deliveries[i.key]
    BY <1>9, <2>1, <2>2 DEF ProcurementJob
  <2>4. invoices' = invoices /\ (~ mainPC)' = (~ mainPC)
        /\ \A p \in Order : orders[p] # "none" => orders'[p] # "none"
    BY <1>3, <1>4, <1>8, <1>9
  <2>5. mainPC'
    BY <1>4, <1>19
  <2>. QED BY <2>1, <2>3, <2>4, <2>5 DEF ProcurementJob
<1>. QED BY <1>2, <1>10, <1>15, <1>16, <1>17, <1>18, <1>19, ProcurementEnd

\* A supplier's invoice is paid a part at a time (record_payment).
LEMMA InvoicePaid ==
    ASSUME ProcurementInv, NEW s \in Session, PaymentWrite(s)
    PROVE  ProcurementInv'
<1>1. PICK j : j = job[s]
  OBVIOUS
<1>2. /\ ProcurementTypeOK /\ InvoicePaidOnce /\ OrdersInv
      /\ job[s] # Idle /\ End(s) /\ ProcurementJob(j) /\ j.kind = "supplier payment"
  BY <1>1 DEF ProcurementInv, PaymentWrite, Runs
<1>3. /\ invoices' = [invoices EXCEPT ![j.key] =
            [status |-> InvoiceStatus(j.already, j.amount), paid |-> @.paid + j.amount]]
      /\ UNCHANGED <<supplierActive, orders, deliveries, level, receipts>>
  BY <1>1 DEF PaymentWrite
<1>4. mainPC' = mainPC
  BY <1>2, EndJob DEF ProcurementInv
<1>5. /\ j.key \in Invoice /\ invoices[j.key].status \in {"unpaid", "partially_paid"}
      /\ j.already = invoices[j.key].paid /\ j.amount \in 1 .. Owed - j.already
  BY <1>2 DEF ProcurementJob
<1>6. invoices[j.key] \in InvoiceRow /\ j.already \in 0 .. Owed /\ Owed \in Nat \ {0}
  <2>1. invoices[j.key] \in InvoiceRow
    <3>1. Absent.status = "none"
      BY DEF Absent
    <3>2. invoices[j.key] \in InvoiceRow \cup {Absent}
      BY <1>2, <1>5 DEF ProcurementTypeOK
    <3>. QED BY <1>5, <3>1, <3>2
  <2>. QED BY <1>5, <2>1, ProcurementAssumption DEF InvoiceRow
<1>7. PICK r \in InvoiceRow :
        /\ invoices' = [invoices EXCEPT ![j.key] = r]
        /\ r.paid = j.already + j.amount
        /\ r.status = IF r.paid = Owed THEN "paid" ELSE "partially_paid"
        /\ r.paid # 0
  <2>. DEFINE q == [status |-> InvoiceStatus(j.already, j.amount),
                    paid |-> invoices[j.key].paid + j.amount]
  <2>1. j.already + j.amount \in 1 .. Owed
    BY <1>5, <1>6
  <2>2. InvoiceStatus(j.already, j.amount)
          = IF j.already + j.amount = Owed THEN "paid" ELSE "partially_paid"
    BY <1>6, <2>1 DEF InvoiceStatus
  <2>3. q \in InvoiceRow
    BY <1>5, <1>6, <2>1, <2>2 DEF InvoiceRow
  <2>4. invoices' = [invoices EXCEPT ![j.key] = q]
    BY <1>2, <1>3, <1>5 DEF ProcurementTypeOK
  <2>5. /\ q.paid = j.already + j.amount /\ q.paid # 0
        /\ q.status = IF q.paid = Owed THEN "paid" ELSE "partially_paid"
    BY <1>5, <1>6, <2>1, <2>2
  <2>. HIDE DEF q
  <2>. QED BY <2>3, <2>4, <2>5
<1>8. invoices'[j.key] = r /\ \A i \in Invoice : i # j.key => invoices'[i] = invoices[i]
  BY <1>2, <1>5, <1>7 DEF ProcurementTypeOK
<1>9. ProcurementTypeOK'
  BY <1>2, <1>3, <1>7 DEF ProcurementTypeOK
<1>10. InvoicePaidOnce'
  <2> SUFFICES ASSUME NEW i \in Invoice, invoices'[i] # Absent
               PROVE  /\ invoices'[i].paid <= Owed
                      /\ invoices'[i].status =
                           CASE invoices'[i].paid = 0    -> "unpaid"
                             [] invoices'[i].paid = Owed -> "paid"
                             [] OTHER                    -> "partially_paid"
    BY DEF InvoicePaidOnce
  <2>1. CASE i = j.key
    BY <1>6, <1>7, <1>8, <2>1 DEF InvoiceRow
  <2>2. CASE i # j.key
    BY <1>2, <1>8, <2>2 DEF InvoicePaidOnce
  <2>. QED BY <2>1, <2>2
<1>11. OrdersInv' /\ FuelReceivedOnce' /\ StatusFollowsDeliveries' /\ NeverDriftsInOneWindow'
  <2>1. \A d \in Delivery :
         /\ deliveries'[d].status = "unloaded" <=> deliveries[d].status = "unloaded"
         /\ deliveries[d].status = "unloaded" => deliveries'[d] = deliveries[d]
         /\ deliveries'[d].status # "none" => orders'[deliveries'[d].order] # "none"
    BY <1>2, <1>3 DEF OrdersInv
  <2>2. \A p \in Order :
         \/ orders'[p] = orders[p]
         \/ orders[p] = "none" /\ orders'[p] = "placed"
         \/ orders'[p] = "cancelled" /\ (~ mainPC => orders[p] = "placed")
    BY <1>3
  <2>. QED BY <1>3, <1>4, <2>1, <2>2, OrdersKept
<1>12. ASSUME NEW t \in Session, t # s, job[t] # Idle, mainPC, NEW i, i = job[t]
       PROVE  ProcurementJob(i)'
  <2>1. ProcurementJob(i) /\ (j.key # NoRecord => i.key # j.key)
    BY <1>2, <1>1, <1>12, ProcurementOthers
  <2>2. j.key # NoRecord
    BY <1>5, ProcurementAssumption
  <2>3. i.kind = "supplier payment"
          => i.key \in Invoice /\ invoices'[i.key] = invoices[i.key]
    BY <1>8, <2>1, <2>2 DEF ProcurementJob
  <2>4. orders' = orders /\ deliveries' = deliveries /\ (~ mainPC)' = (~ mainPC)
    BY <1>3, <1>4
  <2>. QED BY <2>1, <2>3, <2>4 DEF ProcurementJob
<1>. QED BY <1>2, <1>9, <1>10, <1>11, <1>12, ProcurementEnd

\* A request that commits at once, and fuel that is sold meanwhile
\* (set_supplier_status, create_invoice, and module Forecourt's sales).
LEMMA ProcurementBeside ==
    ASSUME ProcurementInv, SetSupplierStatus \/ CreateInvoice \/ Issue
    PROVE  ProcurementInv'
<1>1. /\ ProcurementTypeOK /\ OrdersInv /\ FuelReceivedOnce /\ InvoicePaidOnce
      /\ UNCHANGED <<mainPC, job, orders, deliveries, receipts>> /\ DesksInv'
  BY DesksStay DEF ProcurementInv, SetSupplierStatus, CreateInvoice, Issue, AtOnce, deskVars
<1>2. supplierActive' \in BOOLEAN /\ level' \in [Fuel -> 0 .. Volume]
  <2>1. CASE SetSupplierStatus
    BY <1>1, <2>1 DEF SetSupplierStatus, ProcurementTypeOK
  <2>2. CASE CreateInvoice
    BY <1>1, <2>2 DEF CreateInvoice, ProcurementTypeOK
  <2>3. CASE Issue
    <3>1. PICK f \in Fuel : level[f] > 0 /\ level' = [level EXCEPT ![f] = @ - 1]
      BY <2>3 DEF Issue
    <3>2. level[f] \in 0 .. Volume /\ Volume \in Nat
      BY <1>1, ProcurementAssumption DEF ProcurementTypeOK
    <3>3. level[f] - 1 \in 0 .. Volume
      BY <3>1, <3>2
    <3>. QED BY <1>1, <2>3, <3>1, <3>3 DEF Issue, ProcurementTypeOK
  <2>. QED BY <2>1, <2>2, <2>3
<1>3. \/ invoices' = invoices
      \/ \E i \in Invoice : /\ invoices[i] = Absent
                            /\ invoices' = [invoices EXCEPT ![i] = [status |-> "unpaid", paid |-> 0]]
  BY DEF SetSupplierStatus, CreateInvoice, Issue
<1>4. /\ invoices' \in [Invoice -> InvoiceRow \cup {Absent}] /\ InvoicePaidOnce'
      /\ \A i \in Invoice : invoices[i] # Absent => invoices'[i] = invoices[i]
  <2>1. CASE invoices' = invoices
    BY <1>1, <2>1 DEF ProcurementTypeOK, InvoicePaidOnce
  <2>2. ASSUME NEW i \in Invoice, invoices[i] = Absent,
               invoices' = [invoices EXCEPT ![i] = [status |-> "unpaid", paid |-> 0]]
        PROVE  /\ invoices' \in [Invoice -> InvoiceRow \cup {Absent}] /\ InvoicePaidOnce'
               /\ \A k \in Invoice : invoices[k] # Absent => invoices'[k] = invoices[k]
    <3>1. PICK r : r = [status |-> "unpaid", paid |-> 0]
      OBVIOUS
    <3>2. r \in InvoiceRow /\ r.status = "unpaid" /\ r.paid = 0 /\ 0 <= Owed /\ Owed # 0
      BY <3>1, ProcurementAssumption DEF InvoiceRow
    <3>3. invoices'[i] = r /\ \A k \in Invoice : k # i => invoices'[k] = invoices[k]
      BY <1>1, <2>2, <3>1 DEF ProcurementTypeOK
    <3>4. invoices' \in [Invoice -> InvoiceRow \cup {Absent}]
      BY <1>1, <2>2, <3>1, <3>2 DEF ProcurementTypeOK
    <3>5. InvoicePaidOnce'
      <4> SUFFICES ASSUME NEW k \in Invoice, invoices'[k] # Absent
                   PROVE  /\ invoices'[k].paid <= Owed
                          /\ invoices'[k].status =
                               CASE invoices'[k].paid = 0    -> "unpaid"
                                 [] invoices'[k].paid = Owed -> "paid"
                                 [] OTHER                    -> "partially_paid"
        BY DEF InvoicePaidOnce
      <4>1. CASE k = i
        BY <3>2, <3>3, <4>1
      <4>2. CASE k # i
        BY <1>1, <3>3, <4>2 DEF InvoicePaidOnce
      <4>. QED BY <4>1, <4>2
    <3>. QED BY <2>2, <3>3, <3>4, <3>5
  <2>. QED BY <1>3, <2>1, <2>2
<1>5. OrdersInv' /\ FuelReceivedOnce' /\ StatusFollowsDeliveries' /\ NeverDriftsInOneWindow'
  <2>1. \A d \in Delivery :
         /\ deliveries'[d].status = "unloaded" <=> deliveries[d].status = "unloaded"
         /\ deliveries[d].status = "unloaded" => deliveries'[d] = deliveries[d]
         /\ deliveries'[d].status # "none" => orders'[deliveries'[d].order] # "none"
    BY <1>1 DEF OrdersInv
  <2>2. \A p \in Order :
         \/ orders'[p] = orders[p]
         \/ orders[p] = "none" /\ orders'[p] = "placed"
         \/ orders'[p] = "cancelled" /\ (~ mainPC => orders[p] = "placed")
    BY <1>1
  <2>. QED BY <1>1, <2>1, <2>2, OrdersKept
<1>6. ASSUME NEW t \in Session, job[t] # Idle PROVE ProcurementJob(job[t])'
  <2>1. PICK j : j = job[t]
    OBVIOUS
  <2>2. ProcurementJob(j)
    BY <1>6, <2>1 DEF ProcurementInv
  <2>3. /\ orders' = orders /\ deliveries' = deliveries /\ (~ mainPC)' = (~ mainPC)
        /\ job' = job
    BY <1>1
  <2>4. j.kind = "supplier payment" => invoices'[j.key] = invoices[j.key]
    <3>1. Absent.status = "none"
      BY DEF Absent
    <3>. QED BY <1>4, <2>2, <3>1 DEF ProcurementJob
  <2>5. ProcurementJob(j)'
    BY <2>2, <2>3, <2>4 DEF ProcurementJob
  <2>. QED BY <2>1, <2>3, <2>5 DEF ProcurementJob
<1>7. ProcurementTypeOK'
  BY <1>1, <1>2, <1>4 DEF ProcurementTypeOK
<1>. QED BY <1>1, <1>4, <1>5, <1>6, <1>7 DEF ProcurementInv

\* The reads: what each request goes on with is what the tables say.
LEMMA ProcurementReads ==
    ASSUME ProcurementInv, NEW s \in Session,
           \/ CreateOrderRead(s) \/ CancelOrderRead(s) \/ ArrivalRead(s) \/ StepRead(s)
           \/ PreDipRead(s) \/ UnloadRead(s) \/ PaymentRead(s)
    PROVE  ProcurementInv'
<1>. SUFFICES \E j : Begin(s, j) /\ ProcurementJob(j) /\ UNCHANGED procurementVars
  BY ProcurementRead
<1>1. ProcurementTypeOK
  BY DEF ProcurementInv
<1>2. CASE CreateOrderRead(s)
  <2>1. PICK o \in Order : Begin(s, [kind |-> "create order", key |-> NoRecord, order |-> o])
    BY <1>2 DEF CreateOrderRead
  <2>. QED BY <1>2, <2>1 DEF CreateOrderRead, ProcurementJob
<1>3. CASE CancelOrderRead(s)
  <2>1. PICK o \in Order : MayCancel(o) /\ Begin(s, [kind |-> "cancel order", key |-> o])
    BY <1>3 DEF CancelOrderRead
  <2>. QED BY <1>3, <2>1 DEF CancelOrderRead, ProcurementJob, MayCancel
<1>4. CASE ArrivalRead(s)
  <2>1. PICK o \in Order, d \in Delivery, f \in Fuel :
          /\ orders[o] \in Open
          /\ Begin(s, [kind |-> "arrival", key |-> o, delivery |-> d, fuel |-> f])
    BY <1>4 DEF ArrivalRead
  <2>. QED BY <1>4, <2>1 DEF ArrivalRead, ProcurementJob, Open
<1>5. CASE StepRead(s)
  <2>1. PICK d \in Delivery, step \in Steps :
          /\ deliveries[d].status \in step[1]
          /\ Begin(s, [kind |-> "step", key |-> d, status |-> step[2]])
    BY <1>5 DEF StepRead
  <2>2. step[1] \subseteq InProgress /\ step[2] \in InProgress \cup {"rejected"}
    BY DEF Steps, InProgress
  <2>. QED BY <1>5, <2>1, <2>2 DEF StepRead, ProcurementJob
<1>6. CASE PreDipRead(s)
  <2>1. PICK d \in Delivery, dip \in 0 .. Volume :
          /\ deliveries[d].status = "quality_verified"
          /\ Begin(s, [kind |-> "pre-dip", key |-> d, dip |-> dip])
    BY <1>6 DEF PreDipRead
  <2>. QED BY <1>6, <2>1 DEF PreDipRead, ProcurementJob
<1>7. CASE UnloadRead(s)
  <2>1. PICK d \in Delivery, dip \in 0 .. Volume :
          /\ deliveries[d].status = "quality_verified"
          /\ deliveries[d].preDip # -1 /\ dip > deliveries[d].preDip
          /\ Begin(s, [kind |-> "unload", key |-> d, order |-> deliveries[d].order,
                       fuel |-> deliveries[d].fuel,
                       received |-> dip - deliveries[d].preDip])
    BY <1>7 DEF UnloadRead
  <2>2. deliveries[d] \in DeliveryRow
    <3>1. Absent.status = "none"
      BY DEF Absent
    <3>. QED BY <1>1, <2>1, <3>1 DEF ProcurementTypeOK
  <2>3. dip - deliveries[d].preDip \in 1 .. Volume
    BY <2>1, <2>2, ProcurementAssumption DEF DeliveryRow
  <2>. QED BY <1>7, <2>1, <2>3 DEF UnloadRead, ProcurementJob
<1>8. CASE PaymentRead(s)
  <2>1. PICK i \in Invoice :
          /\ invoices[i].status \in {"unpaid", "partially_paid"}
          /\ \E n \in 1 .. Owed - invoices[i].paid :
                Begin(s, [kind |-> "supplier payment", key |-> i, amount |-> n,
                          already |-> invoices[i].paid])
    BY <1>8 DEF PaymentRead
  <2>. QED BY <1>8, <2>1 DEF PaymentRead, ProcurementJob
<1>. QED BY <1>2, <1>3, <1>4, <1>5, <1>6, <1>7, <1>8

\* Every step keeps all of it.
LEMMA ProcurementInductive ==
    /\ DesksInit /\ ProcurementInit => ProcurementInv
    /\ ProcurementInv /\ [ProcurementNext]_<<deskVars, procurementVars>> => ProcurementInv'
<1>1. DesksInit /\ ProcurementInit => ProcurementInv
  <2> SUFFICES ASSUME DesksInit, ProcurementInit PROVE ProcurementInv
    OBVIOUS
  <2>1. DesksInv /\ \A s \in Session : job[s] = Idle
    BY DesksStart DEF DesksInit
  <2>2. \A d \in Delivery : deliveries[d].status = "none"
    BY DEF ProcurementInit, Absent
  <2>3. \A o : Unloaded(o) = {}
    BY <2>2 DEF Unloaded, OfOrder
  <2>4. {d \in Delivery : deliveries[d].status = "unloaded"} = {} /\ receipts = 0
    BY <2>2 DEF ProcurementInit
  <2>5. FuelReceivedOnce
    BY <2>4, LitresOfNothing DEF FuelReceivedOnce, Brought
  <2>6. OrdersInv /\ StatusFollowsDeliveries /\ NeverDriftsInOneWindow
    BY <2>2, <2>3 DEF OrdersInv, StatusFollowsDeliveries, NeverDriftsInOneWindow,
                      ProcurementInit
  <2>7. ProcurementTypeOK /\ InvoicePaidOnce
    BY ProcurementAssumption DEF ProcurementInit, ProcurementTypeOK, InvoicePaidOnce, Open
  <2>. QED BY <2>1, <2>5, <2>6, <2>7 DEF ProcurementInv
<1>2. ProcurementInv /\ [ProcurementNext]_<<deskVars, procurementVars>> => ProcurementInv'
  <2> SUFFICES ASSUME ProcurementInv, [ProcurementNext]_<<deskVars, procurementVars>>
               PROVE  ProcurementInv'
    OBVIOUS
  <2>1. CASE UNCHANGED <<deskVars, procurementVars>>
    <3>1. /\ UNCHANGED <<mainPC, job, procurementVars>> /\ DesksInv'
      BY <2>1, DesksStay DEF deskVars, ProcurementInv
    <3>2. ASSUME NEW t \in Session, job[t] # Idle PROVE ProcurementJob(job[t])'
      <4>1. PICK j : j = job[t]
        OBVIOUS
      <4>2. ProcurementJob(j)'
        BY <3>1, <3>2, <4>1, ProcurementTablesStay DEF ProcurementInv
      <4>. QED BY <3>1, <4>1, <4>2 DEF ProcurementJob
    <3>. QED BY <3>1, <3>2, ProcurementTablesStay DEF ProcurementInv
  <2>2. ASSUME NEW s \in Session, GiveUp(s), UNCHANGED procurementVars
        PROVE  ProcurementInv'
    <3>1. job[s] # Idle /\ End(s) /\ mainPC' = mainPC
      BY <2>2, EndJob DEF GiveUp, ProcurementInv
    <3>2. ASSUME NEW t \in Session, t # s, job[t] # Idle, mainPC, NEW j, j = job[t]
          PROVE  ProcurementJob(j)'
      BY <2>2, <3>1, <3>2, ProcurementTablesStay DEF ProcurementInv
    <3>. QED BY <2>2, <3>1, <3>2, ProcurementTablesStay, ProcurementEnd
  <2>. QED BY <2>1, <2>2, ProcurementReads, OrderWritten, DeliveryWritten,
              DeliveryUnloaded, InvoicePaid, ProcurementBeside DEF ProcurementNext
<1>. QED BY <1>1, <1>2

\* What procurement_service.py is trusted with: whatever requests overlap,
\* whichever is given up, each delivery is received once into its tank, each
\* order's status tells what its deliveries brought, each invoice is paid once.
THEOREM FuelIsReceivedOnce == ProcurementSpec => []OrderedFuelIsAccountedFor
<1>1. ProcurementInv => OrderedFuelIsAccountedFor
  BY DEF ProcurementInv, OrderedFuelIsAccountedFor
<1>. QED BY <1>1, ProcurementInductive, PTL DEF ProcurementSpec

-----------------------------------------------------------------------------
(***************************************************************************)
(* Payroll: a month is paid after its approval, in full and as it says.    *)
(***************************************************************************)

\* What a request that has read goes on with.  On the Main PC another may
\* have written since (no path of these screens names a record), so little
\* of what it read still holds; in one window all of it does.
PayrollJob(j) ==
    /\ j.kind = "void advance" =>
         /\ j.advance \in AdvanceRow
         /\ \E b \in advances : b.id = j.advance.id
                                /\ b \in {j.advance, [j.advance EXCEPT !.status = "void"]}
         /\ ~ mainPC => VoidAllowed(j.advance)
    /\ j.kind = "deductions" =>
         /\ j.month \in Month /\ j.employee \in Employee
         /\ j.old \in Line /\ j.new \in Line
         /\ j.new.net = Gross - j.new.advance - j.new.shortage
         /\ ~ mainPC => runs[j.month] = "draft" /\ j.old = lines[j.month][j.employee]
    /\ j.kind = "approve" => j.month \in Month
    /\ j.kind = "pay" =>
         /\ j.month \in Month /\ j.employee \in Employee /\ j.amount \in -Gross .. Gross
         /\ runs[j.month] \in Settled
         /\ ~ mainPC => /\ Active(payments, j.month, j.employee) = {}
                        /\ j.amount = lines[j.month][j.employee].net
    /\ j.kind = "void payment" =>
         /\ j.month \in Month /\ j.employee \in Employee
         /\ j.row \in DOMAIN payments[j.month][j.employee]

\* Advances are numbered in the order they were given, each number once.
AdvancesInv ==
    /\ IsFiniteSet(advances)
    /\ \A a, b \in advances : a.id = b.id => a = b
    /\ \A a \in advances : a.id <= Cardinality(advances)

\* In one window no line has two active payments, and the one it has is the
\* salary of the line.
LinesInv ==
    ~ mainPC => \A m \in Month, e \in Employee :
        /\ lines[m][e].net = Gross - lines[m][e].advance - lines[m][e].shortage
        /\ \A i, k \in Active(payments, m, e) : i = k
        /\ \A i \in Active(payments, m, e) : payments[m][e][i].amount = lines[m][e].net

PayrollTables ==
    PayrollTypeOK /\ AdvancesInv /\ LinesInv /\ PaidAfterApproval /\ PaidMeansPaid

PayrollInv ==
    /\ DesksInv /\ PayrollTables
    /\ \A s \in Session : job[s] # Idle => PayrollJob(job[s])

\* What another request's write leaves a request that waits with, on the Main
\* PC: advances are voided but never dropped, a settled month stays settled
\* and payments are only added.
RowsGoOn ==
    /\ \A a \in advances : \E b \in advances' :
          b.id = a.id /\ b \in {a, [a EXCEPT !.status = "void"]}
    /\ \A m \in Month : runs[m] \in Settled => runs'[m] \in Settled
    /\ \A m \in Month, e \in Employee :
          DOMAIN payments[m][e] \subseteq DOMAIN payments'[m][e]

\* That is all that a waiting request needs there.
LEMMA PayrollJobKept ==
    ASSUME mainPC = TRUE, mainPC' = mainPC, RowsGoOn, NEW j, PayrollJob(j)
    PROVE  PayrollJob(j)'
<1>1. ASSUME j.kind = "void advance"
      PROVE  \E b \in advances' : b.id = j.advance.id
                /\ b \in {j.advance, [j.advance EXCEPT !.status = "void"]}
  <2>1. PICK a \in advances : a.id = j.advance.id
                /\ a \in {j.advance, [j.advance EXCEPT !.status = "void"]}
    BY <1>1 DEF PayrollJob
  <2>2. PICK b \in advances' : b.id = a.id /\ b \in {a, [a EXCEPT !.status = "void"]}
    BY DEF RowsGoOn
  <2>3. [[j.advance EXCEPT !.status = "void"] EXCEPT !.status = "void"]
          = [j.advance EXCEPT !.status = "void"]
    OBVIOUS
  <2>. QED BY <2>1, <2>2, <2>3
<1>2. (~ mainPC)' = FALSE
  OBVIOUS
<1>3. j.kind = "void advance" => j.advance \in AdvanceRow
  BY DEF PayrollJob
<1>4. j.kind = "deductions" =>
         /\ j.month \in Month /\ j.employee \in Employee
         /\ j.old \in Line /\ j.new \in Line
         /\ j.new.net = Gross - j.new.advance - j.new.shortage
  BY DEF PayrollJob
<1>5. j.kind = "approve" => j.month \in Month
  BY DEF PayrollJob
<1>6. j.kind = "pay" =>
         /\ j.month \in Month /\ j.employee \in Employee /\ j.amount \in -Gross .. Gross
         /\ runs'[j.month] \in Settled
  BY DEF PayrollJob, RowsGoOn
<1>7. j.kind = "void payment" =>
         /\ j.month \in Month /\ j.employee \in Employee
         /\ j.row \in DOMAIN payments'[j.month][j.employee]
  BY DEF PayrollJob, RowsGoOn
<1>. QED BY <1>1, <1>2, <1>3, <1>4, <1>5, <1>6, <1>7 DEF PayrollJob

\* The tables a read leaves alone keep all that is said of them.
LEMMA PayrollTablesStay ==
    ASSUME PayrollTables, UNCHANGED payrollVars, mainPC' = mainPC
    PROVE  PayrollTables' /\ \A j : PayrollJob(j) => PayrollJob(j)'
<1>1. UNCHANGED <<mainPC, month, advances, runs, lines, payments, shortages>>
  BY DEF payrollVars
<1>2. PayrollTables'
  BY <1>1 DEF PayrollTables, PayrollTypeOK, AdvancesInv, LinesInv, Active,
              PaidAfterApproval, PaidMeansPaid, AllPaid
<1>3. ASSUME NEW j, PayrollJob(j) PROVE PayrollJob(j)'
  <2>1. VoidAllowed(j.advance)' = VoidAllowed(j.advance)
    BY <1>1 DEF VoidAllowed, Given, Recovered, TakenBefore
  <2>2. (~ mainPC)' = (~ mainPC)
    BY <1>1
  <2>3. Active(payments, j.month, j.employee)' = Active(payments, j.month, j.employee)
    BY <1>1 DEF Active
  <2>. QED BY <1>1, <1>3, <2>1, <2>2, <2>3 DEF PayrollJob
<1>. QED BY <1>2, <1>3

\* A request that reads relies on what it has just read.
LEMMA PayrollRead ==
    ASSUME PayrollInv, NEW s \in Session, NEW j, Begin(s, j), PayrollJob(j),
           UNCHANGED payrollVars
    PROVE  PayrollInv'
<1>1. /\ DesksInv' /\ mainPC' = mainPC /\ job'[s] = j
      /\ \A t \in Session : t # s => job'[t] = job[t]
  BY BeginJob DEF PayrollInv
<1>2. ASSUME NEW t \in Session, job'[t] # Idle PROVE PayrollJob(job[t])'
  <2>1. PICK i : i = job'[t]
    OBVIOUS
  <2>2. PayrollJob(i)
    BY <1>1, <1>2, <2>1 DEF PayrollInv
  <2>3. PayrollJob(i)'
    BY <1>1, <2>2, PayrollTablesStay DEF PayrollInv
  <2>. QED BY <2>1, <2>3 DEF PayrollJob
<1>. QED BY <1>1, <1>2, PayrollTablesStay DEF PayrollInv

\* A request that writes and ends leaves the others with what they rely on.
LEMMA PayrollEnd ==
    ASSUME PayrollInv, NEW s \in Session, job[s] # Idle, End(s), PayrollTables',
           RowsGoOn
    PROVE  PayrollInv'
<1>1. /\ DesksInv' /\ job'[s] = Idle /\ mainPC' = mainPC
      /\ \A t \in Session : t # s => job'[t] = job[t]
  BY EndJob DEF PayrollInv
<1>2. ASSUME NEW t \in Session, job'[t] # Idle PROVE PayrollJob(job[t])'
  <2>1. PICK j : j = job'[t]
    OBVIOUS
  <2>2. t # s /\ j = job[t] /\ job[t] # Idle /\ mainPC
    BY <1>1, <1>2, <2>1 DEF PayrollInv, DesksInv
  <2>3. mainPC = TRUE /\ PayrollJob(j)
    BY <2>2 DEF PayrollInv, DesksInv
  <2>4. PayrollJob(j)'
    BY <1>1, <2>3, PayrollJobKept
  <2>. QED BY <2>1, <2>4 DEF PayrollJob
<1>. QED BY <1>1, <1>2 DEF PayrollInv

\* The advances after one more is given, or one is voided.
LEMMA AdvancesGoOn ==
    ASSUME advances \subseteq AdvanceRow, AdvancesInv, NEW a \in AdvanceRow,
           \/ /\ a.id = Cardinality(advances) + 1 /\ a.status = "active"
              /\ advances' = advances \cup {a}
           \/ /\ \E b \in advances : b.id = a.id
                                     /\ b \in {a, [a EXCEPT !.status = "void"]}
              /\ advances' = (advances \ {a}) \cup {[a EXCEPT !.status = "void"]}
    PROVE  /\ advances' \subseteq AdvanceRow /\ AdvancesInv'
           /\ \A b \in advances : \E c \in advances' :
                 c.id = b.id /\ c \in {b, [b EXCEPT !.status = "void"]}
<1>. DEFINE v == [a EXCEPT !.status = "void"]
<1>1. v \in AdvanceRow /\ v.id = a.id /\ v.status = "void"
  BY DEF AdvanceRow
<1>2. /\ IsFiniteSet(advances) /\ Cardinality(advances) \in Nat
      /\ \A b \in advances : b \in AdvanceRow /\ b.id \in Nat
  BY FS_CardinalityType DEF AdvancesInv, AdvanceRow
<1>3. CASE a.id = Cardinality(advances) + 1 /\ advances' = advances \cup {a}
  <2>1. a \notin advances /\ \A b \in advances : b.id # a.id
    BY <1>2, <1>3 DEF AdvancesInv
  <2>2. IsFiniteSet(advances') /\ Cardinality(advances') = Cardinality(advances) + 1
    BY <1>2, <1>3, <2>1, FS_AddElement
  <2>3. \A b \in advances : b.id <= Cardinality(advances) + 1
    BY <1>2 DEF AdvancesInv
  <2>4. \A b, c \in advances' : b.id = c.id => b = c
    BY <1>3, <2>1 DEF AdvancesInv
  <2>5. \A b \in advances' : b.id <= Cardinality(advances')
    BY <1>2, <1>3, <2>2, <2>3
  <2>6. AdvancesInv'
    BY <2>2, <2>4, <2>5 DEF AdvancesInv
  <2>. QED BY <1>3, <2>6
<1>4. CASE /\ \E b \in advances : b.id = a.id /\ b \in {a, v}
           /\ advances' = (advances \ {a}) \cup {v}
  <2>1. CASE a \in advances
    <3>1. v \in advances => v = a
      BY <1>1, <2>1 DEF AdvancesInv
    <3>2. IsFiniteSet(advances \ {a}) /\ Cardinality(advances \ {a}) = Cardinality(advances) - 1
      BY <1>2, <2>1, FS_RemoveElement
    <3>3. v \notin advances \ {a}
      BY <3>1
    <3>4. IsFiniteSet(advances') /\ Cardinality(advances') = Cardinality(advances)
      <4>1. PICK R : R = advances \ {a}
        OBVIOUS
      <4>2. PICK w : w = v
        OBVIOUS
      <4>3. IsFiniteSet(R \cup {w}) /\ Cardinality(R \cup {w}) = Cardinality(R) + 1
        BY <3>2, <3>3, <4>1, <4>2, FS_AddElement
      <4>. QED BY <1>2, <1>4, <3>2, <4>1, <4>2, <4>3
    <3>5. \A b \in advances \ {a} : b.id # v.id
      BY <1>1, <2>1 DEF AdvancesInv
    <3>6. AdvancesInv'
      BY <1>1, <1>4, <2>1, <3>4, <3>5 DEF AdvancesInv
    <3>. QED BY <1>1, <1>4, <3>6
  <2>2. CASE a \notin advances
    <3>1. advances' = advances
      BY <1>4, <2>2
    <3>. QED BY <3>1 DEF AdvancesInv
  <2>. QED BY <2>1, <2>2
<1>. QED BY <1>3, <1>4

\* void_advance and record_advance.
LEMMA AdvanceWritten ==
    ASSUME PayrollInv,
           RecordAdvance \/ \E s \in Session : VoidAdvanceWrite(s)
    PROVE  PayrollTables' /\ RowsGoOn /\ mainPC' = mainPC
<1>1. PICK a \in AdvanceRow :
        \/ /\ a.id = Cardinality(advances) + 1 /\ a.status = "active"
           /\ advances' = advances \cup {a}
        \/ /\ \E b \in advances : b.id = a.id
                                  /\ b \in {a, [a EXCEPT !.status = "void"]}
           /\ advances' = (advances \ {a}) \cup {[a EXCEPT !.status = "void"]}
  <2>1. CASE RecordAdvance
    <3>1. PICK e \in Employee, n \in 1 .. Gross, on \in Month :
            advances' = advances \cup
               {[id |-> Cardinality(advances) + 1, employee |-> e, amount |-> n,
                 on |-> on, status |-> "active"]}
      BY <2>1 DEF RecordAdvance
    <3>2. Cardinality(advances) \in Nat
      BY FS_CardinalityType DEF PayrollInv, PayrollTables, AdvancesInv
    <3>. DEFINE a == [id |-> Cardinality(advances) + 1, employee |-> e, amount |-> n,
                      on |-> on, status |-> "active"]
    <3>3. a \in AdvanceRow /\ a.id = Cardinality(advances) + 1 /\ a.status = "active"
      BY <3>2 DEF AdvanceRow
    <3>. HIDE DEF a
    <3>. QED BY <3>1, <3>3 DEF a
  <2>2. CASE \E s \in Session : VoidAdvanceWrite(s)
    <3>1. PICK s \in Session : VoidAdvanceWrite(s)
      BY <2>2
    <3>2. PICK a : a = job[s].advance
      OBVIOUS
    <3>3. PayrollJob(job[s]) /\ job[s].kind = "void advance"
      BY <3>1 DEF VoidAdvanceWrite, Runs, PayrollInv
    <3>4. /\ a \in AdvanceRow
          /\ \E b \in advances : b.id = a.id /\ b \in {a, [a EXCEPT !.status = "void"]}
      BY <3>2, <3>3 DEF PayrollJob
    <3>. QED BY <3>1, <3>2, <3>4 DEF VoidAdvanceWrite
  <2>. QED BY <2>1, <2>2
<1>2. UNCHANGED <<mainPC, month, runs, lines, payments, shortages>>
  <2>1. CASE RecordAdvance
    BY <2>1 DEF RecordAdvance, AtOnce, deskVars
  <2>2. ASSUME NEW s \in Session, VoidAdvanceWrite(s)
        PROVE  UNCHANGED <<mainPC, month, runs, lines, payments, shortages>>
    BY <2>2 DEF VoidAdvanceWrite, End
  <2>. QED BY <2>1, <2>2
<1>3. /\ advances' \subseteq AdvanceRow /\ AdvancesInv'
      /\ \A b \in advances : \E c \in advances' :
            c.id = b.id /\ c \in {b, [b EXCEPT !.status = "void"]}
  <2>1. advances \subseteq AdvanceRow /\ AdvancesInv
    BY DEF PayrollInv, PayrollTables, PayrollTypeOK
  <2>. QED BY <1>1, <2>1, AdvancesGoOn
<1>4. RowsGoOn
  BY <1>2, <1>3 DEF RowsGoOn
<1>5. PayrollTables'
  BY <1>2, <1>3 DEF PayrollInv, PayrollTables, PayrollTypeOK, LinesInv, Active,
                    PaidAfterApproval, PaidMeansPaid, AllPaid
<1>. QED BY <1>2, <1>4, <1>5

\* record_shortage and record_recovery (app/services/employee_shortage_service.py).
LEMMA ShortageWritten ==
    ASSUME PayrollInv, RecordShortage \/ RecordRecovery
    PROVE  PayrollTables' /\ RowsGoOn /\ mainPC' = mainPC
<1>1. UNCHANGED <<mainPC, month, advances, runs, lines, payments>>
  BY DEF RecordShortage, RecordRecovery, AtOnce, deskVars
<1>2. shortages' \in [Employee -> [booked : Nat, recovered : Nat]]
  <2>1. shortages \in [Employee -> [booked : Nat, recovered : Nat]]
    BY DEF PayrollInv, PayrollTables, PayrollTypeOK
  <2>2. PICK e \in Employee : \/ shortages' = [shortages EXCEPT ![e].booked = @ + 1]
                              \/ shortages' = [shortages EXCEPT ![e].recovered = @ + 1]
    BY DEF RecordShortage, RecordRecovery
  <2>. QED BY <2>1, <2>2
<1>3. RowsGoOn
  BY <1>1 DEF RowsGoOn
<1>4. PayrollTables'
  BY <1>1, <1>2 DEF PayrollInv, PayrollTables, PayrollTypeOK, AdvancesInv, LinesInv,
                    Active, PaidAfterApproval, PaidMeansPaid, AllPaid
<1>. QED BY <1>1, <1>3, <1>4

\* The line a deduction request leaves: nobody having written the line since
\* it was read, it is the one that was typed.
LEMMA MergedLine ==
    ASSUME NEW stored \in Line, NEW old \in Line, NEW new \in Line
    PROVE  /\ Merge(stored, old, new) \in Line
           /\ stored = old => Merge(stored, old, new) = new
<1>. DEFINE r == Merge(stored, old, new)
<1>1. DOMAIN stored = {"advance", "shortage", "net"}
  BY DEF Line
<1>2. r = [f \in {"advance", "shortage", "net"} |->
             IF new[f] = old[f] THEN stored[f] ELSE new[f]]
  BY <1>1 DEF Merge
<1>3. r = [advance |-> r.advance, shortage |-> r.shortage, net |-> r.net]
  BY <1>2
<1>4. /\ r.advance = IF new.advance = old.advance THEN stored.advance ELSE new.advance
      /\ r.shortage = IF new.shortage = old.shortage THEN stored.shortage ELSE new.shortage
      /\ r.net = IF new.net = old.net THEN stored.net ELSE new.net
  BY <1>2
<1>. HIDE DEF r
<1>5. /\ r.advance \in 0 .. Gross /\ r.shortage \in 0 .. Gross /\ r.net \in -Gross .. Gross
      /\ stored = old => /\ r.advance = new.advance /\ r.shortage = new.shortage
                         /\ r.net = new.net
  BY <1>4 DEF Line
<1>6. r \in Line
  BY <1>3, <1>5 DEF Line
<1>7. stored = old => r = new
  BY <1>3, <1>5 DEF Line
<1>. QED BY <1>6, <1>7 DEF r

\* A month that is not settled has no payment.
LEMMA NothingPaidYet ==
    ASSUME PayrollTables, NEW m \in Month, runs[m] \notin Settled, NEW e \in Employee
    PROVE  payments[m][e] = <<>> /\ Active(payments, m, e) = {}
<1>1. payments[m][e] = <<>>
  BY DEF PayrollTables, PaidAfterApproval
<1>. QED BY <1>1 DEF Active

\* prepare_month and set_deductions: only a line nothing was paid on changes.
LEMMA LinesWritten ==
    ASSUME PayrollInv, PrepareMonth \/ \E s \in Session : SetDeductionsWrite(s)
    PROVE  PayrollTables' /\ RowsGoOn /\ mainPC' = mainPC
<1>1. PayrollTables /\ PayrollTypeOK /\ mainPC \in BOOLEAN /\ Gross \in Nat
  BY PayrollAssumption DEF PayrollInv, PayrollTables, PayrollTypeOK
<1>2. UNCHANGED <<mainPC, month, advances, payments, shortages>>
  <2>1. CASE PrepareMonth
    BY <2>1 DEF PrepareMonth, AtOnce, deskVars
  <2>2. ASSUME NEW s \in Session, SetDeductionsWrite(s)
        PROVE  UNCHANGED <<mainPC, month, advances, payments, shortages>>
    BY <2>2 DEF SetDeductionsWrite, End
  <2>. QED BY <2>1, <2>2
<1>3. /\ runs' \in [Month -> {"none", "draft"} \cup Settled]
      /\ \A m \in Month : runs'[m] = runs[m] \/ (runs[m] = "none" /\ runs'[m] = "draft")
  <2>1. runs \in [Month -> {"none", "draft"} \cup Settled]
    BY <1>1 DEF PayrollTypeOK
  <2>2. CASE PrepareMonth
    <3>1. PICK m \in Month : runs[m] = "none" /\ runs' = [runs EXCEPT ![m] = "draft"]
      BY <2>2 DEF PrepareMonth
    <3>. QED BY <2>1, <3>1
  <2>3. ASSUME NEW s \in Session, SetDeductionsWrite(s) PROVE runs' = runs
    BY <2>3 DEF SetDeductionsWrite
  <2>. QED BY <2>2, <2>3, <2>1
<1>4. /\ lines' \in [Month -> [Employee -> Line]]
      /\ \A m \in Month, e \in Employee : lines'[m][e] = lines[m][e] \/
            (~ mainPC => /\ runs[m] \notin Settled
                         /\ lines'[m][e].net
                              = Gross - lines'[m][e].advance - lines'[m][e].shortage)
  <2>1. CASE PrepareMonth
    <3>1. PICK m \in Month : runs[m] = "none" /\ lines' = [lines EXCEPT ![m] = [e \in Employee |-> Blank]]
      BY <2>1 DEF PrepareMonth
    <3>2. Blank \in Line /\ Blank.net = Gross - Blank.advance - Blank.shortage
      BY <1>1 DEF Blank, Line
    <3>3. runs[m] \notin Settled
      BY <3>1 DEF Settled
    <3>4. PICK b : b = Blank
      OBVIOUS
    <3>5. /\ lines' = [lines EXCEPT ![m] = [e \in Employee |-> b]]
          /\ b \in Line /\ b.net = Gross - b.advance - b.shortage
      BY <3>1, <3>2, <3>4
    <3>. QED BY <1>1, <3>3, <3>5 DEF PayrollTypeOK
  <2>2. ASSUME NEW s \in Session, SetDeductionsWrite(s)
        PROVE  /\ lines' \in [Month -> [Employee -> Line]]
               /\ \A m \in Month, e \in Employee : lines'[m][e] = lines[m][e] \/
                     (~ mainPC => /\ runs[m] \notin Settled
                                  /\ lines'[m][e].net
                                       = Gross - lines'[m][e].advance - lines'[m][e].shortage)
    <3>1. PICK j : j = job[s]
      OBVIOUS
    <3>2. PayrollJob(j) /\ j.kind = "deductions"
      BY <2>2, <3>1 DEF SetDeductionsWrite, Runs, PayrollInv
    <3>3. PICK r : r = Merge(lines[j.month][j.employee], j.old, j.new)
      OBVIOUS
    <3>4. /\ j.month \in Month /\ j.employee \in Employee
          /\ j.old \in Line /\ j.new \in Line
          /\ j.new.net = Gross - j.new.advance - j.new.shortage
          /\ ~ mainPC => runs[j.month] = "draft" /\ j.old = lines[j.month][j.employee]
      BY <3>2 DEF PayrollJob
    <3>5. lines[j.month][j.employee] \in Line
      BY <1>1, <3>4 DEF PayrollTypeOK
    <3>6. r \in Line /\ (~ mainPC => r = j.new)
      BY <3>3, <3>4, <3>5, MergedLine
    <3>7. lines' = [lines EXCEPT ![j.month][j.employee] = r]
      BY <2>2, <3>1, <3>3 DEF SetDeductionsWrite
    <3>8. "draft" \notin Settled
      BY DEF Settled
    <3>. QED BY <1>1, <3>4, <3>6, <3>7, <3>8 DEF PayrollTypeOK
  <2>. QED BY <2>1, <2>2
<1>5. LinesInv'
  <2> SUFFICES ASSUME ~ mainPC, NEW m \in Month, NEW e \in Employee
               PROVE  /\ lines'[m][e].net = Gross - lines'[m][e].advance - lines'[m][e].shortage
                      /\ \A i, k \in Active(payments, m, e) : i = k
                      /\ \A i \in Active(payments, m, e) :
                            payments[m][e][i].amount = lines'[m][e].net
    BY <1>2 DEF LinesInv, Active
  <2>1. CASE lines'[m][e] = lines[m][e]
    BY <1>1, <2>1 DEF PayrollTables, LinesInv
  <2>2. CASE lines'[m][e] # lines[m][e]
    <3>1. Active(payments, m, e) = {}
      BY <1>1, <1>4, <2>2, NothingPaidYet
    <3>. QED BY <1>4, <2>2, <3>1
  <2>. QED BY <2>1, <2>2
<1>6. PaidAfterApproval' /\ PaidMeansPaid'
  BY <1>1, <1>2, <1>3 DEF PayrollTables, PaidAfterApproval, PaidMeansPaid, AllPaid,
                          Active, Settled
<1>7. PayrollTables'
  BY <1>1, <1>2, <1>3, <1>4, <1>5, <1>6 DEF PayrollTables, PayrollTypeOK, AdvancesInv
<1>8. RowsGoOn
  BY <1>2, <1>3 DEF RowsGoOn, Settled
<1>. QED BY <1>2, <1>7, <1>8

\* approve_month.
LEMMA MonthApproved ==
    ASSUME PayrollInv, NEW s \in Session, ApproveWrite(s)
    PROVE  PayrollTables' /\ RowsGoOn
<1>1. UNCHANGED <<mainPC, month, advances, lines, payments, shortages>>
  BY DEF ApproveWrite, End
<1>2. PICK m \in Month : runs' = [runs EXCEPT ![m] = "approved"]
  <2>1. PayrollJob(job[s]) /\ job[s].kind = "approve"
    BY DEF ApproveWrite, Runs, PayrollInv
  <2>. QED BY <2>1 DEF ApproveWrite, PayrollJob
<1>3. runs \in [Month -> {"none", "draft"} \cup Settled]
  BY DEF PayrollInv, PayrollTables, PayrollTypeOK
<1>4. /\ runs' \in [Month -> {"none", "draft"} \cup Settled]
      /\ \A k \in Month : runs'[k] = runs[k] \/ runs'[k] = "approved"
  BY <1>2, <1>3 DEF Settled
<1>5. PaidAfterApproval' /\ PaidMeansPaid'
  BY <1>1, <1>4 DEF PayrollInv, PayrollTables, PaidAfterApproval, PaidMeansPaid, AllPaid,
                    Active, Settled
<1>6. PayrollTables'
  BY <1>1, <1>4, <1>5 DEF PayrollInv, PayrollTables, PayrollTypeOK, AdvancesInv, LinesInv,
                          Active
<1>7. RowsGoOn
  BY <1>1, <1>4 DEF RowsGoOn, Settled
<1>. QED BY <1>6, <1>7

\* mark_paid: of two that pay one line at once, on the Main PC, both rows stay.
LEMMA LinePaid ==
    ASSUME PayrollInv, NEW s \in Session, PayWrite(s)
    PROVE  PayrollTables' /\ RowsGoOn
<1>1. PayrollTables /\ PayrollTypeOK /\ mainPC \in BOOLEAN
  BY DEF PayrollInv, PayrollTables, PayrollTypeOK
<1>2. PICK j : j = job[s]
  OBVIOUS
<1>3. PayrollJob(j) /\ j.kind = "pay"
  BY <1>2 DEF PayWrite, Runs, PayrollInv
<1>4. PICK m \in Month, e \in Employee : m = j.month /\ e = j.employee
  BY <1>3 DEF PayrollJob
<1>5. /\ j.amount \in -Gross .. Gross /\ runs[m] \in Settled
      /\ ~ mainPC => Active(payments, m, e) = {} /\ j.amount = lines[m][e].net
  BY <1>3, <1>4 DEF PayrollJob
<1>6. PICK r : r = [amount |-> j.amount, status |-> "active"]
  OBVIOUS
<1>7. r \in PaymentRow /\ r.status = "active" /\ r.amount = j.amount
  BY <1>5, <1>6 DEF PaymentRow
<1>8. /\ payments' = [payments EXCEPT ![m][e] = Append(@, r)]
      /\ runs' = IF AllPaid(m, payments') /\ j.status # "paid"
                 THEN [runs EXCEPT ![m] = "paid"] ELSE runs
      /\ UNCHANGED <<mainPC, month, advances, lines, shortages>>
  BY <1>2, <1>4, <1>6 DEF PayWrite, End
<1>9. PICK p : p = payments[m][e]
  OBVIOUS
<1>10. p \in Seq(PaymentRow) /\ Append(p, r) \in Seq(PaymentRow)
  BY <1>1, <1>7, <1>9 DEF PayrollTypeOK
<1>11. /\ payments' \in [Month -> [Employee -> Seq(PaymentRow)]]
       /\ payments'[m][e] = Append(p, r)
       /\ \A k \in Month, x \in Employee :
             k # m \/ x # e => payments'[k][x] = payments[k][x]
  BY <1>1, <1>8, <1>9, <1>10 DEF PayrollTypeOK
<1>12. /\ DOMAIN payments'[m][e] = DOMAIN p \cup {Len(p) + 1}
       /\ payments'[m][e][Len(p) + 1] = r
       /\ \A i \in DOMAIN p : payments'[m][e][i] = p[i]
       /\ Len(p) + 1 \notin DOMAIN p
  BY <1>10, <1>11
<1>13. Active(payments', m, e) = Active(payments, m, e) \cup {Len(p) + 1}
  BY <1>7, <1>9, <1>12 DEF Active
<1>14. \A k \in Month, x \in Employee :
          k # m \/ x # e => Active(payments', k, x) = Active(payments, k, x)
  BY <1>11 DEF Active
<1>15. /\ runs' \in [Month -> {"none", "draft"} \cup Settled]
       /\ \A k \in Month : runs'[k] = runs[k] \/ (k = m /\ runs'[k] = "paid"
                                                  /\ AllPaid(m, payments'))
  <2>1. runs \in [Month -> {"none", "draft"} \cup Settled]
    BY <1>1 DEF PayrollTypeOK
  <2>2. CASE runs' = runs
    BY <2>1, <2>2
  <2>3. CASE AllPaid(m, payments') /\ runs' = [runs EXCEPT ![m] = "paid"]
    BY <2>1, <2>3 DEF Settled
  <2>. QED BY <1>8, <2>2, <2>3
<1>16. PaidMeansPaid'
  <2> SUFFICES ASSUME NEW k \in Month, runs'[k] = "paid" PROVE AllPaid(k, payments')
    BY DEF PaidMeansPaid
  <2>1. CASE runs[k] = "paid"
    <3>1. AllPaid(k, payments)
      BY <1>1, <2>1 DEF PayrollTables, PaidMeansPaid
    <3>. QED BY <1>13, <1>14, <3>1 DEF AllPaid
  <2>2. CASE runs[k] # "paid"
    BY <1>15, <2>2
  <2>. QED BY <2>1, <2>2
<1>17. PaidAfterApproval'
  <2> SUFFICES ASSUME NEW k \in Month, NEW x \in Employee, payments'[k][x] # <<>>
               PROVE  runs'[k] \in Settled
    BY DEF PaidAfterApproval
  <2>1. runs[k] \in Settled
    BY <1>1, <1>5, <1>11 DEF PayrollTables, PaidAfterApproval
  <2>. QED BY <1>15, <2>1 DEF Settled
<1>18. LinesInv'
  <2> SUFFICES ASSUME ~ mainPC, NEW k \in Month, NEW x \in Employee
               PROVE  /\ lines[k][x].net = Gross - lines[k][x].advance - lines[k][x].shortage
                      /\ \A i, l \in Active(payments', k, x) : i = l
                      /\ \A i \in Active(payments', k, x) :
                            payments'[k][x][i].amount = lines[k][x].net
    BY <1>8 DEF LinesInv, Active
  <2>1. CASE k = m /\ x = e
    <3>1. Active(payments', m, e) = {Len(p) + 1}
      BY <1>5, <1>13
    <3>. QED BY <1>1, <1>5, <1>7, <1>12, <2>1, <3>1 DEF PayrollTables, LinesInv
  <2>2. CASE k # m \/ x # e
    <3>1. payments'[k][x] = payments[k][x] /\ Active(payments', k, x) = Active(payments, k, x)
      BY <1>11, <1>14, <2>2
    <3>2. /\ lines[k][x].net = Gross - lines[k][x].advance - lines[k][x].shortage
          /\ \A i, l \in Active(payments, k, x) : i = l
          /\ \A i \in Active(payments, k, x) : payments[k][x][i].amount = lines[k][x].net
      BY <1>1 DEF PayrollTables, LinesInv
    <3>. QED BY <3>1, <3>2
  <2>. QED BY <2>1, <2>2
<1>19. PayrollTables'
  BY <1>1, <1>8, <1>11, <1>15, <1>16, <1>17, <1>18 DEF PayrollTables, PayrollTypeOK, AdvancesInv
<1>20. RowsGoOn
  <2>1. \A k \in Month, x \in Employee : DOMAIN payments[k][x] \subseteq DOMAIN payments'[k][x]
    BY <1>9, <1>11, <1>12
  <2>. QED BY <1>8, <1>15, <2>1 DEF RowsGoOn, Settled
<1>. QED BY <1>19, <1>20

\* void_payment: a month that was paid in full is not any more.
LEMMA PaymentVoided ==
    ASSUME PayrollInv, NEW s \in Session, VoidPaymentWrite(s)
    PROVE  PayrollTables' /\ RowsGoOn
<1>1. PayrollTables /\ PayrollTypeOK /\ mainPC \in BOOLEAN
  BY DEF PayrollInv, PayrollTables, PayrollTypeOK
<1>2. PICK j : j = job[s]
  OBVIOUS
<1>3. PayrollJob(j) /\ j.kind = "void payment"
  BY <1>2 DEF VoidPaymentWrite, Runs, PayrollInv
<1>4. PICK m \in Month, e \in Employee, n \in {j.row} : m = j.month /\ e = j.employee
  BY <1>3 DEF PayrollJob
<1>5. PICK p : p = payments[m][e]
  OBVIOUS
<1>6. p \in Seq(PaymentRow) /\ n \in DOMAIN p /\ p[n] \in PaymentRow
  <2>1. n \in DOMAIN p
    BY <1>3, <1>4, <1>5 DEF PayrollJob
  <2>2. p \in Seq(PaymentRow)
    BY <1>1, <1>5 DEF PayrollTypeOK
  <2>. QED BY <2>1, <2>2
<1>7. PICK r : r = [p[n] EXCEPT !.status = "void"]
  OBVIOUS
<1>8. r \in PaymentRow /\ r.status = "void"
  BY <1>6, <1>7 DEF PaymentRow
<1>9. /\ payments' = [payments EXCEPT ![m][e] = [p EXCEPT ![n] = r]]
      /\ runs' = [runs EXCEPT ![m] = Reopened(m)]
      /\ UNCHANGED <<mainPC, month, advances, lines, shortages>>
  BY <1>1, <1>2, <1>4, <1>5, <1>7 DEF VoidPaymentWrite, End, PayrollTypeOK
<1>10. [p EXCEPT ![n] = r] \in Seq(PaymentRow)
  BY <1>6, <1>8
<1>11. /\ payments' \in [Month -> [Employee -> Seq(PaymentRow)]]
       /\ payments'[m][e] = [p EXCEPT ![n] = r]
       /\ \A k \in Month, x \in Employee :
             k # m \/ x # e => payments'[k][x] = payments[k][x]
  BY <1>1, <1>9, <1>10 DEF PayrollTypeOK
<1>12. /\ DOMAIN payments'[m][e] = DOMAIN p
       /\ \A i \in DOMAIN p : payments'[m][e][i] = IF i = n THEN r ELSE p[i]
  BY <1>6, <1>11
<1>13. Active(payments', m, e) = Active(payments, m, e) \ {n}
  BY <1>5, <1>8, <1>12 DEF Active
<1>14. \A k \in Month, x \in Employee :
          k # m \/ x # e => Active(payments', k, x) = Active(payments, k, x)
  BY <1>11 DEF Active
<1>15. /\ runs' \in [Month -> {"none", "draft"} \cup Settled]
       /\ runs'[m] # "paid"
       /\ \A k \in Month : k # m => runs'[k] = runs[k]
       /\ runs[m] \in Settled => runs'[m] \in Settled
  <2>1. runs \in [Month -> {"none", "draft"} \cup Settled]
    BY <1>1 DEF PayrollTypeOK
  <2>2. Reopened(m) = IF runs[m] = "paid" THEN "approved" ELSE runs[m]
    BY DEF Reopened
  <2>. QED BY <1>9, <2>1, <2>2 DEF Settled
<1>16. PaidMeansPaid'
  <2> SUFFICES ASSUME NEW k \in Month, runs'[k] = "paid" PROVE AllPaid(k, payments')
    BY DEF PaidMeansPaid
  <2>1. k # m /\ runs[k] = "paid"
    BY <1>15
  <2>2. AllPaid(k, payments)
    BY <1>1, <2>1 DEF PayrollTables, PaidMeansPaid
  <2>. QED BY <1>14, <2>1, <2>2 DEF AllPaid
<1>17. PaidAfterApproval'
  <2> SUFFICES ASSUME NEW k \in Month, NEW x \in Employee, payments'[k][x] # <<>>
               PROVE  runs'[k] \in Settled
    BY DEF PaidAfterApproval
  <2>1. payments[k][x] # <<>>
    <3>1. p # <<>>
      BY <1>6
    <3>. QED BY <1>5, <1>11, <3>1
  <2>2. runs[k] \in Settled
    BY <1>1, <2>1 DEF PayrollTables, PaidAfterApproval
  <2>. QED BY <1>15, <2>2
<1>18. LinesInv'
  <2> SUFFICES ASSUME ~ mainPC, NEW k \in Month, NEW x \in Employee
               PROVE  /\ lines[k][x].net = Gross - lines[k][x].advance - lines[k][x].shortage
                      /\ \A i, l \in Active(payments', k, x) : i = l
                      /\ \A i \in Active(payments', k, x) :
                            payments'[k][x][i].amount = lines[k][x].net
    BY <1>9 DEF LinesInv, Active
  <2>1. CASE k = m /\ x = e
    <3>1. \A i \in Active(payments', m, e) : payments'[m][e][i] = payments[m][e][i]
      BY <1>5, <1>12, <1>13 DEF Active
    <3>. QED BY <1>1, <1>13, <2>1, <3>1 DEF PayrollTables, LinesInv
  <2>2. CASE k # m \/ x # e
    <3>1. payments'[k][x] = payments[k][x] /\ Active(payments', k, x) = Active(payments, k, x)
      BY <1>11, <1>14, <2>2
    <3>2. /\ lines[k][x].net = Gross - lines[k][x].advance - lines[k][x].shortage
          /\ \A i, l \in Active(payments, k, x) : i = l
          /\ \A i \in Active(payments, k, x) : payments[k][x][i].amount = lines[k][x].net
      BY <1>1 DEF PayrollTables, LinesInv
    <3>. QED BY <3>1, <3>2
  <2>. QED BY <2>1, <2>2
<1>19. PayrollTables'
  BY <1>1, <1>9, <1>11, <1>15, <1>16, <1>17, <1>18 DEF PayrollTables, PayrollTypeOK, AdvancesInv
<1>20. RowsGoOn
  <2>1. ASSUME NEW k \in Month, NEW x \in Employee
        PROVE  DOMAIN payments[k][x] \subseteq DOMAIN payments'[k][x]
    <3>1. CASE k = m /\ x = e
      BY <1>5, <1>12, <3>1
    <3>2. CASE k # m \/ x # e
      BY <1>11, <3>2
    <3>. QED BY <3>1, <3>2
  <2>. QED BY <1>9, <1>15, <2>1 DEF RowsGoOn
<1>. QED BY <1>19, <1>20

\* What was given by a month is no less by a later one.
LEMMA GivenGrows ==
    ASSUME advances \subseteq AdvanceRow, IsFiniteSet(advances), NEW e, NEW x,
           NEW m \in Nat, NEW n \in Nat, m <= n
    PROVE  /\ Given(e, m, x) \in Int /\ Given(e, n, x) \in Int
           /\ Given(e, m, x) <= Given(e, n, x)
<1>. DEFINE S(k) == {a \in advances : /\ a.employee = e /\ a.status = "active"
                                      /\ a.on <= k /\ a.id # x}
            f(k) == [a \in S(k) |-> a.amount]
<1>1. \A a \in advances : a.amount \in Nat /\ a.on \in Int
  BY PayrollAssumption DEF AdvanceRow, Month
<1>2. S(m) \subseteq S(n)
  BY <1>1
<1>3. IsFiniteSet(S(m)) /\ IsFiniteSet(S(n))
  BY FS_Subset
<1>4. /\ \A a \in S(n) : f(n)[a] \in Nat
      /\ \A a \in S(m) : f(m)[a] = f(n)[a] /\ f(m)[a] \in Nat
  BY <1>1, <1>2
<1>5. /\ Given(e, m, x) = SumFunctionOnSet(f(m), S(m))
      /\ Given(e, n, x) = SumFunctionOnSet(f(n), S(n))
  BY DEF Given, SumFunction
<1>. HIDE DEF S, f
<1>6. SumFunctionOnSet(f(m), S(m)) \in Int /\ SumFunctionOnSet(f(n), S(n)) \in Int
  BY <1>3, <1>4, SumIsInt
<1>7. SumFunctionOnSet(f(m), S(m)) <= SumFunctionOnSet(f(n), S(n))
  BY <1>2, <1>3, <1>4, SumOfMore
<1>. QED BY <1>5, <1>6, <1>7

\* What approved salaries have recovered is a whole amount.
LEMMA RecoveredIsInt ==
    ASSUME PayrollTypeOK, NEW e \in Employee
    PROVE  Recovered(e) \in Int
<1>. DEFINE S == {k \in Month : k < LastMonth + 1 /\ runs[k] \in Settled}
            f == [k \in S |-> lines[k][e]["advance"]]
<1>1. IsFiniteSet(Month)
  BY PayrollAssumption, FS_Interval DEF Month
<1>2. IsFiniteSet(S)
  BY <1>1, FS_Subset
<1>3. \A k \in S : f[k] \in Int
  BY DEF PayrollTypeOK, Line
<1>4. Recovered(e) = SumFunctionOnSet(f, S)
  BY DEF Recovered, TakenBefore, SumFunction
<1>. HIDE DEF f, S
<1>. QED BY <1>2, <1>3, <1>4, SumIsInt

\* A month begins while requests run: what a void may rely on stays.
LEMMA MonthBegins ==
    ASSUME PayrollInv, NextMonth
    PROVE  PayrollInv'
<1>1. PayrollTables /\ PayrollTypeOK /\ AdvancesInv /\ month \in Month
  BY DEF PayrollInv, PayrollTables, PayrollTypeOK
<1>2. UNCHANGED <<mainPC, job, advances, runs, lines, payments, shortages>>
  BY DEF NextMonth, deskVars
<1>3. month' \in Month /\ month \in Nat /\ month' \in Nat /\ month <= month'
  BY <1>1, PayrollAssumption DEF NextMonth, Month
<1>4. DesksInv'
  BY <1>2 DEF DesksInv, PayrollInv
<1>5. PayrollTables'
  BY <1>1, <1>2, <1>3 DEF PayrollTables, PayrollTypeOK, AdvancesInv, LinesInv, Active,
              PaidAfterApproval, PaidMeansPaid, AllPaid
<1>6. ASSUME NEW a \in AdvanceRow, VoidAllowed(a) PROVE VoidAllowed(a)'
  <2>1. /\ Given(a.employee, month, a.id) \in Int /\ Given(a.employee, month', a.id) \in Int
        /\ Given(a.employee, month, a.id) <= Given(a.employee, month', a.id)
    BY <1>1, <1>3, GivenGrows DEF PayrollTypeOK, AdvancesInv
  <2>2. Recovered(a.employee) \in Int
    BY <1>1, RecoveredIsInt DEF AdvanceRow
  <2>3. VoidAllowed(a)' = (Given(a.employee, month', a.id) - Recovered(a.employee) >= 0)
    BY <1>2 DEF VoidAllowed, Given, Recovered, TakenBefore
  <2>. QED BY <1>6, <2>1, <2>2, <2>3 DEF VoidAllowed
<1>7. ASSUME NEW t \in Session, job[t] # Idle PROVE PayrollJob(job[t])'
  <2>1. PICK j : j = job[t]
    OBVIOUS
  <2>2. PayrollJob(j)
    BY <1>7, <2>1 DEF PayrollInv
  <2>3. (~ mainPC)' = (~ mainPC) /\ job' = job
    BY <1>2
  <2>4. Active(payments, j.month, j.employee)' = Active(payments, j.month, j.employee)
    BY <1>2 DEF Active
  <2>5. PayrollJob(j)'
    BY <1>2, <1>6, <2>2, <2>3, <2>4 DEF PayrollJob
  <2>. QED BY <2>1, <2>3, <2>5 DEF PayrollJob
<1>. QED BY <1>2, <1>4, <1>5, <1>7 DEF PayrollInv

\* A request that commits at once finds no other in one window, and leaves the
\* others what they rely on.
LEMMA PayrollBeside ==
    ASSUME PayrollInv, AtOnce, PayrollTables', RowsGoOn
    PROVE  PayrollInv'
<1>1. /\ UNCHANGED <<mainPC, job>> /\ DesksInv'
      /\ mainPC \/ \A s \in Session : job[s] = Idle
  BY DesksStay DEF PayrollInv, AtOnce, deskVars
<1>2. ASSUME NEW t \in Session, job[t] # Idle PROVE PayrollJob(job[t])'
  <2>1. PICK j : j = job[t]
    OBVIOUS
  <2>2. mainPC = TRUE /\ PayrollJob(j)
    BY <1>1, <1>2, <2>1 DEF PayrollInv, DesksInv
  <2>3. PayrollJob(j)'
    BY <1>1, <2>2, PayrollJobKept
  <2>. QED BY <1>1, <2>1, <2>3 DEF PayrollJob
<1>. QED BY <1>1, <1>2 DEF PayrollInv

\* The reads: what each request goes on with is what the tables say.
LEMMA PayrollReads ==
    ASSUME PayrollInv, NEW s \in Session,
           \/ VoidAdvanceRead(s) \/ SetDeductionsRead(s) \/ ApproveRead(s)
           \/ PayRead(s) \/ VoidPaymentRead(s)
    PROVE  PayrollInv'
<1>. SUFFICES \E j : Begin(s, j) /\ PayrollJob(j) /\ UNCHANGED payrollVars
  BY PayrollRead
<1>1. PayrollTypeOK /\ Gross \in Nat
  BY PayrollAssumption DEF PayrollInv, PayrollTables
<1>2. CASE VoidAdvanceRead(s)
  <2>1. PICK a \in advances :
          /\ a.status = "active" /\ VoidAllowed(a)
          /\ Begin(s, [kind |-> "void advance", key |-> NoRecord, advance |-> a])
    BY <1>2 DEF VoidAdvanceRead
  <2>2. a \in AdvanceRow
    BY <1>1 DEF PayrollTypeOK
  <2>. QED BY <1>2, <2>1, <2>2 DEF VoidAdvanceRead, PayrollJob
<1>3. CASE SetDeductionsRead(s)
  <2>1. PICK m \in Month, e \in Employee, adv \in 0 .. Gross, short \in 0 .. Gross :
          /\ MayType(m)
          /\ Begin(s, [kind |-> "deductions", key |-> NoRecord, month |-> m,
                       employee |-> e, old |-> lines[m][e],
                       new |-> [advance |-> adv, shortage |-> short,
                                net |-> Gross - adv - short]])
    BY <1>3 DEF SetDeductionsRead
  <2>2. PICK old, new :
          /\ old = lines[m][e]
          /\ new = [advance |-> adv, shortage |-> short, net |-> Gross - adv - short]
    OBVIOUS
  <2>3. old \in Line /\ new \in Line /\ new.net = Gross - new.advance - new.shortage
    BY <1>1, <2>2 DEF PayrollTypeOK, Line
  <2>. DEFINE j == [kind |-> "deductions", key |-> NoRecord, month |-> m,
                    employee |-> e, old |-> old, new |-> new]
  <2>4. PayrollJob(j)
    BY <2>1, <2>2, <2>3 DEF PayrollJob, MayType
  <2>. QED BY <1>3, <2>1, <2>2, <2>4 DEF SetDeductionsRead
<1>4. CASE ApproveRead(s)
  <2>1. PICK m \in Month : Begin(s, [kind |-> "approve", key |-> NoRecord, month |-> m])
    BY <1>4 DEF ApproveRead
  <2>. QED BY <1>4, <2>1 DEF ApproveRead, PayrollJob
<1>5. CASE PayRead(s)
  <2>1. PICK m \in Month, e \in Employee :
          /\ MayPay(m, e)
          /\ Begin(s, [kind |-> "pay", key |-> NoRecord, month |-> m, employee |-> e,
                       amount |-> lines[m][e].net, status |-> runs[m]])
    BY <1>5 DEF PayRead
  <2>2. lines[m][e].net \in -Gross .. Gross
    BY <1>1 DEF PayrollTypeOK, Line
  <2>. QED BY <1>5, <2>1, <2>2 DEF PayRead, PayrollJob, MayPay
<1>6. CASE VoidPaymentRead(s)
  <2>1. PICK m \in Month, e \in Employee : \E i \in Active(payments, m, e) :
          Begin(s, [kind |-> "void payment", key |-> NoRecord, month |-> m,
                    employee |-> e, row |-> i])
    BY <1>6 DEF VoidPaymentRead
  <2>. QED BY <1>6, <2>1 DEF VoidPaymentRead, PayrollJob, Active
<1>. QED BY <1>2, <1>3, <1>4, <1>5, <1>6

\* A row that a step makes void was not voided before, and is then what
\* void_advance looked at.
LEMMA OnlyVoidVoids ==
    ASSUME PayrollInv, PayrollNext, NEW a \in advances, a.status = "active",
           [a EXCEPT !.status = "void"] \in advances', ~ mainPC
    PROVE  Given(a.employee, month, a.id) >= Recovered(a.employee)
<1>. DEFINE v == [a EXCEPT !.status = "void"]
<1>1. a \in AdvanceRow /\ advances \subseteq AdvanceRow /\ AdvancesInv
  BY DEF PayrollInv, PayrollTables, PayrollTypeOK
<1>2. v \in AdvanceRow /\ v.status = "void" /\ v.id = a.id /\ v.employee = a.employee
  BY <1>1 DEF AdvanceRow
<1>3. v \notin advances
  BY <1>1, <1>2 DEF AdvancesInv
<1>4. PICK s \in Session : VoidAdvanceWrite(s)
  <2>1. ASSUME RecordAdvance PROVE FALSE
    <3>1. PICK r : r.status = "active" /\ advances' = advances \cup {r}
      BY <2>1 DEF RecordAdvance
    <3>. QED BY <1>2, <1>3, <3>1
  <2>2. ASSUME advances' = advances PROVE FALSE
    BY <1>3, <2>2
  <2>3. /\ RecordShortage \/ RecordRecovery \/ PrepareMonth \/ NextMonth
             => advances' = advances
        /\ \A s \in Session :
              \/ VoidAdvanceRead(s) \/ SetDeductionsRead(s) \/ SetDeductionsWrite(s)
              \/ ApproveRead(s) \/ ApproveWrite(s) \/ PayRead(s) \/ PayWrite(s)
              \/ VoidPaymentRead(s) \/ VoidPaymentWrite(s)
              \/ GiveUp(s) /\ UNCHANGED payrollVars
            => advances' = advances
    BY DEF RecordShortage, RecordRecovery, PrepareMonth, NextMonth, payrollVars,
           VoidAdvanceRead, SetDeductionsRead, SetDeductionsWrite, ApproveRead,
           ApproveWrite, PayRead, PayWrite, VoidPaymentRead, VoidPaymentWrite
  <2>. QED BY <2>1, <2>2, <2>3 DEF PayrollNext
<1>5. PICK b : b = job[s].advance
  OBVIOUS
<1>6. b \in AdvanceRow /\ VoidAllowed(b)
  <2>1. PayrollJob(job[s]) /\ job[s].kind = "void advance"
    BY <1>4 DEF VoidAdvanceWrite, Runs, PayrollInv
  <2>. QED BY <1>5, <2>1 DEF PayrollJob
<1>7. advances' = (advances \ {b}) \cup {[b EXCEPT !.status = "void"]}
  BY <1>4, <1>5 DEF VoidAdvanceWrite
<1>8. v = [b EXCEPT !.status = "void"]
  BY <1>3, <1>7
<1>9. [b EXCEPT !.status = "void"].id = b.id /\ [b EXCEPT !.status = "void"].employee = b.employee
  BY <1>6 DEF AdvanceRow
<1>10. a.id = b.id /\ a.employee = b.employee
  BY <1>2, <1>8, <1>9
<1>11. Given(a.employee, month, a.id) \in Int /\ Recovered(a.employee) \in Int
  <2>1. month \in Nat /\ month <= month
    BY PayrollAssumption DEF PayrollInv, PayrollTables, PayrollTypeOK, Month
  <2>. QED BY <1>1, <2>1, GivenGrows, RecoveredIsInt
           DEF PayrollInv, PayrollTables, AdvancesInv, AdvanceRow
<1>. QED BY <1>6, <1>10, <1>11 DEF VoidAllowed

\* At the start nothing is given, prepared or paid.
LEMMA PayrollStart ==
    ASSUME DesksInit, PayrollInit
    PROVE  PayrollInv
<1>1. DesksInv /\ \A s \in Session : job[s] = Idle
  BY DesksStart DEF DesksInit
<1>2. Gross \in Nat /\ 1 \in Month
  BY PayrollAssumption DEF Month
<1>3. \A m \in Month, e \in Employee :
         payments[m][e] = <<>> /\ Active(payments, m, e) = {}
  BY DEF PayrollInit, Active
<1>4. Blank \in Line /\ Blank.net = Gross - Blank.advance - Blank.shortage
  BY <1>2 DEF Blank, Line
<1>5. PayrollTypeOK
  BY <1>1, <1>2, <1>4 DEF PayrollTypeOK, PayrollInit, DesksInv
<1>6. LinesInv
  <2>1. PICK b : b = Blank
    OBVIOUS
  <2>2. \A m \in Month, e \in Employee : lines[m][e] = b
    BY <2>1 DEF PayrollInit
  <2>. QED BY <1>3, <1>4, <2>1, <2>2 DEF LinesInv
<1>7. PaidAfterApproval /\ PaidMeansPaid /\ AdvancesInv
  <2>1. AdvancesInv
    BY FS_EmptySet DEF PayrollInit, AdvancesInv
  <2>. QED BY <1>3, <2>1 DEF PaidAfterApproval, PaidMeansPaid, PayrollInit
<1>. QED BY <1>1, <1>5, <1>6, <1>7 DEF PayrollInv, PayrollTables

\* Every step keeps all of it.
LEMMA PayrollInductive ==
    /\ DesksInit /\ PayrollInit => PayrollInv
    /\ PayrollInv /\ [PayrollNext]_<<deskVars, payrollVars>> => PayrollInv'
<1>1. DesksInit /\ PayrollInit => PayrollInv
  BY PayrollStart
<1>2. PayrollInv /\ [PayrollNext]_<<deskVars, payrollVars>> => PayrollInv'
  <2> SUFFICES ASSUME PayrollInv, [PayrollNext]_<<deskVars, payrollVars>>
               PROVE  PayrollInv'
    OBVIOUS
  <2>1. CASE UNCHANGED <<deskVars, payrollVars>>
    <3>1. /\ UNCHANGED <<mainPC, job>> /\ DesksInv' /\ UNCHANGED payrollVars
      BY <2>1, DesksStay DEF deskVars, PayrollInv
    <3>2. ASSUME NEW t \in Session, job[t] # Idle PROVE PayrollJob(job[t])'
      <4>1. PICK j : j = job[t]
        OBVIOUS
      <4>2. PayrollJob(j)'
        BY <3>1, <3>2, <4>1, PayrollTablesStay DEF PayrollInv
      <4>. QED BY <3>1, <4>1, <4>2 DEF PayrollJob
    <3>. QED BY <3>1, <3>2, PayrollTablesStay DEF PayrollInv
  <2>2. CASE RecordAdvance
    BY <2>2, AdvanceWritten, PayrollBeside DEF RecordAdvance
  <2>3. CASE RecordShortage \/ RecordRecovery
    BY <2>3, ShortageWritten, PayrollBeside DEF RecordShortage, RecordRecovery
  <2>4. CASE PrepareMonth
    BY <2>4, LinesWritten, PayrollBeside DEF PrepareMonth
  <2>5. CASE NextMonth
    BY <2>5, MonthBegins
  <2>6. ASSUME NEW s \in Session,
               \/ VoidAdvanceRead(s) \/ SetDeductionsRead(s) \/ ApproveRead(s)
               \/ PayRead(s) \/ VoidPaymentRead(s)
        PROVE  PayrollInv'
    BY <2>6, PayrollReads
  <2>7. ASSUME NEW s \in Session, VoidAdvanceWrite(s) PROVE PayrollInv'
    BY <2>7, AdvanceWritten, PayrollEnd DEF VoidAdvanceWrite, Runs
  <2>8. ASSUME NEW s \in Session, SetDeductionsWrite(s) PROVE PayrollInv'
    BY <2>8, LinesWritten, PayrollEnd DEF SetDeductionsWrite, Runs
  <2>9. ASSUME NEW s \in Session, ApproveWrite(s) PROVE PayrollInv'
    BY <2>9, MonthApproved, PayrollEnd DEF ApproveWrite, Runs
  <2>10. ASSUME NEW s \in Session, PayWrite(s) PROVE PayrollInv'
    BY <2>10, LinePaid, PayrollEnd DEF PayWrite, Runs
  <2>11. ASSUME NEW s \in Session, VoidPaymentWrite(s) PROVE PayrollInv'
    BY <2>11, PaymentVoided, PayrollEnd DEF VoidPaymentWrite, Runs
  <2>12. ASSUME NEW s \in Session, GiveUp(s), UNCHANGED payrollVars PROVE PayrollInv'
    <3>1. job[s] # Idle /\ End(s) /\ mainPC' = mainPC
      BY <2>12 DEF GiveUp, End
    <3>2. PayrollTables'
      BY <2>12, <3>1, PayrollTablesStay DEF PayrollInv
    <3>3. RowsGoOn
      BY <2>12 DEF RowsGoOn, payrollVars
    <3>. QED BY <3>1, <3>2, <3>3, PayrollEnd
  <2>. QED BY <2>1, <2>2, <2>3, <2>4, <2>5, <2>6, <2>7, <2>8, <2>9, <2>10, <2>11, <2>12
           DEF PayrollNext
<1>. QED BY <1>1, <1>2

\* What payroll_service.py is trusted with: a month is paid after its approval,
\* in full and, in one window, once and as its lines say, and there an advance
\* that salaries have recovered is not undone.
THEOREM SalaryIsPaid == PayrollSpec => SalaryIsPaidAsApproved
<1>1. PayrollInv => PaidAfterApproval /\ PaidMeansPaid
  BY DEF PayrollInv, PayrollTables
<1>2. PayrollInv => PaidWhatTheLineSays
  <2> SUFFICES ASSUME PayrollInv, ~ mainPC, NEW m \in Month, NEW e \in Employee
               PROVE  Cardinality(Active(payments, m, e)) <= 1
    BY DEF PayrollInv, PayrollTables, LinesInv, PaidWhatTheLineSays
  <2>1. PICK A : A = Active(payments, m, e)
    OBVIOUS
  <2>2. \A i, k \in A : i = k
    BY <2>1 DEF PayrollInv, PayrollTables, LinesInv
  <2>3. Cardinality(A) <= 1
    <3>1. CASE A = {}
      BY <3>1, FS_EmptySet
    <3>2. CASE A # {}
      <4>1. PICK i : A = {i}
        BY <2>2, <3>2
      <4>2. Cardinality(A) = 1
        BY <4>1, FS_Singleton
      <4>. QED BY <4>2
    <3>. QED BY <3>1, <3>2
  <2>. QED BY <2>1, <2>3
<1>3. PayrollInv /\ [PayrollNext]_<<deskVars, payrollVars>>
        => [~ mainPC => \A a \in advances :
              a.status = "active" /\ [a EXCEPT !.status = "void"] \in advances'
                => Given(a.employee, month, a.id) >= Recovered(a.employee)
           ]_<<deskVars, payrollVars>>
  BY OnlyVoidVoids
<1>. QED BY <1>1, <1>2, <1>3, PayrollInductive, PTL
         DEF PayrollSpec, SalaryIsPaidAsApproved, VoidKeepsRecovered

-----------------------------------------------------------------------------
(***************************************************************************)
(* Bank reconciliation: a payment and a line of the statement are proposed *)
(* once and matched once, and what an owner has locked stays.              *)
(***************************************************************************)

LineNo == 1 .. MaxLines
Charge == 0 .. MaxTransfer * MaxSources

\* A line of a statement, and the record behind an expected payment.
IsLine(l) ==
    /\ l.id \in LineNo /\ l.date \in Int /\ l.credit \in Nat /\ l.debit \in Nat
    /\ l.credit > 0 \/ l.debit > 0

IsBooked(b) == b # Gone => b \in SourceRow

\* Lines are known by their numbers, and numbers follow.
LinesAreNumbered ==
    /\ IsFiniteSet(bankLines)
    /\ \A l \in bankLines : IsLine(l) /\ l.id <= Cardinality(bankLines)
    /\ \A l, m \in bankLines : l.id = m.id => l = m

\* So are matches.
MatchesAreNumbered(ms) ==
    /\ IsFiniteSet(ms)
    /\ \A m \in ms : m.id \in 1 .. Cardinality(ms)
    /\ \A m, n \in ms : m.id = n.id => m = n

MatchForm == [id : Nat, kind : {"match", "not_ours", "reversal"},
              status : {"suggested", "confirmed", "void"}, locked : BOOLEAN, charges : Charge,
              exps : SUBSET Source, rows : SUBSET LineNo]

\* What is matched is claimed once, and only what is confirmed is locked.
MatchesAreKept(ms) ==
    /\ ms \subseteq MatchForm
    /\ MatchesAreNumbered(ms)
    /\ \A m \in ms : m.locked => m.status = "confirmed"
    /\ \A m, n \in LiveMatches(ms) : m # n =>
          /\ m.exps \cap n.exps = {}
          /\ m.rows \cap n.rows # {} => {m.kind, n.kind} = {"not_ours", "reversal"}

\* What a request that has read goes on with (bank_recon_service.py).  In one
\* window nothing has moved since.
BankJob(j) == ~ mainPC =>
    /\ j.kind = "run" =>
         /\ j.wanted = sources
         /\ j.changed = (Synced(sources, expected) # expected)
         /\ j.pairs \in Seq(LineNo \X LineNo)
         /\ j.proposals = Propose(ToMatch(expected, matches), UnclaimedLines(matches))
    /\ j.kind = "answer" =>
         /\ j.status \in {"confirmed", "void"}
         /\ \A m \in matches : m.id = j.id =>
              /\ j.status = "confirmed" => m.status = "suggested"
              /\ j.status = "void" => ~ m.locked
    /\ j.kind = "lock" =>
         /\ j.locked \in BOOLEAN
         /\ \A m \in matches : m.id = j.id => m.status = "confirmed"
    /\ j.kind = "manual" =>
         /\ j.exps \in SUBSET Source /\ j.rows \in SUBSET LineNo /\ j.charges \in Charge
         /\ MayMatch(j.exps, j.rows)

BankTables ==
    /\ LinesAreNumbered
    /\ DOMAIN sources = Source /\ DOMAIN expected = Source
    /\ \A k \in Source : IsBooked(sources[k])
    /\ ~ mainPC => /\ \A k \in Source : IsBooked(expected[k])
                   /\ MatchesAreKept(matches) /\ Room(matches)

BankInv ==
    /\ DesksInv /\ BankTables
    /\ \A s \in Session : \A j \in {job[s]} : j # Idle => BankJob(j)

-----------------------------------------------------------------------------
(* The rules of bank_matching.py.                                          *)

\* What is expected at the bank, and what a statement has.
AreBooks(E) ==
    /\ IsFiniteSet(E) /\ Cardinality(E) <= MaxSources
    /\ \A e \in E : /\ e.id \in Nat /\ e.from \in Int /\ e.amount \in 1 .. MaxTransfer
                    /\ e.direction \in {"credit", "debit"}
    /\ \A d, e \in E : d.id = e.id => d = e

IsStatement(R) ==
    /\ IsFiniteSet(R)
    /\ \A l \in R : IsLine(l)
    /\ \A l, m \in R : l.id = m.id => l = m

\* A charge that is not more than one that is allowed is allowed.
LEMMA LessIsCharge ==
    /\ MaxTransfer \in Nat /\ MaxSources \in Nat /\ MaxTransfer * MaxSources \in Nat
    /\ 0 \in Charge /\ Charge \subseteq Nat
    /\ \A a \in Charge : \A b \in 0 .. a : a - b \in Charge
<1>1. PICK t, n : /\ t = MaxTransfer /\ n = MaxSources /\ t \in Nat /\ n \in Nat
  BY BankAssumption
<1>2. PICK m \in Nat : m = t * n
  BY <1>1
<1>3. Charge = 0 .. m
  BY <1>1, <1>2 DEF Charge
<1>. QED BY <1>1, <1>2, <1>3

\* The fields of a record behind an expected payment.
LEMMA BookedFields ==
    ASSUME NEW b, IsBooked(b), b # Gone
    PROVE  /\ b.status \in {"active", "void"} /\ b.amount \in 1 .. MaxTransfer
           /\ b.date \in 1 .. LastDate /\ b.reference \in References /\ b.direction \in Directions
           /\ b.amount \in Nat \ {0} /\ b.date \in Int /\ b.direction \in {"credit", "debit"}
<1>1. /\ b.status \in {"active", "void"} /\ b.amount \in 1 .. MaxTransfer
      /\ b.date \in 1 .. LastDate /\ b.reference \in References /\ b.direction \in Directions
  BY DEF IsBooked, SourceRow
<1>2. \A t \in Nat : 1 .. t \subseteq Nat \ {0} /\ 1 .. t \subseteq Int
  OBVIOUS
<1>3. MaxTransfer \in Nat /\ LastDate \in Nat /\ Directions \subseteq {"credit", "debit"}
  BY BankAssumption
<1>. QED BY <1>1, <1>2, <1>3

\* A line's number is one.
LEMMA LineFields ==
    ASSUME NEW l, IsLine(l)
    PROVE  /\ l.id \in LineNo /\ l.id \in Nat /\ l.date \in Int /\ l.credit \in Nat /\ l.debit \in Nat
           /\ l["date"] = l.date
<1>1. MaxLines \in Nat /\ l.id \in LineNo
  BY BankAssumption DEF IsLine
<1>2. l.id \in Nat
  BY <1>1 DEF LineNo
<1>. QED BY <1>1, <1>2 DEF IsLine

\* A list in order has the members of the set, each once.
LEMMA InOrderLists ==
    ASSUME NEW S, IsFiniteSet(S), NEW key, \A x \in S : x[key] \in Int /\ x.id \in Int,
           \A x, y \in S : x.id = y.id => x = y
    PROVE  /\ Cardinality(S) \in Nat /\ Lists(InOrder(S, key), S)
           /\ DOMAIN InOrder(S, key) = 1 .. Cardinality(S)
<1>. DEFINE Before(x, y) == x[key] < y[key] \/ (x[key] = y[key] /\ x.id < y.id)
            R == {p \in S \X S : Before(p[1], p[2])}
            Sorted(q) == \A i, j \in DOMAIN q : i < j => Before(q[i], q[j])
<1>1. Cardinality(S) \in Nat
  BY FS_CardinalityType
<1>2. \A x, y, z \in S : Before(x, y) /\ Before(y, z) => Before(x, z)
  OBVIOUS
<1>3. \A x, y \in S : x # y => Before(x, y) \/ Before(y, x)
  OBVIOUS
<1>4. \A x, y \in S : <<x, y>> \in R <=> Before(x, y)
  OBVIOUS
<1>5. InOrder(S, key) = CHOOSE q \in SetToSeqs(S) : Sorted(q)
  BY DEF InOrder, Precedes
<1>. HIDE DEF Before, R
<1>6. /\ \A x, y, z \in S : <<x, y>> \in R /\ <<y, z>> \in R => <<x, z>> \in R
      /\ \A x, y \in S : x # y => <<x, y>> \in R \/ <<y, x>> \in R
  BY <1>2, <1>3, <1>4
<1>7. PICK q \in [1 .. Cardinality(S) -> S] :
        \A i, j \in 1 .. Cardinality(S) : i < j => q[i] # q[j] /\ <<q[i], q[j]>> \in R
  BY <1>6, SortedExists
<1>8. Sorted(q)
  BY <1>4, <1>7
<1>9. q \in SetToSeqs(S)
  <2>1. ASSUME NEW i \in 1 .. Cardinality(S), NEW j \in 1 .. Cardinality(S), i # j
        PROVE  q[i] # q[j]
    <3>1. i < j \/ j < i
      BY <1>1, <2>1
    <3>. QED BY <1>7, <3>1
  <2>. QED BY <2>1 DEF SetToSeqs
<1>10. InOrder(S, key) \in SetToSeqs(S)
  <2>. HIDE DEF Sorted
  <2>. QED BY <1>5, <1>8, <1>9
<1>. QED BY <1>1, <1>10 DEF Lists, SetToSeqs

\* The first line of some is one of them.
LEMMA FirstIsOne ==
    ASSUME NEW R, IsStatement(R), NEW H \in SUBSET R, H # {}
    PROVE  First(H) \in H
<1>1. IsFiniteSet(H) /\ Cardinality(H) # 0
  BY FS_Subset, FS_EmptySet DEF IsStatement
<1>2. \A x \in H : x["date"] \in Int /\ x.id \in Int
  BY LineFields DEF IsStatement
<1>3. \A x, y \in H : x.id = y.id => x = y
  BY DEF IsStatement
<1>4. PICK n \in Nat : n = Cardinality(H) /\ Lists(InOrder(H, "date"), H)
  BY <1>1, <1>2, <1>3, InOrderLists
<1>5. 1 \in 1 .. n
  BY <1>1, <1>4
<1>. QED BY <1>4, <1>5 DEF First, Lists

\* One payment comes to its amount, and one line too.
LEMMA OfOne ==
    ASSUME NEW e, e.amount \in Int, NEW l, NEW way, AmountFor(l, way) \in Int
    PROVE  Total({e}) = e.amount /\ Got(way, {l}) = AmountFor(l, way)
<1>1. ASSUME NEW x, NEW f, DOMAIN f = {x}, f[x] \in Int PROVE SumFunction(f) = f[x]
  <2>1. PICK S : S = {x}
    OBVIOUS
  <2>2. IsFiniteSet(S) /\ S \ {x} = {} /\ x \in S /\ \A y \in S : f[y] \in Int
    BY <1>1, <2>1, FS_Singleton
  <2>3. SumFunctionOnSet(f, S) = f[x] + SumFunctionOnSet(f, S \ {x})
    BY <2>2, SumTakesAny
  <2>4. SumFunctionOnSet(f, {}) = 0
    BY SumOfNothing
  <2>5. SumFunction(f) = SumFunctionOnSet(f, S)
    BY <1>1, <2>1 DEF SumFunction
  <2>6. SumFunctionOnSet(f, S \ {x}) = 0
    BY <2>2, <2>4
  <2>. QED BY <1>1, <2>3, <2>5, <2>6
<1>. DEFINE f == [x \in {e} |-> x.amount]
            g == [x \in {l} |-> AmountFor(x, way)]
<1>2. DOMAIN f = {e} /\ f[e] = e.amount /\ DOMAIN g = {l} /\ g[l] = AmountFor(l, way)
  OBVIOUS
<1>3. Total({e}) = SumFunction(f) /\ Got(way, {l}) = SumFunction(g)
  BY DEF Total, Got
<1>. HIDE DEF f, g
<1>. QED BY <1>1, <1>2, <1>3

\* Some payments and some lines come to an integer.
LEMMA OfSome ==
    ASSUME NEW E, AreBooks(E), NEW R, IsStatement(R),
           NEW D \in SUBSET E, NEW L \in SUBSET R, NEW way
    PROVE  Total(D) \in Nat /\ Got(way, L) \in Nat
<1>1. IsFiniteSet(D) /\ IsFiniteSet(L)
  BY FS_Subset DEF AreBooks, IsStatement
<1>. DEFINE f == [x \in D |-> x.amount]
            g == [x \in L |-> AmountFor(x, way)]
<1>2. DOMAIN f = D /\ \A x \in D : f[x] \in Nat
  <2>1. \A x \in D : x.amount \in 1 .. MaxTransfer
    BY DEF AreBooks
  <2>2. 1 .. MaxTransfer \subseteq Nat
    BY BankAssumption
  <2>. QED BY <2>1, <2>2
<1>3. DOMAIN g = L /\ \A x \in L : g[x] \in Nat
  BY DEF IsStatement, IsLine, AmountFor
<1>4. Total(D) = SumFunctionOnSet(f, D)
  BY <1>2 DEF Total, SumFunction
<1>5. Got(way, L) = SumFunctionOnSet(g, L)
  BY <1>3 DEF Got, SumFunction
<1>. HIDE DEF f, g
<1>. QED BY <1>1, <1>2, <1>3, <1>4, <1>5, SumIsNat

\* Amounts, no more of them than there are records, come to no more than all may.
LEMMA SumFits ==
    ASSUME NEW D, IsFiniteSet(D), Cardinality(D) <= MaxSources,
           NEW f, DOMAIN f = D, \A x \in D : f[x] \in 1 .. MaxTransfer
    PROVE  SumFunction(f) \in Charge
<1>1. \A x \in D : f[x] \in 0 .. MaxTransfer
  OBVIOUS
<1>2. SumFunction(f) = SumFunctionOnSet(f, D)
  BY DEF SumFunction
<1>3. PICK t, n, c, v : /\ t = MaxTransfer /\ n = MaxSources /\ c = Cardinality(D) /\ v = SumFunction(f)
                        /\ t \in Nat /\ n \in Nat /\ c \in Nat /\ v \in Nat /\ v <= t * c
  BY <1>1, <1>2, SumAtMost, LessIsCharge
<1>4. \A i, j, k \in Nat : j <= k => i * j <= i * k /\ i * j \in Nat /\ i * k \in Nat
  OBVIOUS
<1>5. t * c <= t * n /\ t * c \in Nat /\ t * n \in Nat
  BY <1>3, <1>4
<1>6. v \in 0 .. t * n
  BY <1>3, <1>5
<1>. QED BY <1>3, <1>6 DEF Charge

\* Some payments come to no more than all of them may.
LEMMA TotalFits ==
    ASSUME NEW E, AreBooks(E), NEW D \in SUBSET E
    PROVE  Total(D) \in Charge
<1>1. IsFiniteSet(D) /\ Cardinality(D) <= MaxSources
  <2>1. IsFiniteSet(E) /\ Cardinality(E) <= MaxSources /\ MaxSources \in Nat
    BY BankAssumption DEF AreBooks
  <2>2. /\ IsFiniteSet(D) /\ Cardinality(D) <= Cardinality(E)
        /\ Cardinality(D) \in Nat /\ Cardinality(E) \in Nat
    BY <2>1, FS_Subset, FS_CardinalityType
  <2>. QED BY <2>1, <2>2
<1>. PICK f : f = [x \in D |-> x.amount]
  OBVIOUS
<1>2. DOMAIN f = D /\ \A x \in D : f[x] \in 1 .. MaxTransfer
  BY DEF AreBooks
<1>. QED BY <1>1, <1>2, SumFits DEF Total

\* So does one.
LEMMA AmountFits ==
    ASSUME NEW E, AreBooks(E), NEW e \in E
    PROVE  e.amount \in Nat \ {0} /\ e.amount \in Charge
<1>1. e.amount \in Nat \ {0}
  BY BankAssumption DEF AreBooks
<1>2. PICK l : l = [credit |-> 0, debit |-> 0]
  OBVIOUS
<1>3. PICK way : way = "credit" /\ e.amount \in Int /\ AmountFor(l, way) \in Int
  BY <1>1, <1>2 DEF AmountFor
<1>4. Total({e}) = e.amount
  BY <1>3, OfOne
<1>5. Total({e}) \in Charge
  BY TotalFits
<1>. QED BY <1>1, <1>4, <1>5

\* What is received in full fits, whatever the fee.
LEMMA FullFits == ASSUME NEW a \in Nat \ {0} PROVE FitsFee(a, a)
<1>1. Fee \in 0 .. 99
  BY MatchingAssumption
<1>2. a * (100 - Fee) = a * 100 - a * Fee /\ a * Fee \in Nat
  BY <1>1
<1>3. a * 100 >= a * (100 - Fee)
  BY <1>1, <1>2
<1>. QED BY <1>3 DEF FitsFee

-----------------------------------------------------------------------------
(* What the rules put together, step by step.                              *)

\* Some payments D settled by some lines L: money goes one way, and what
\* nobody looks at, or what is in several pieces, is no more than expected.
Fair(D, L, auto, charges) ==
    LET way == (CHOOSE e \in D : TRUE).direction
    IN  /\ \A e \in D : e.direction = way
        /\ \A l \in L : AmountFor(l, way) > 0
        /\ auto \/ Cardinality(D) > 1 \/ Cardinality(L) > 1
               => FitsFee(Total(D), Got(way, L)) /\ charges = Total(D) - Got(way, L)

Proposal(E, R) == [exps : SUBSET Ids(E), lines : SUBSET Ids(R), auto : BOOLEAN, charges : Charge]

Account(E, R) == [exps : SUBSET Ids(E), lines : SUBSET Ids(R), out : Seq(Proposal(E, R))]

\* What has been proposed so far is fair, took nothing twice and is accounted for.
Sound(acc, E, R) ==
    /\ acc \in Account(E, R)
    /\ \A i \in DOMAIN acc.out : acc.out[i].exps \subseteq acc.exps
                                 /\ acc.out[i].lines \subseteq acc.lines
    /\ ShareNothing(acc.out)
    /\ \A i \in DOMAIN acc.out :
          Fair({e \in E : e.id \in acc.out[i].exps}, {l \in R : l.id \in acc.out[i].lines},
               acc.out[i].auto, acc.out[i].charges)

LEMMA NothingIsSound == ASSUME NEW E, NEW R PROVE Sound(Nothing, E, R)
<1>1. <<>> \in Seq(Proposal(E, R)) /\ DOMAIN <<>> = {}
  OBVIOUS
<1>2. Nothing \in Account(E, R) /\ Nothing.out = <<>>
  BY <1>1 DEF Nothing, Account
<1>. QED BY <1>1, <1>2 DEF Sound, ShareNothing

\* What has an id of some payments is one of them.
LEMMA IdsTell ==
    ASSUME NEW E, \A d, e \in E : d.id = e.id => d = e, NEW D \in SUBSET E
    PROVE  {e \in E : e.id \in Ids(D)} = D /\ Ids(D) \in SUBSET Ids(E)
BY DEF Ids

\* A fair proposal of what is free keeps it so.
LEMMA TakeIsSound ==
    ASSUME NEW E, AreBooks(E), NEW R, IsStatement(R), NEW acc, Sound(acc, E, R),
           NEW D \in SUBSET E, NEW L \in SUBSET R, NEW auto \in BOOLEAN, NEW charges \in Charge,
           Ids(D) \cap acc.exps = {}, Ids(L) \cap acc.lines = {}, Fair(D, L, auto, charges)
    PROVE  /\ Sound(Take(acc, D, L, auto, charges), E, R)
           /\ Take(acc, D, L, auto, charges).exps = acc.exps \cup Ids(D)
<1>. PICK p : p = [exps |-> Ids(D), lines |-> Ids(L), auto |-> auto, charges |-> charges]
  OBVIOUS
<1>. PICK s : s = acc.out
  OBVIOUS
<1>. PICK t : t = Append(s, p)
  OBVIOUS
<1>. PICK next : next = Take(acc, D, L, auto, charges)
  OBVIOUS
<1>1. /\ {e \in E : e.id \in Ids(D)} = D /\ Ids(D) \in SUBSET Ids(E)
      /\ {l \in R : l.id \in Ids(L)} = L /\ Ids(L) \in SUBSET Ids(R)
  BY IdsTell DEF AreBooks, IsStatement
<1>2. p \in Proposal(E, R) /\ s \in Seq(Proposal(E, R))
  BY <1>1 DEF Proposal, Sound, Account
<1>3. PICK n \in Nat : n = Len(s) /\ DOMAIN s = 1 .. n
  BY <1>2
<1>4. /\ t \in Seq(Proposal(E, R)) /\ DOMAIN t = 1 .. n + 1 /\ t[n + 1] = p
      /\ \A i \in 1 .. n : t[i] = s[i]
  BY <1>2, <1>3
<1>5. \A i \in 1 .. n + 1 : i = n + 1 \/ i \in 1 .. n
  BY <1>3
<1>6. /\ next.exps = acc.exps \cup Ids(D) /\ next.lines = acc.lines \cup Ids(L) /\ next.out = t
      /\ next = [exps |-> acc.exps \cup Ids(D), lines |-> acc.lines \cup Ids(L), out |-> t]
  BY DEF Take
<1>7. acc.exps \in SUBSET Ids(E) /\ acc.lines \in SUBSET Ids(R)
  BY DEF Sound, Account
<1>8. next \in Account(E, R)
  BY <1>1, <1>4, <1>6, <1>7 DEF Account
<1>9. \A i \in 1 .. n : s[i].exps \subseteq acc.exps /\ s[i].lines \subseteq acc.lines
  BY <1>3 DEF Sound
<1>10. p.exps = Ids(D) /\ p.lines = Ids(L) /\ p.auto = auto /\ p.charges = charges
  OBVIOUS
<1>11. \A i \in 1 .. n + 1 : t[i].exps \subseteq next.exps /\ t[i].lines \subseteq next.lines
  BY <1>4, <1>5, <1>6, <1>9, <1>10
<1>12. ASSUME NEW i \in 1 .. n + 1, NEW j \in 1 .. n + 1, i # j
       PROVE  t[i].exps \cap t[j].exps = {} /\ t[i].lines \cap t[j].lines = {}
  <2>1. CASE i \in 1 .. n /\ j \in 1 .. n
    BY <1>3, <1>4, <1>12, <2>1 DEF Sound, ShareNothing
  <2>2. \A k \in 1 .. n : t[k].exps \cap p.exps = {} /\ t[k].lines \cap p.lines = {}
    BY <1>4, <1>9, <1>10
  <2>3. CASE i = n + 1
    <3>1. j \in 1 .. n
      BY <1>5, <1>12, <2>3
    <3>. QED BY <1>4, <2>2, <2>3, <3>1
  <2>4. CASE j = n + 1
    <3>1. i \in 1 .. n
      BY <1>5, <1>12, <2>4
    <3>. QED BY <1>4, <2>2, <2>4, <3>1
  <2>. QED BY <1>5, <2>1, <2>3, <2>4
<1>13. ASSUME NEW i \in 1 .. n + 1
       PROVE  Fair({e \in E : e.id \in t[i].exps}, {l \in R : l.id \in t[i].lines},
                   t[i].auto, t[i].charges)
  <2>1. CASE i \in 1 .. n
    BY <1>3, <1>4, <2>1 DEF Sound
  <2>2. CASE i = n + 1
    <3>1. t[i].exps = Ids(D) /\ t[i].lines = Ids(L) /\ t[i].auto = auto /\ t[i].charges = charges
      BY <1>4, <1>10, <2>2
    <3>. QED BY <1>1, <3>1
  <2>. QED BY <1>5, <2>1, <2>2
<1>14. Sound(next, E, R)
  BY <1>4, <1>6, <1>8, <1>11, <1>12, <1>13 DEF Sound, ShareNothing
<1>. QED BY <1>6, <1>14

\* One payment and one line of it are fair when what nobody looks at fits.
LEMMA OneIsFair ==
    ASSUME NEW e, e.amount \in Int, NEW l, NEW auto \in BOOLEAN, NEW charges,
           AmountFor(l, e.direction) \in Nat \ {0},
           auto => /\ FitsFee(e.amount, AmountFor(l, e.direction))
                   /\ charges = e.amount - AmountFor(l, e.direction)
    PROVE  Fair({e}, {l}, auto, charges)
<1>1. Cardinality({e}) = 1 /\ Cardinality({l}) = 1
  BY FS_Singleton
<1>2. (CHOOSE d \in {e} : TRUE) = e
  OBVIOUS
<1>3. /\ Total({e}) = e.amount
      /\ Got(e.direction, {l}) = AmountFor(l, e.direction)
  <2>1. PICK way : way = e.direction
    OBVIOUS
  <2>2. AmountFor(l, way) \in Int /\ e.amount \in Int
    BY <2>1
  <2>. QED BY <2>1, <2>2, OfOne
<1>. QED BY <1>1, <1>2, <1>3 DEF Fair

\* The first rule, for a payment that no proposal has.
LEMMA ReferenceStep ==
    ASSUME NEW E, AreBooks(E), NEW R, IsStatement(R), NEW acc, Sound(acc, E, R),
           NEW e \in E, e.id \notin acc.exps
    PROVE  /\ Sound(ByReference(acc, e, R), E, R)
           /\ ByReference(acc, e, R).exps \subseteq acc.exps \cup {e.id}
<1>. DEFINE hits == {l \in FreeR(acc, R) : /\ e.reference # NoReference
                                           /\ l.reference = e.reference
                                           /\ AmountFor(l, e.direction) > 0}
<1>1. CASE hits = {}
  BY <1>1 DEF ByReference
<1>2. CASE hits # {}
  <2>1. PICK l : l = First(hits)
    OBVIOUS
  <2>2. hits \in SUBSET R
    BY DEF FreeR
  <2>3. l \in hits
    <3>. HIDE DEF hits
    <3>. QED BY <1>2, <2>1, <2>2, FirstIsOne
  <2>4. l \in R /\ l.id \notin acc.lines /\ AmountFor(l, e.direction) > 0
    BY <2>3 DEF FreeR
  <2>5. AmountFor(l, e.direction) \in Nat \ {0} /\ e.amount \in Nat \ {0}
    BY <2>4, AmountFits DEF IsStatement, IsLine, AmountFor
  <2>6. PICK got \in Nat \ {0} : got = AmountFor(l, e.direction)
    BY <2>5
  <2>7. PICK n \in Int : n = e.amount - got
    BY <2>5
  <2>8. Max({0, n}) = IF 0 <= n THEN n ELSE 0
    <3>1. CASE 0 <= n
      <4>1. n \in {0, n} /\ (\A y \in {0, n} : n >= y)
            /\ \A x \in {0, n} : (\A y \in {0, n} : x >= y) => x = n
        BY <3>1
      <4>. QED BY <3>1, <4>1 DEF Max
    <3>2. CASE n < 0
      <4>1. 0 \in {0, n} /\ (\A y \in {0, n} : 0 >= y)
            /\ \A x \in {0, n} : (\A y \in {0, n} : x >= y) => x = 0
        BY <3>2
      <4>. QED BY <3>2, <4>1 DEF Max
    <3>. QED BY <3>1, <3>2
  <2>9. PICK auto \in BOOLEAN : auto = FitsFee(e.amount, got)
    BY DEF FitsFee
  <2>10. PICK charges \in Charge : charges = Max({0, e.amount - got})
    <3>1. 0 \in Charge /\ e.amount \in Charge
      BY AmountFits, LessIsCharge
    <3>2. 0 <= n => got \in 0 .. e.amount
      BY <2>5, <2>7
    <3>3. 0 <= n => n \in Charge
      BY <2>7, <3>1, <3>2, LessIsCharge
    <3>. QED BY <2>7, <2>8, <3>1, <3>3
  <2>11. auto => FitsFee(e.amount, got) /\ charges = e.amount - got
    <3>1. auto => got <= e.amount
      BY <2>9 DEF FitsFee
    <3>. QED BY <2>5, <2>7, <2>8, <2>9, <2>10, <3>1
  <2>12. Fair({e}, {l}, auto, charges)
    <3>1. e.amount \in Int /\ AmountFor(l, e.direction) \in Nat \ {0}
      BY <2>5
    <3>2. auto => /\ FitsFee(e.amount, AmountFor(l, e.direction))
                  /\ charges = e.amount - AmountFor(l, e.direction)
      BY <2>6, <2>11
    <3>. QED BY <3>1, <3>2, OneIsFair
  <2>13. Ids({e}) = {e.id} /\ Ids({l}) = {l.id} /\ {e} \in SUBSET E /\ {l} \in SUBSET R
    BY <2>4 DEF Ids
  <2>14. ByReference(acc, e, R) = Take(acc, {e}, {l}, auto, charges)
    <3>1. ByReference(acc, e, R)
            = Take(acc, {e}, {First(hits)}, FitsFee(e.amount, AmountFor(First(hits), e.direction)),
                   Max({0, e.amount - AmountFor(First(hits), e.direction)}))
      BY <1>2 DEF ByReference
    <3>. HIDE DEF hits
    <3>. QED BY <2>1, <2>6, <2>9, <2>10, <3>1
  <2>15. Ids({e}) \cap acc.exps = {} /\ Ids({l}) \cap acc.lines = {}
    BY <2>4, <2>13
  <2>. HIDE DEF hits
  <2>16. PICK D \in SUBSET E, L \in SUBSET R : D = {e} /\ L = {l}
    BY <2>13
  <2>17. Fair(D, L, auto, charges) /\ Ids(D) \cap acc.exps = {} /\ Ids(L) \cap acc.lines = {}
    BY <2>12, <2>15, <2>16
  <2>18. /\ Sound(Take(acc, D, L, auto, charges), E, R)
         /\ Take(acc, D, L, auto, charges).exps = acc.exps \cup Ids(D)
    BY <2>17, TakeIsSound
  <2>. QED BY <2>13, <2>14, <2>16, <2>18
<1>. QED BY <1>1, <1>2

\* The second rule.
LEMMA AmountStep ==
    ASSUME NEW E, AreBooks(E), NEW R, IsStatement(R), NEW acc, Sound(acc, E, R), NEW e \in E
    PROVE  Sound(ByAmount(acc, e, E, R), E, R)
<1>. DEFINE exact == {l \in FreeR(acc, R) : Fits(e, l)}
            near == {l \in FreeR(acc, R) : /\ InWindow(e, l)
                                           /\ FitsFee(e.amount, AmountFor(l, e.direction))}
<1>1. exact \in SUBSET R /\ near \in SUBSET R
  BY DEF FreeR
<1>2. e.amount \in Nat \ {0} /\ e.amount \in Charge
  BY AmountFits
<1>3. ASSUME NEW l \in R, l.id \notin acc.lines, e.id \notin acc.exps,
             NEW auto \in BOOLEAN, NEW charges \in Charge,
             AmountFor(l, e.direction) \in Nat \ {0},
             auto => /\ FitsFee(e.amount, AmountFor(l, e.direction))
                     /\ charges = e.amount - AmountFor(l, e.direction)
      PROVE  Sound(Take(acc, {e}, {l}, auto, charges), E, R)
  <2>1. e.amount \in Int
    BY <1>2
  <2>2. Fair({e}, {l}, auto, charges)
    BY <1>3, <2>1, OneIsFair
  <2>3. Ids({e}) = {e.id} /\ Ids({l}) = {l.id} /\ {e} \in SUBSET E /\ {l} \in SUBSET R
    BY DEF Ids
  <2>4. Ids({e}) \cap acc.exps = {} /\ Ids({l}) \cap acc.lines = {}
    BY <1>3, <2>3
  <2>5. PICK D \in SUBSET E, L \in SUBSET R : D = {e} /\ L = {l}
    BY <2>3
  <2>6. Fair(D, L, auto, charges) /\ Ids(D) \cap acc.exps = {} /\ Ids(L) \cap acc.lines = {}
    BY <2>2, <2>4, <2>5
  <2>7. Sound(Take(acc, D, L, auto, charges), E, R)
    BY <2>6, TakeIsSound
  <2>. QED BY <2>5, <2>7
<1>4. CASE e.id \in acc.exps
  BY <1>4 DEF ByAmount
<1>5. CASE e.id \notin acc.exps /\ exact # {}
  <2>1. PICK l : l = First(exact)
    OBVIOUS
  <2>2. l \in exact
    <3>. HIDE DEF exact
    <3>. QED BY <1>1, <1>5, <2>1, FirstIsOne
  <2>3. l \in R /\ l.id \notin acc.lines /\ AmountFor(l, e.direction) = e.amount
    BY <2>2 DEF FreeR, Fits
  <2>4. PICK auto \in BOOLEAN :
          auto = (Cardinality(exact) = 1 /\ Rivals(acc, e, l, E) = {})
    OBVIOUS
  <2>5. ByAmount(acc, e, E, R) = Take(acc, {e}, {l}, auto, 0)
    <3>1. ByAmount(acc, e, E, R)
            = Take(acc, {e}, {First(exact)},
                   Cardinality(exact) = 1 /\ Rivals(acc, e, First(exact), E) = {}, 0)
      BY <1>5 DEF ByAmount
    <3>. HIDE DEF exact
    <3>. QED BY <2>1, <2>4, <3>1
  <2>6. 0 = e.amount - AmountFor(l, e.direction) /\ FitsFee(e.amount, AmountFor(l, e.direction))
    BY <1>2, <2>3, FullFits
  <2>7. AmountFor(l, e.direction) \in Nat \ {0} /\ 0 \in Charge
    BY <1>2, <2>3, LessIsCharge
  <2>. HIDE DEF exact
  <2>8. Sound(Take(acc, {e}, {l}, auto, 0), E, R)
    BY <1>3, <1>5, <2>3, <2>6, <2>7
  <2>. QED BY <2>5, <2>8
<1>6. CASE e.id \notin acc.exps /\ exact = {} /\ near # {}
  <2>1. PICK l : l = First(near)
    OBVIOUS
  <2>2. l \in near
    <3>. HIDE DEF near
    <3>. QED BY <1>1, <1>6, <2>1, FirstIsOne
  <2>3. l \in R /\ l.id \notin acc.lines /\ FitsFee(e.amount, AmountFor(l, e.direction))
    BY <2>2 DEF FreeR
  <2>4. AmountFor(l, e.direction) \in Nat \ {0}
    BY <2>3 DEF FitsFee, IsStatement, IsLine, AmountFor
  <2>5. PICK charges \in Charge : charges = e.amount - AmountFor(l, e.direction)
    <3>1. AmountFor(l, e.direction) \in 0 .. e.amount
      BY <1>2, <2>3, <2>4 DEF FitsFee
    <3>. QED BY <1>2, <3>1, LessIsCharge
  <2>6. ByAmount(acc, e, E, R) = Take(acc, {e}, {l}, FALSE, charges)
    <3>1. ByAmount(acc, e, E, R)
            = Take(acc, {e}, {First(near)}, FALSE, e.amount - AmountFor(First(near), e.direction))
      BY <1>6 DEF ByAmount
    <3>. HIDE DEF near
    <3>. QED BY <2>1, <2>5, <3>1
  <2>. QED BY <1>3, <1>6, <2>3, <2>4, <2>6
<1>7. CASE e.id \notin acc.exps /\ exact = {} /\ near = {}
  <2>1. ByAmount(acc, e, E, R) = acc
    BY <1>7 DEF ByAmount
  <2>. QED BY <2>1
<1>. QED BY <1>4, <1>5, <1>6, <1>7

\* What comes in and what goes out of a line is a natural number.
LEMMA AmountIsNat ==
    ASSUME NEW l, IsLine(l), NEW way
    PROVE  AmountFor(l, way) \in Nat
BY DEF IsLine, AmountFor

\* The third rule.
LEMMA ManyStep ==
    ASSUME NEW E, AreBooks(E), NEW R, IsStatement(R), NEW acc, Sound(acc, E, R), NEW l \in R
    PROVE  Sound(ManyToOne(acc, l, E), E, R)
<1>1. PICK way : way = IF l.credit > 0 THEN "credit" ELSE "debit"
  OBVIOUS
<1>2. PICK got \in Nat \ {0} : got = AmountFor(l, way)
  BY <1>1 DEF IsStatement, IsLine, AmountFor
<1>3. PICK pool \in SUBSET E :
        pool = {e \in FreeE(acc, E) : /\ e.direction = way /\ InWindow(e, l)
                                      /\ e.amount * (100 - Fee) <= got * 100}
  BY DEF FreeE
<1>4. PICK found :
        found = FirstFour({T \in Several(Candidates(pool, "from")) : FitsFee(Total(T), got)}, "from")
  OBVIOUS
<1>5. PICK pick \in SUBSET found :
        pick = (LET exact == {T \in found : Total(T) = got}
                IN  IF Cardinality(exact) = 1 THEN exact ELSE found)
  OBVIOUS
<1>6. ManyToOne(acc, l, E)
        = IF l.id \in acc.lines \/ Cardinality(pick) # 1 THEN acc
          ELSE Take(acc, CHOOSE T \in pick : TRUE, {l}, FALSE, Total(CHOOSE T \in pick : TRUE) - got)
  BY <1>1, <1>2, <1>3, <1>4, <1>5 DEF ManyToOne
<1>7. CASE l.id \in acc.lines \/ Cardinality(pick) # 1
  BY <1>6, <1>7
<1>8. CASE l.id \notin acc.lines /\ Cardinality(pick) = 1
  <2>1. pick # {}
    BY <1>8, FS_EmptySet
  <2>2. PICK T \in pick : T = CHOOSE U \in pick : TRUE
    BY <2>1
  <2>3. T \in Several(pool) /\ FitsFee(Total(T), got)
    BY <1>4, <1>5 DEF FirstFour, Candidates, Several
  <2>4. T \in SUBSET pool /\ T \in SUBSET E /\ Cardinality(T) \in 2 .. MaxSubset
    BY <1>3, <2>3 DEF Several
  <2>5. T # {}
    BY <2>4, FS_EmptySet, MatchingAssumption
  <2>6. \A e \in T : e.direction = way /\ e.id \notin acc.exps
    BY <1>3, <2>4 DEF FreeE
  <2>7. (CHOOSE e \in T : TRUE).direction = way
    BY <2>5, <2>6
  <2>8. Got(way, {l}) = got
    <3>1. PICK e : e.amount = 0
      <4>1. [amount |-> 0].amount = 0
        OBVIOUS
      <4>. QED BY <4>1
    <3>2. e.amount \in Int /\ AmountFor(l, way) \in Int
      BY <1>2, <3>1
    <3>. QED BY <1>2, <3>2, OfOne
  <2>9. PICK charges \in Charge : charges = Total(T) - got
    <3>1. Total(T) \in Charge /\ Total(T) \in Nat
      BY <2>4, TotalFits, LessIsCharge
    <3>2. got \in 0 .. Total(T)
      BY <1>2, <2>3, <3>1 DEF FitsFee
    <3>. QED BY <3>1, <3>2, LessIsCharge
  <2>10. Fair(T, {l}, FALSE, charges)
    BY <1>2, <2>3, <2>6, <2>7, <2>8, <2>9 DEF Fair
  <2>11. Ids(T) \cap acc.exps = {} /\ Ids({l}) \cap acc.lines = {} /\ {l} \in SUBSET R
    BY <1>8, <2>6 DEF Ids
  <2>12. Sound(Take(acc, T, {l}, FALSE, charges), E, R)
    BY <2>4, <2>10, <2>11, TakeIsSound
  <2>. QED BY <1>6, <1>8, <2>2, <2>9, <2>12
<1>. QED BY <1>7, <1>8

\* The fourth rule.
LEMMA SeveralStep ==
    ASSUME NEW E, AreBooks(E), NEW R, IsStatement(R), NEW acc, Sound(acc, E, R), NEW e \in E
    PROVE  Sound(OneToMany(acc, e, R), E, R)
<1>1. PICK pool \in SUBSET R :
        pool = {l \in FreeR(acc, R) : /\ InWindow(e, l)
                                      /\ AmountFor(l, e.direction) \in 1 .. e.amount - 1}
  BY DEF FreeR
<1>2. PICK found :
        found = FirstFour({T \in Several(Candidates(pool, "date")) : FitsFee(e.amount, Got(e.direction, T))}, "date")
  OBVIOUS
<1>3. OneToMany(acc, e, R)
        = IF e.id \in acc.exps \/ Cardinality(found) # 1 THEN acc
          ELSE Take(acc, {e}, CHOOSE T \in found : TRUE, FALSE,
                    e.amount - Got(e.direction, CHOOSE T \in found : TRUE))
  BY <1>1, <1>2 DEF OneToMany
<1>4. CASE e.id \in acc.exps \/ Cardinality(found) # 1
  BY <1>3, <1>4
<1>5. CASE e.id \notin acc.exps /\ Cardinality(found) = 1
  <2>1. found # {}
    BY <1>5, FS_EmptySet
  <2>2. PICK T \in found : T = CHOOSE U \in found : TRUE
    BY <2>1
  <2>3. T \in Several(pool) /\ FitsFee(e.amount, Got(e.direction, T))
    BY <1>2 DEF FirstFour, Candidates, Several
  <2>4. T \in SUBSET pool /\ T \in SUBSET R
    BY <1>1, <2>3 DEF Several
  <2>5. \A l \in T : AmountFor(l, e.direction) > 0 /\ l.id \notin acc.lines
    BY <1>1, <2>4 DEF FreeR
  <2>6. e.amount \in Int /\ e.amount \in Charge /\ {e} \in SUBSET E
    BY AmountFits
  <2>7. PICK way : way = e.direction
    OBVIOUS
  <2>8. Total({e}) = e.amount
    <3>1. PICK l : l = [credit |-> 0, debit |-> 0]
      OBVIOUS
    <3>2. AmountFor(l, way) \in Int
      BY <3>1 DEF AmountFor
    <3>. QED BY <2>6, <3>2, OfOne
  <2>9. PICK charges \in Charge : charges = e.amount - Got(way, T)
    <3>1. Got(way, T) \in Int
      BY <2>4, <2>6, OfSome
    <3>2. Got(way, T) \in 0 .. e.amount
      BY <2>3, <2>6, <2>7, <3>1 DEF FitsFee
    <3>. QED BY <2>6, <3>2, LessIsCharge
  <2>10. (CHOOSE d \in {e} : TRUE) = e
    OBVIOUS
  <2>11. Fair({e}, T, FALSE, charges)
    BY <2>3, <2>5, <2>7, <2>8, <2>9, <2>10 DEF Fair
  <2>12. Ids({e}) \cap acc.exps = {} /\ Ids(T) \cap acc.lines = {}
    BY <1>5, <2>5 DEF Ids
  <2>13. Sound(Take(acc, {e}, T, FALSE, charges), E, R)
    BY <2>4, <2>6, <2>11, <2>12, TakeIsSound
  <2>. QED BY <1>3, <1>5, <2>2, <2>7, <2>9, <2>13
<1>. QED BY <1>4, <1>5

\* The second rule, payment by payment.
LEMMA AmountsAreSound ==
    ASSUME NEW E, AreBooks(E), NEW R, IsStatement(R), NEW acc, Sound(acc, E, R),
           NEW n \in Nat, NEW q \in [1 .. n -> E]
    PROVE  Sound(FoldLeft(LAMBDA a, x : ByAmount(a, x, E, R), acc, q), E, R)
<1>. PICK Fine : Fine = {a \in Account(E, R) : Sound(a, E, R)}
  OBVIOUS
<1>. PICK G : G = [p \in Fine \X (1 .. n) |-> ByAmount(p[1], q[p[2]], E, R)]
  OBVIOUS
<1>. DEFINE Is(h) == h = [T \in SUBSET (1 .. n) |->
                           IF T = {} THEN acc ELSE ByAmount(h[T \ {Max(T)}], q[Max(T)], E, R)]
<1>1. /\ acc \in Fine
      /\ \A v \in Fine : \A i \in 1 .. n : G[v, i] = ByAmount(v, q[i], E, R) /\ G[v, i] \in Fine
  <2>1. ASSUME NEW v \in Fine, NEW i \in 1 .. n
        PROVE  G[v, i] = ByAmount(v, q[i], E, R) /\ G[v, i] \in Fine
    <3>1. G[v, i] = ByAmount(v, q[i], E, R)
      OBVIOUS
    <3>2. Sound(ByAmount(v, q[i], E, R), E, R)
      BY AmountStep
    <3>. QED BY <3>1, <3>2 DEF Sound
  <2>. QED BY <2>1 DEF Sound
<1>2. PICK h : IsFold(n, acc, G, h) /\ \A T \in SUBSET (1 .. n) : h[T] \in Fine
  BY <1>1, FoldOfList
<1>3. Is(h)
  <2>1. ASSUME NEW T \in SUBSET (1 .. n), T # {}
        PROVE  G[h[T \ {Max(T)}], Max(T)] = ByAmount(h[T \ {Max(T)}], q[Max(T)], E, R)
    <3>1. Max(T) \in 1 .. n /\ T \ {Max(T)} \in SUBSET (1 .. n)
      BY <2>1, PlacesAreTaken
    <3>. QED BY <1>1, <1>2, <3>1
  <2>. QED BY <1>2, <2>1 DEF IsFold
<1>4. PICK k : Is(k) /\ k = CHOOSE g : Is(g)
  <2>. HIDE DEF Is
  <2>. QED BY <1>3
<1>5. TakesGoodSteps(n, acc, G, (SUBSET (1 .. n)) \X Fine, k)
  <2>1. ASSUME NEW T \in SUBSET (1 .. n), T # {}, k[T \ {Max(T)}] \in Fine
        PROVE  k[T] = G[k[T \ {Max(T)}], Max(T)]
    <3>1. Max(T) \in 1 .. n
      BY <2>1, PlacesAreTaken
    <3>2. k[T] = ByAmount(k[T \ {Max(T)}], q[Max(T)], E, R)
      BY <1>4, <2>1
    <3>. QED BY <1>1, <2>1, <3>1, <3>2
  <2>2. k[{}] = acc
    BY <1>4
  <2>. QED BY <2>1, <2>2 DEF TakesGoodSteps
<1>6. k[1 .. n] \in Fine
  BY <1>1, <1>5, FoldOfList
<1>7. FoldLeft(LAMBDA a, x : ByAmount(a, x, E, R), acc, q) = k[1 .. n]
  BY <1>4, ZenonT(60) DEF FoldLeft, MapThenFoldSet
<1>. QED BY <1>6, <1>7

\* The third rule, line by line.
LEMMA ManyAreSound ==
    ASSUME NEW E, AreBooks(E), NEW R, IsStatement(R), NEW acc, Sound(acc, E, R),
           NEW n \in Nat, NEW q \in [1 .. n -> R]
    PROVE  Sound(FoldLeft(LAMBDA a, x : ManyToOne(a, x, E), acc, q), E, R)
<1>. PICK Fine : Fine = {a \in Account(E, R) : Sound(a, E, R)}
  OBVIOUS
<1>. PICK G : G = [p \in Fine \X (1 .. n) |-> ManyToOne(p[1], q[p[2]], E)]
  OBVIOUS
<1>. DEFINE Is(h) == h = [T \in SUBSET (1 .. n) |->
                           IF T = {} THEN acc ELSE ManyToOne(h[T \ {Max(T)}], q[Max(T)], E)]
<1>1. /\ acc \in Fine
      /\ \A v \in Fine : \A i \in 1 .. n : G[v, i] = ManyToOne(v, q[i], E) /\ G[v, i] \in Fine
  <2>1. ASSUME NEW v \in Fine, NEW i \in 1 .. n
        PROVE  G[v, i] = ManyToOne(v, q[i], E) /\ G[v, i] \in Fine
    <3>1. G[v, i] = ManyToOne(v, q[i], E)
      OBVIOUS
    <3>2. Sound(ManyToOne(v, q[i], E), E, R)
      BY ManyStep
    <3>. QED BY <3>1, <3>2 DEF Sound
  <2>. QED BY <2>1 DEF Sound
<1>2. PICK h : IsFold(n, acc, G, h) /\ \A T \in SUBSET (1 .. n) : h[T] \in Fine
  BY <1>1, FoldOfList
<1>3. Is(h)
  <2>1. ASSUME NEW T \in SUBSET (1 .. n), T # {}
        PROVE  G[h[T \ {Max(T)}], Max(T)] = ManyToOne(h[T \ {Max(T)}], q[Max(T)], E)
    <3>1. Max(T) \in 1 .. n /\ T \ {Max(T)} \in SUBSET (1 .. n)
      BY <2>1, PlacesAreTaken
    <3>. QED BY <1>1, <1>2, <3>1
  <2>. QED BY <1>2, <2>1 DEF IsFold
<1>4. PICK k : Is(k) /\ k = CHOOSE g : Is(g)
  <2>. HIDE DEF Is
  <2>. QED BY <1>3
<1>5. TakesGoodSteps(n, acc, G, (SUBSET (1 .. n)) \X Fine, k)
  <2>1. ASSUME NEW T \in SUBSET (1 .. n), T # {}, k[T \ {Max(T)}] \in Fine
        PROVE  k[T] = G[k[T \ {Max(T)}], Max(T)]
    <3>1. Max(T) \in 1 .. n
      BY <2>1, PlacesAreTaken
    <3>2. k[T] = ManyToOne(k[T \ {Max(T)}], q[Max(T)], E)
      BY <1>4, <2>1
    <3>. QED BY <1>1, <2>1, <3>1, <3>2
  <2>2. k[{}] = acc
    BY <1>4
  <2>. QED BY <2>1, <2>2 DEF TakesGoodSteps
<1>6. k[1 .. n] \in Fine
  BY <1>1, <1>5, FoldOfList
<1>7. FoldLeft(LAMBDA a, x : ManyToOne(a, x, E), acc, q) = k[1 .. n]
  BY <1>4, ZenonT(60) DEF FoldLeft, MapThenFoldSet
<1>. QED BY <1>6, <1>7

\* The fourth rule, payment by payment.
LEMMA SeveralAreSound ==
    ASSUME NEW E, AreBooks(E), NEW R, IsStatement(R), NEW acc, Sound(acc, E, R),
           NEW n \in Nat, NEW q \in [1 .. n -> E]
    PROVE  Sound(FoldLeft(LAMBDA a, x : OneToMany(a, x, R), acc, q), E, R)
<1>. PICK Fine : Fine = {a \in Account(E, R) : Sound(a, E, R)}
  OBVIOUS
<1>. PICK G : G = [p \in Fine \X (1 .. n) |-> OneToMany(p[1], q[p[2]], R)]
  OBVIOUS
<1>. DEFINE Is(h) == h = [T \in SUBSET (1 .. n) |->
                           IF T = {} THEN acc ELSE OneToMany(h[T \ {Max(T)}], q[Max(T)], R)]
<1>1. /\ acc \in Fine
      /\ \A v \in Fine : \A i \in 1 .. n : G[v, i] = OneToMany(v, q[i], R) /\ G[v, i] \in Fine
  <2>1. ASSUME NEW v \in Fine, NEW i \in 1 .. n
        PROVE  G[v, i] = OneToMany(v, q[i], R) /\ G[v, i] \in Fine
    <3>1. G[v, i] = OneToMany(v, q[i], R)
      OBVIOUS
    <3>2. Sound(OneToMany(v, q[i], R), E, R)
      BY SeveralStep
    <3>. QED BY <3>1, <3>2 DEF Sound
  <2>. QED BY <2>1 DEF Sound
<1>2. PICK h : IsFold(n, acc, G, h) /\ \A T \in SUBSET (1 .. n) : h[T] \in Fine
  BY <1>1, FoldOfList
<1>3. Is(h)
  <2>1. ASSUME NEW T \in SUBSET (1 .. n), T # {}
        PROVE  G[h[T \ {Max(T)}], Max(T)] = OneToMany(h[T \ {Max(T)}], q[Max(T)], R)
    <3>1. Max(T) \in 1 .. n /\ T \ {Max(T)} \in SUBSET (1 .. n)
      BY <2>1, PlacesAreTaken
    <3>. QED BY <1>1, <1>2, <3>1
  <2>. QED BY <1>2, <2>1 DEF IsFold
<1>4. PICK k : Is(k) /\ k = CHOOSE g : Is(g)
  <2>. HIDE DEF Is
  <2>. QED BY <1>3
<1>5. TakesGoodSteps(n, acc, G, (SUBSET (1 .. n)) \X Fine, k)
  <2>1. ASSUME NEW T \in SUBSET (1 .. n), T # {}, k[T \ {Max(T)}] \in Fine
        PROVE  k[T] = G[k[T \ {Max(T)}], Max(T)]
    <3>1. Max(T) \in 1 .. n
      BY <2>1, PlacesAreTaken
    <3>2. k[T] = OneToMany(k[T \ {Max(T)}], q[Max(T)], R)
      BY <1>4, <2>1
    <3>. QED BY <1>1, <2>1, <3>1, <3>2
  <2>2. k[{}] = acc
    BY <1>4
  <2>. QED BY <2>1, <2>2 DEF TakesGoodSteps
<1>6. k[1 .. n] \in Fine
  BY <1>1, <1>5, FoldOfList
<1>7. FoldLeft(LAMBDA a, x : OneToMany(a, x, R), acc, q) = k[1 .. n]
  BY <1>4, ZenonT(60) DEF FoldLeft, MapThenFoldSet
<1>. QED BY <1>6, <1>7

\* The first rule, payment by payment: what it has taken so far is among the
\* payments it has looked at, so the next one is free.
LEMMA ReferencesAreSound ==
    ASSUME NEW E, AreBooks(E), NEW R, IsStatement(R), NEW n \in Nat, NEW q \in [1 .. n -> E],
           \A i, j \in 1 .. n : i # j => q[i] # q[j]
    PROVE  Sound(FoldLeft(LAMBDA a, x : ByReference(a, x, R), Nothing, q), E, R)
<1>. DEFINE Seen(T) == {q[i].id : i \in T}
<1>1. PICK Good : Good = {p \in (SUBSET (1 .. n)) \X Account(E, R) :
                           Sound(p[2], E, R) /\ p[2].exps \subseteq Seen(p[1])}
  OBVIOUS
<1>2. PICK G : G = [p \in Account(E, R) \X (1 .. n) |-> ByReference(p[1], q[p[2]], R)]
  OBVIOUS
<1>. DEFINE Is(h) == h = [T \in SUBSET (1 .. n) |->
                           IF T = {} THEN Nothing ELSE ByReference(h[T \ {Max(T)}], q[Max(T)], R)]
<1>3. ASSUME NEW T \in SUBSET (1 .. n), NEW v
      PROVE  <<T, v>> \in Good <=> Sound(v, E, R) /\ v.exps \subseteq Seen(T)
  <2>1. <<T, v>> \in Good <=> v \in Account(E, R) /\ Sound(v, E, R) /\ v.exps \subseteq Seen(T)
    BY <1>1
  <2>. QED BY <2>1 DEF Sound
<1>4. ASSUME NEW T \in SUBSET (1 .. n), NEW v, T # {}, <<T \ {Max(T)}, v>> \in Good
      PROVE  /\ G[v, Max(T)] = ByReference(v, q[Max(T)], R)
             /\ <<T, ByReference(v, q[Max(T)], R)>> \in Good
  <2>1. PICK i \in 1 .. n : i = Max(T) /\ i \in T
    BY <1>4, PlacesAreTaken
  <2>2. Sound(v, E, R) /\ v.exps \subseteq Seen(T \ {i}) /\ v \in Account(E, R)
    <3>1. T \ {i} \in SUBSET (1 .. n)
      OBVIOUS
    <3>. QED BY <1>3, <1>4, <2>1, <3>1 DEF Sound
  <2>3. \A j \in 1 .. n : q[j].id = q[i].id => j = i
    BY DEF AreBooks
  <2>4. q[i].id \notin Seen(T \ {i}) /\ q[i] \in E
    BY <2>3
  <2>5. q[i].id \notin v.exps
    BY <2>2, <2>4
  <2>6. /\ Sound(ByReference(v, q[i], R), E, R)
        /\ ByReference(v, q[i], R).exps \subseteq v.exps \cup {q[i].id}
    BY <2>2, <2>4, <2>5, ReferenceStep
  <2>7. Seen(T \ {i}) \cup {q[i].id} \subseteq Seen(T)
    BY <2>1
  <2>8. ByReference(v, q[i], R).exps \subseteq Seen(T)
    <3>. HIDE DEF Seen
    <3>. QED BY <2>2, <2>6, <2>7
  <2>9. <<T, ByReference(v, q[i], R)>> \in Good
    BY <1>3, <2>6, <2>8
  <2>10. G[v, i] = ByReference(v, q[i], R)
    BY <1>2, <2>2
  <2>. QED BY <2>1, <2>9, <2>10
<1>5. PlacesKeep(n, Nothing, G, Good)
  <2>1. Nothing.exps = {}
    BY DEF Nothing
  <2>2. <<{}, Nothing>> \in Good
    BY <1>3, <2>1, NothingIsSound
  <2>. QED BY <1>4, <2>2 DEF PlacesKeep
<1>6. PICK h : IsFold(n, Nothing, G, h) /\ GoodOn(1 .. n, Good, h)
  BY <1>5, FoldOfPlaces
<1>7. Is(h)
  <2>1. ASSUME NEW T \in SUBSET (1 .. n), T # {}
        PROVE  G[h[T \ {Max(T)}], Max(T)] = ByReference(h[T \ {Max(T)}], q[Max(T)], R)
    <3>1. T \ {Max(T)} \in SUBSET (1 .. n)
      OBVIOUS
    <3>2. <<T \ {Max(T)}, h[T \ {Max(T)}]>> \in Good
      BY <1>6, <3>1 DEF GoodOn
    <3>. QED BY <1>4, <2>1, <3>1, <3>2, Zenon
  <2>. QED BY <1>6, <2>1 DEF IsFold
<1>8. PICK k : Is(k) /\ k = CHOOSE g : Is(g)
  <2>. HIDE DEF Is
  <2>. QED BY <1>7
<1>9. TakesGoodSteps(n, Nothing, G, Good, k)
  <2>1. ASSUME NEW T \in SUBSET (1 .. n), T # {}, <<T \ {Max(T)}, k[T \ {Max(T)}]>> \in Good
        PROVE  k[T] = G[k[T \ {Max(T)}], Max(T)]
    <3>1. k[T] = ByReference(k[T \ {Max(T)}], q[Max(T)], R)
      BY <1>8, <2>1
    <3>2. G[k[T \ {Max(T)}], Max(T)] = ByReference(k[T \ {Max(T)}], q[Max(T)], R)
      BY <1>4, <2>1, Zenon
    <3>. QED BY <3>1, <3>2
  <2>2. k[{}] = Nothing
    BY <1>8
  <2>. QED BY <2>1, <2>2 DEF TakesGoodSteps
<1>10. <<1 .. n, k[1 .. n]>> \in Good
  BY <1>5, <1>9, FoldOfPlaces
<1>11. FoldLeft(LAMBDA a, x : ByReference(a, x, R), Nothing, q) = k[1 .. n]
  BY <1>8, ZenonT(60) DEF FoldLeft, MapThenFoldSet
<1>. QED BY <1>3, <1>10, <1>11

\* Whatever the statement and the books are, what is proposed shares nothing,
\* is fair, and is about these payments and lines (propose).
LEMMA ProposeIsSound ==
    ASSUME NEW E, AreBooks(E), NEW R, IsStatement(R)
    PROVE  /\ Propose(E, R) \in Seq(Proposal(E, R))
           /\ ShareNothing(Propose(E, R)) /\ NeverMoreThanExpected(Propose(E, R), E, R)
<1>1. PICK n, es : n \in Nat /\ es = InOrder(E, "from") /\ n = Cardinality(E) /\ Lists(es, E)
  <2>1. \A x \in E : x["from"] \in Int /\ x.id \in Int
    BY DEF AreBooks
  <2>. QED BY <2>1, InOrderLists DEF AreBooks
<1>2. PICK m, ls : m \in Nat /\ ls = InOrder(R, "date") /\ m = Cardinality(R) /\ Lists(ls, R)
  <2>1. \A x \in R : x["date"] \in Int /\ x.id \in Int
    BY LineFields DEF IsStatement
  <2>. QED BY <2>1, InOrderLists DEF IsStatement
<1>3. /\ es \in [1 .. n -> E] /\ ls \in [1 .. m -> R]
      /\ \A i, j \in 1 .. n : i # j => es[i] # es[j]
  BY <1>1, <1>2 DEF Lists
<1>4. PICK one : /\ one = FoldLeft(LAMBDA acc, e : ByReference(acc, e, R), Nothing, es)
                 /\ Sound(one, E, R)
  BY <1>1, <1>3, ReferencesAreSound
<1>5. PICK two : /\ two = FoldLeft(LAMBDA acc, e : ByAmount(acc, e, E, R), one, es)
                 /\ Sound(two, E, R)
  BY <1>1, <1>3, <1>4, AmountsAreSound
<1>6. PICK three : /\ three = FoldLeft(LAMBDA acc, l : ManyToOne(acc, l, E), two, ls)
                   /\ Sound(three, E, R)
  BY <1>2, <1>3, <1>5, ManyAreSound
<1>7. PICK four : /\ four = FoldLeft(LAMBDA acc, e : OneToMany(acc, e, R), three, es)
                  /\ Sound(four, E, R)
  BY <1>1, <1>3, <1>6, SeveralAreSound
<1>8. Propose(E, R) = four.out
  BY <1>1, <1>2, <1>4, <1>5, <1>6, <1>7 DEF Propose
<1>9. four.out \in Seq(Proposal(E, R)) /\ ShareNothing(four.out)
  BY <1>7 DEF Sound, Account
<1>10. NeverMoreThanExpected(four.out, E, R)
  BY <1>7 DEF Sound, NeverMoreThanExpected, Fair
<1>. QED BY <1>8, <1>9, <1>10

-----------------------------------------------------------------------------
(* Reversals, and what a run of the matching writes.                       *)

\* Reversals are found as pairs of lines (find_reversals).
LEMMA ReversalsAreFound ==
    ASSUME NEW R, IsStatement(R)
    PROVE  FindReversals(R) \in Seq(LineNo \X LineNo)
<1>. PICK D : D = {l \in R : l.debit > 0}
  OBVIOUS
<1>1. PICK n, q : n \in Nat /\ q = InOrder(D, "date") /\ q \in [1 .. n -> D]
  <2>1. IsFiniteSet(D) /\ \A x \in D : x["date"] \in Int /\ x.id \in Int
    BY FS_Subset, LineFields DEF IsStatement
  <2>2. \A x, y \in D : x.id = y.id => x = y
    BY DEF IsStatement
  <2>. QED BY <2>1, <2>2, InOrderLists DEF Lists
<1>. PICK Fine : Fine = [taken : SUBSET R, pairs : Seq(LineNo \X LineNo)]
  OBVIOUS
<1>. PICK base : base = [taken |-> {}, pairs |-> <<>>]
  OBVIOUS
<1>. PICK G : G = [p \in Fine \X (1 .. n) |-> TakeBack(p[1], q[p[2]], R)]
  OBVIOUS
<1>. DEFINE Is(h) == h = [T \in SUBSET (1 .. n) |->
                           IF T = {} THEN base ELSE TakeBack(h[T \ {Max(T)}], q[Max(T)], R)]
<1>2. ASSUME NEW v \in Fine, NEW i \in 1 .. n
      PROVE  G[v, i] = TakeBack(v, q[i], R) /\ G[v, i] \in Fine
  <2>1. G[v, i] = TakeBack(v, q[i], R)
    OBVIOUS
  <2>. DEFINE undone == {c \in R \ v.taken : Undoes(q[i], c)}
  <2>2. CASE undone = {}
    BY <2>1, <2>2 DEF TakeBack
  <2>3. CASE undone # {}
    <3>1. PICK c : c = First(undone)
      OBVIOUS
    <3>2. c \in R /\ q[i] \in R
      <4>1. undone \in SUBSET R
        OBVIOUS
      <4>. HIDE DEF undone
      <4>. QED BY <1>1, <2>3, <3>1, <4>1, FirstIsOne
    <3>3. <<c.id, q[i].id>> \in LineNo \X LineNo
      BY <3>2 DEF IsStatement, IsLine
    <3>4. Append(v.pairs, <<c.id, q[i].id>>) \in Seq(LineNo \X LineNo)
      BY <3>3
    <3>5. TakeBack(v, q[i], R)
            = [taken |-> v.taken \cup {c}, pairs |-> Append(v.pairs, <<c.id, q[i].id>>)]
      BY <2>3, <3>1 DEF TakeBack
    <3>6. PICK taken \in SUBSET R, pairs \in Seq(LineNo \X LineNo) :
            taken = v.taken \cup {c} /\ pairs = Append(v.pairs, <<c.id, q[i].id>>)
      BY <3>2, <3>4
    <3>7. [taken |-> taken, pairs |-> pairs] \in Fine
      OBVIOUS
    <3>. QED BY <2>1, <3>5, <3>6, <3>7
  <2>. QED BY <2>2, <2>3
<1>3. base \in Fine
  <2>1. <<>> \in Seq(LineNo \X LineNo)
    OBVIOUS
  <2>. QED BY <2>1
<1>4. PICK h : IsFold(n, base, G, h) /\ \A T \in SUBSET (1 .. n) : h[T] \in Fine
  BY <1>1, <1>2, <1>3, FoldOfList
<1>5. Is(h)
  <2>1. ASSUME NEW T \in SUBSET (1 .. n), T # {}
        PROVE  G[h[T \ {Max(T)}], Max(T)] = TakeBack(h[T \ {Max(T)}], q[Max(T)], R)
    <3>1. Max(T) \in 1 .. n /\ T \ {Max(T)} \in SUBSET (1 .. n)
      BY <1>1, <2>1, PlacesAreTaken
    <3>. QED BY <1>2, <1>4, <3>1
  <2>. QED BY <1>4, <2>1 DEF IsFold
<1>6. PICK k : Is(k) /\ k = CHOOSE g : Is(g)
  <2>. HIDE DEF Is
  <2>. QED BY <1>5
<1>7. TakesGoodSteps(n, base, G, (SUBSET (1 .. n)) \X Fine, k)
  <2>1. ASSUME NEW T \in SUBSET (1 .. n), T # {}, k[T \ {Max(T)}] \in Fine
        PROVE  k[T] = G[k[T \ {Max(T)}], Max(T)]
    <3>1. Max(T) \in 1 .. n
      BY <1>1, <2>1, PlacesAreTaken
    <3>2. k[T] = TakeBack(k[T \ {Max(T)}], q[Max(T)], R)
      BY <1>6, <2>1
    <3>. QED BY <1>2, <2>1, <3>1, <3>2
  <2>2. k[{}] = base
    BY <1>6
  <2>. QED BY <2>1, <2>2 DEF TakesGoodSteps
<1>8. k[1 .. n] \in Fine
  BY <1>1, <1>2, <1>3, <1>7, FoldOfList
<1>9. FindReversals(R) = k[1 .. n].pairs
  <2>1. FindReversals(R) = FoldLeft(LAMBDA acc, d : TakeBack(acc, d, R), base, q).pairs
    BY <1>1 DEF FindReversals
  <2>2. FoldLeft(LAMBDA acc, d : TakeBack(acc, d, R), base, q) = k[1 .. n]
    BY <1>1, <1>6, ZenonT(60) DEF FoldLeft, MapThenFoldSet
  <2>. QED BY <2>1, <2>2
<1>. QED BY <1>8, <1>9

\* So are those that are left to pair.
LEMMA LeftToPair ==
    ASSUME IsStatement(bankLines), NEW ms
    PROVE  ToPair(ms) \in Seq(LineNo \X LineNo)
<1>1. PICK n, q : n \in Nat /\ q = FindReversals(bankLines) /\ q \in [1 .. n -> LineNo \X LineNo]
  <2>1. FindReversals(bankLines) \in Seq(LineNo \X LineNo)
    BY ReversalsAreFound
  <2>2. PICK p \in Seq(LineNo \X LineNo) : p = FindReversals(bankLines)
    BY <2>1
  <2>3. Len(p) \in Nat /\ p \in [1 .. Len(p) -> LineNo \X LineNo]
    OBVIOUS
  <2>. QED BY <2>2, <2>3
<1>. PICK Fine : Fine = Seq(LineNo \X LineNo)
  OBVIOUS
<1>. DEFINE Step(v, p) == IF MayPair(ms, p) THEN Append(v, p) ELSE v
<1>. PICK G : G = [p \in Fine \X (1 .. n) |-> Step(p[1], q[p[2]])]
  OBVIOUS
<1>. DEFINE Is(h) == h = [T \in SUBSET (1 .. n) |->
                           IF T = {} THEN <<>> ELSE Step(h[T \ {Max(T)}], q[Max(T)])]
<1>2. ASSUME NEW v \in Fine, NEW i \in 1 .. n
      PROVE  G[v, i] = Step(v, q[i]) /\ G[v, i] \in Fine
  <2>1. q[i] \in LineNo \X LineNo
    BY <1>1
  <2>2. Append(v, q[i]) \in Fine
    BY <2>1
  <2>. QED BY <2>2
<1>3. <<>> \in Fine
  OBVIOUS
<1>. HIDE DEF Step
<1>4. PICK h : IsFold(n, <<>>, G, h) /\ \A T \in SUBSET (1 .. n) : h[T] \in Fine
  BY <1>1, <1>2, <1>3, FoldOfList
<1>5. Is(h)
  <2>1. ASSUME NEW T \in SUBSET (1 .. n), T # {}
        PROVE  G[h[T \ {Max(T)}], Max(T)] = Step(h[T \ {Max(T)}], q[Max(T)])
    <3>1. Max(T) \in 1 .. n /\ T \ {Max(T)} \in SUBSET (1 .. n)
      BY <1>1, <2>1, PlacesAreTaken
    <3>. QED BY <1>2, <1>4, <3>1
  <2>. QED BY <1>4, <2>1 DEF IsFold
<1>6. PICK k : Is(k) /\ k = CHOOSE g : Is(g)
  <2>. HIDE DEF Is
  <2>. QED BY <1>5
<1>7. TakesGoodSteps(n, <<>>, G, (SUBSET (1 .. n)) \X Fine, k)
  <2>1. ASSUME NEW T \in SUBSET (1 .. n), T # {}, k[T \ {Max(T)}] \in Fine
        PROVE  k[T] = G[k[T \ {Max(T)}], Max(T)]
    <3>1. Max(T) \in 1 .. n
      BY <1>1, <2>1, PlacesAreTaken
    <3>2. k[T] = Step(k[T \ {Max(T)}], q[Max(T)])
      BY <1>6, <2>1
    <3>. QED BY <1>2, <2>1, <3>1, <3>2
  <2>2. k[{}] = <<>>
    BY <1>6
  <2>. QED BY <2>1, <2>2 DEF TakesGoodSteps
<1>8. k[1 .. n] \in Fine
  BY <1>1, <1>2, <1>3, <1>7, FoldOfList
<1>9. ToPair(ms) = k[1 .. n]
  <2>1. ToPair(ms) = FoldLeft(LAMBDA v, p : Step(v, p), <<>>, q)
    BY <1>1 DEF ToPair, Step
  <2>2. FoldLeft(LAMBDA v, p : Step(v, p), <<>>, q) = k[1 .. n]
    BY <1>1, <1>6, ZenonT(60) DEF FoldLeft, MapThenFoldSet
  <2>. QED BY <2>1, <2>2
<1>. QED BY <1>8, <1>9

-----------------------------------------------------------------------------
(* Matches that are written.                                               *)

\* What was locked still is, with the status it had.
LocksKept(ms, out) ==
    \A m \in ms : m.locked => \E n \in out : n.id = m.id /\ n.status = m.status /\ n.locked

LEMMA MatchFields ==
    ASSUME NEW m \in MatchForm
    PROVE  /\ m.id \in Nat /\ m.kind \in {"match", "not_ours", "reversal"}
           /\ m.status \in {"suggested", "confirmed", "void"} /\ m.locked \in BOOLEAN
           /\ m.charges \in Charge /\ m.exps \in SUBSET Source /\ m.rows \in SUBSET LineNo
BY DEF MatchForm

\* The next match, which takes nothing that another one has.
IsNext(new, ms) ==
    /\ new \in MatchForm /\ new.id = Cardinality(ms) + 1
    /\ ~ new.locked /\ new.status # "void"
    /\ \A n \in LiveMatches(ms) :
          /\ n.exps \cap new.exps = {}
          /\ n.rows \cap new.rows # {} => {n.kind, new.kind} = {"not_ours", "reversal"}

LEMMA NextMatch ==
    ASSUME NEW ms, MatchesAreKept(ms),
           NEW kind \in {"match", "not_ours", "reversal"}, NEW st \in {"suggested", "confirmed"},
           NEW charges \in Charge, NEW exps \in SUBSET Source, NEW rws \in SUBSET LineNo,
           NEW new, new = Match(ms, kind, st, charges, exps, rws)
    PROVE  /\ new \in MatchForm /\ new.id = Cardinality(ms) + 1 /\ new.kind = kind
           /\ ~ new.locked /\ new.status # "void" /\ new.exps = exps /\ new.rows = rws
<1>1. /\ Cardinality(ms) + 1 \in Nat /\ FALSE \in BOOLEAN
      /\ st \in {"suggested", "confirmed", "void"} /\ st # "void"
  BY FS_CardinalityType DEF MatchesAreKept, MatchesAreNumbered
<1>. QED BY <1>1 DEF Match, MatchForm

LEMMA MatchAdded ==
    ASSUME NEW ms, MatchesAreKept(ms), NEW new, IsNext(new, ms)
    PROVE  /\ MatchesAreKept(ms \cup {new}) /\ LocksKept(ms, ms \cup {new})
           /\ LiveMatches(ms \cup {new}) = LiveMatches(ms) \cup {new}
<1>1. /\ IsFiniteSet(ms) /\ Cardinality(ms) \in Nat
      /\ \A m \in ms : m \in MatchForm /\ m.id \in 1 .. Cardinality(ms)
      /\ \A m, n \in ms : m.id = n.id => m = n
      /\ \A m \in ms : m.locked => m.status = "confirmed"
  BY FS_CardinalityType DEF MatchesAreKept, MatchesAreNumbered
<1>2. /\ new \in MatchForm /\ new.id = Cardinality(ms) + 1
      /\ new.status # "void" /\ ~ new.locked
  BY DEF IsNext
<1>3. \A m \in ms : m.id # new.id
  BY <1>1, <1>2, MatchFields
<1>4. PICK out : out = ms \cup {new}
  OBVIOUS
<1>5. IsFiniteSet(out) /\ Cardinality(out) = Cardinality(ms) + 1
  BY <1>1, <1>3, <1>4, FS_AddElement
<1>6. MatchesAreNumbered(out)
  <2>1. \A m \in out : m.id \in 1 .. Cardinality(out)
    BY <1>1, <1>2, <1>4, <1>5, MatchFields
  <2>. QED BY <1>1, <1>3, <1>4, <1>5, <2>1 DEF MatchesAreNumbered
<1>7. LiveMatches(out) = LiveMatches(ms) \cup {new}
  BY <1>2, <1>4 DEF LiveMatches
<1>8. \A m, n \in LiveMatches(out) : m # n =>
          /\ m.exps \cap n.exps = {}
          /\ m.rows \cap n.rows # {} => {m.kind, n.kind} = {"not_ours", "reversal"}
  <2>1. ASSUME NEW n \in LiveMatches(ms)
        PROVE  /\ n.exps \cap new.exps = {} /\ new.exps \cap n.exps = {}
               /\ n.rows \cap new.rows # {} => {n.kind, new.kind} = {"not_ours", "reversal"}
               /\ new.rows \cap n.rows # {} => {new.kind, n.kind} = {"not_ours", "reversal"}
    BY DEF IsNext
  <2>2. ASSUME NEW m \in LiveMatches(ms), NEW n \in LiveMatches(ms), m # n
        PROVE  /\ m.exps \cap n.exps = {}
               /\ m.rows \cap n.rows # {} => {m.kind, n.kind} = {"not_ours", "reversal"}
    BY <2>2 DEF MatchesAreKept
  <2>3. ASSUME NEW m \in LiveMatches(out), NEW n \in LiveMatches(out), m # n
        PROVE  /\ m.exps \cap n.exps = {}
               /\ m.rows \cap n.rows # {} => {m.kind, n.kind} = {"not_ours", "reversal"}
    <3>1. \/ m \in LiveMatches(ms) /\ n \in LiveMatches(ms)
          \/ m \in LiveMatches(ms) /\ n = new
          \/ m = new /\ n \in LiveMatches(ms)
      BY <1>7, <2>3
    <3>. QED BY <2>1, <2>2, <2>3, <3>1
  <2>. QED BY <2>3
<1>9. MatchesAreKept(out)
  BY <1>1, <1>2, <1>4, <1>6, <1>8 DEF MatchesAreKept
<1>10. LocksKept(ms, out)
  BY <1>4 DEF LocksKept
<1>. QED BY <1>4, <1>7, <1>9, <1>10

\* Matches whose status or lock is written again.
LEMMA MatchesRewritten ==
    ASSUME NEW ms, MatchesAreKept(ms), NEW g \in [ms -> MatchForm],
           \A m \in ms : /\ g[m].id = m.id /\ g[m].kind = m.kind
                         /\ g[m].exps = m.exps /\ g[m].rows = m.rows
                         /\ m.status = "void" => g[m].status = "void"
                         /\ g[m].locked => g[m].status = "confirmed"
    PROVE  LET out == {g[m] : m \in ms} IN
           /\ MatchesAreKept(out) /\ Cardinality(out) = Cardinality(ms)
           /\ LiveMatches(out) = {g[m] : m \in {k \in LiveMatches(ms) : g[k].status # "void"}}
<1>. PICK out : out = {g[m] : m \in ms}
  OBVIOUS
<1>1. /\ IsFiniteSet(ms)
      /\ \A m \in ms : m \in MatchForm /\ m.id \in 1 .. Cardinality(ms)
      /\ \A m, n \in ms : m.id = n.id => m = n
  BY DEF MatchesAreKept, MatchesAreNumbered
<1>2. \A m, n \in ms : g[m] = g[n] => m = n
  <2>. SUFFICES ASSUME NEW m \in ms, NEW n \in ms, g[m] = g[n] PROVE m.id = n.id
    BY <1>1
  <2>. QED OBVIOUS
<1>3. IsFiniteSet(out) /\ Cardinality(out) = Cardinality(ms)
  <2>1. g \in Bijection(ms, out)
    <3>1. g \in [ms -> out]
      OBVIOUS
    <3>. QED BY <1>2, <3>1 DEF Bijection, Injection, Surjection, IsInjective
  <2>. QED BY <1>1, <2>1, FS_Bijection DEF ExistsBijection
<1>4. MatchesAreNumbered(out)
  <2>1. \A n \in out : n.id \in 1 .. Cardinality(out)
    BY <1>1, <1>3
  <2>2. ASSUME NEW m \in ms, NEW n \in ms, g[m].id = g[n].id PROVE g[m] = g[n]
    BY <1>1, <2>2
  <2>. QED BY <1>3, <2>1, <2>2 DEF MatchesAreNumbered
<1>5. LiveMatches(out) = {g[m] : m \in {k \in LiveMatches(ms) : g[k].status # "void"}}
  <2>1. \A m \in ms : g[m].status # "void" => m \in LiveMatches(ms)
    BY DEF LiveMatches
  <2>. QED BY <2>1 DEF LiveMatches
<1>6. ASSUME NEW m \in LiveMatches(out), NEW n \in LiveMatches(out), m # n
      PROVE  /\ m.exps \cap n.exps = {}
             /\ m.rows \cap n.rows # {} => {m.kind, n.kind} = {"not_ours", "reversal"}
  <2>1. PICK a \in LiveMatches(ms), b \in LiveMatches(ms) : m = g[a] /\ n = g[b]
    BY <1>5
  <2>2. a \in ms /\ b \in ms /\ a # b
    BY <1>6, <2>1 DEF LiveMatches
  <2>3. m.exps = a.exps /\ n.exps = b.exps /\ m.rows = a.rows /\ n.rows = b.rows
        /\ m.kind = a.kind /\ n.kind = b.kind
    BY <2>1, <2>2
  <2>. QED BY <2>1, <2>2, <2>3 DEF MatchesAreKept
<1>7. \A m \in out : m \in MatchForm /\ (m.locked => m.status = "confirmed")
  OBVIOUS
<1>8. MatchesAreKept(out)
  BY <1>4, <1>6, <1>7 DEF MatchesAreKept
<1>. QED BY <1>3, <1>5, <1>8

\* A credit and the debit that undoes it (_pair_reversals).
LEMMA PairKeeps ==
    ASSUME NEW ms, MatchesAreKept(ms), NEW pair \in LineNo \X LineNo
    PROVE  MatchesAreKept(PairReversal(ms, pair)) /\ LocksKept(ms, PairReversal(ms, pair))
<1>1. CASE ~ MayPair(ms, pair)
  <2>1. PairReversal(ms, pair) = ms
    BY <1>1 DEF PairReversal
  <2>. QED BY <2>1 DEF LocksKept
<1>2. CASE MayPair(ms, pair)
  <2>1. PICK undone : undone = {m \in LiveMatches(ms) : m.kind = "match" /\ pair[1] \in m.rows}
    OBVIOUS
  <2>2. /\ undone \subseteq ms /\ ms \subseteq MatchForm
        /\ \A m \in undone : ~ m.locked /\ m.status # "void"
    BY <1>2, <2>1 DEF MayPair, LiveMatches, MatchesAreKept
  <2>3. PICK g : g = [m \in ms |-> IF m \in undone THEN [m EXCEPT !.status = "void"] ELSE m]
    OBVIOUS
  <2>4. \A m \in undone : /\ g[m] = [m EXCEPT !.status = "void"] /\ g[m] \in MatchForm
                          /\ g[m].id = m.id /\ g[m].kind = m.kind /\ g[m].exps = m.exps
                          /\ g[m].rows = m.rows /\ g[m].status = "void" /\ g[m].locked = m.locked
    BY <2>2, <2>3 DEF MatchForm
  <2>5. \A m \in ms \ undone : g[m] = m
    BY <2>3
  <2>6. g \in [ms -> MatchForm]
    BY <2>2, <2>3, <2>4
  <2>7. \A m \in ms : /\ g[m].id = m.id /\ g[m].kind = m.kind
                      /\ g[m].exps = m.exps /\ g[m].rows = m.rows
                      /\ m.status = "void" => g[m].status = "void"
                      /\ g[m].locked => g[m].status = "confirmed"
    <3>1. \A m \in ms : m.locked => m.status = "confirmed"
      BY DEF MatchesAreKept
    <3>. QED BY <2>2, <2>4, <2>5, <3>1
  <2>8. PICK out : out = {g[m] : m \in ms}
    OBVIOUS
  <2>9. /\ MatchesAreKept(out) /\ Cardinality(out) = Cardinality(ms)
        /\ LiveMatches(out) = {g[m] : m \in {k \in LiveMatches(ms) : g[k].status # "void"}}
    BY <2>6, <2>7, <2>8, MatchesRewritten
  <2>10. out = (ms \ undone) \cup {[m EXCEPT !.status = "void"] : m \in undone}
    <3>1. PICK voided : voided = {[m EXCEPT !.status = "void"] : m \in undone}
      OBVIOUS
    <3>2. \A m \in undone : m \in ms /\ g[m] \in voided
      BY <2>2, <2>4, <3>1
    <3>3. \A v \in voided : \E m \in undone : v = g[m]
      BY <2>4, <3>1
    <3>4. out = (ms \ undone) \cup voided
      BY <2>5, <2>8, <3>2, <3>3
    <3>. QED BY <3>1, <3>4
  <2>11. PairReversal(ms, pair)
           = out \cup {Match(out, "reversal", "confirmed", 0, {}, {pair[1], pair[2]})}
    <3>1. PairReversal(ms, pair)
            = (ms \ undone) \cup {[m EXCEPT !.status = "void"] : m \in undone}
                \cup {Match(ms, "reversal", "confirmed", 0, {}, {pair[1], pair[2]})}
      BY <1>2, <2>1 DEF PairReversal
    <3>. QED BY <2>9, <2>10, <3>1 DEF Match
  <2>12. ASSUME NEW n \in LiveMatches(out)
         PROVE  /\ n.exps \cap {} = {}
                /\ n.rows \cap {pair[1], pair[2]} # {} => {n.kind, "reversal"} = {"not_ours", "reversal"}
    <3>1. n \in LiveMatches(ms) /\ n \notin undone
      <4>1. PICK m \in LiveMatches(ms) : n = g[m] /\ g[m].status # "void"
        BY <2>9
      <4>2. m \in ms /\ m \notin undone
        BY <2>4, <4>1 DEF LiveMatches
      <4>. QED BY <2>5, <4>1, <4>2
    <3>2. n.rows \subseteq ClaimedR(ms)
      BY <3>1 DEF ClaimedR
    <3>3. pair[2] \notin n.rows
      BY <1>2, <3>2 DEF MayPair
    <3>4. pair[1] \in n.rows => n.kind = "not_ours"
      <4>1. n \in MatchForm
        BY <2>2, <3>1 DEF LiveMatches
      <4>. QED BY <1>2, <2>1, <3>1, <4>1, MatchFields DEF MayPair
    <3>. QED BY <3>3, <3>4
  <2>13. pair[1] \in LineNo /\ pair[2] \in LineNo /\ 0 \in Charge
    BY LessIsCharge
  <2>14. PICK rws \in SUBSET LineNo : rws = {pair[1], pair[2]}
    BY <2>13
  <2>15. PICK exps \in SUBSET Source : exps = {}
    OBVIOUS
  <2>16. PICK new : new = Match(out, "reversal", "confirmed", 0, exps, rws)
    OBVIOUS
  <2>17. MatchesAreKept(out \cup {new}) /\ LocksKept(out, out \cup {new})
    <3>1. \A n \in LiveMatches(out) :
             /\ n.exps \cap exps = {}
             /\ n.rows \cap rws # {} => {n.kind, "reversal"} = {"not_ours", "reversal"}
      BY <2>12, <2>14, <2>15
    <3>2. MatchesAreKept(out)
      BY <2>9
    <3>3. /\ new \in MatchForm /\ new.id = Cardinality(out) + 1 /\ new.kind = "reversal"
          /\ ~ new.locked /\ new.status # "void" /\ new.exps = exps /\ new.rows = rws
      BY <2>13, <2>16, <3>2, NextMatch
    <3>4. IsNext(new, out)
      BY <3>1, <3>3 DEF IsNext
    <3>. QED BY <3>2, <3>4, MatchAdded
  <2>18. LocksKept(ms, out \cup {new})
    <3>1. \A m \in ms : m.locked => m \in out
      BY <2>2, <2>5, <2>8
    <3>. QED BY <3>1 DEF LocksKept
  <2>. QED BY <2>11, <2>14, <2>15, <2>16, <2>17, <2>18
<1>. QED BY <1>1, <1>2

LEMMA LocksStayKept ==
    ASSUME NEW a, NEW b, NEW c, LocksKept(a, b), LocksKept(b, c)
    PROVE  LocksKept(a, c)
<1>1. ASSUME NEW m \in a, m.locked
      PROVE  \E n \in c : n.id = m.id /\ n.status = m.status /\ n.locked
  <2>1. PICK k \in b : k.id = m.id /\ k.status = m.status /\ k.locked
    BY <1>1 DEF LocksKept
  <2>2. PICK n \in c : n.id = k.id /\ n.status = k.status /\ n.locked
    BY <2>1 DEF LocksKept
  <2>. QED BY <2>1, <2>2
<1>. QED BY <1>1 DEF LocksKept

\* All the reversals that are found.
LEMMA ReversalsKeep ==
    ASSUME NEW ms, MatchesAreKept(ms), NEW pairs \in Seq(LineNo \X LineNo)
    PROVE  MatchesAreKept(AfterReversals(pairs, ms)) /\ LocksKept(ms, AfterReversals(pairs, ms))
<1>1. PICK n, q : n \in Nat /\ q = pairs /\ q \in [1 .. n -> LineNo \X LineNo]
  <2>1. Len(pairs) \in Nat /\ pairs \in [1 .. Len(pairs) -> LineNo \X LineNo]
    OBVIOUS
  <2>. QED BY <2>1
<1>2. PICK Fine : Fine = {v \in SUBSET MatchForm : MatchesAreKept(v) /\ LocksKept(ms, v)}
  OBVIOUS
<1>3. \A v : v \in Fine <=> MatchesAreKept(v) /\ LocksKept(ms, v)
  BY <1>2 DEF MatchesAreKept
<1>4. PICK G : G = [p \in Fine \X (1 .. n) |-> PairReversal(p[1], q[p[2]])]
  OBVIOUS
<1>. DEFINE Is(h) == h = [T \in SUBSET (1 .. n) |->
                           IF T = {} THEN ms ELSE PairReversal(h[T \ {Max(T)}], q[Max(T)])]
<1>5. ASSUME NEW v \in Fine, NEW i \in 1 .. n
      PROVE  G[v, i] = PairReversal(v, q[i]) /\ G[v, i] \in Fine
  <2>1. G[v, i] = PairReversal(v, q[i])
    BY <1>4
  <2>2. q[i] \in LineNo \X LineNo
    BY <1>1
  <2>3. PICK pair \in LineNo \X LineNo : pair = q[i]
    BY <2>2
  <2>4. MatchesAreKept(v) /\ LocksKept(ms, v)
    BY <1>3
  <2>5. MatchesAreKept(PairReversal(v, pair)) /\ LocksKept(v, PairReversal(v, pair))
    BY <2>4, PairKeeps
  <2>. QED BY <1>3, <2>1, <2>3, <2>4, <2>5, LocksStayKept
<1>6. ms \in Fine
  BY <1>3 DEF LocksKept
<1>7. PICK h : IsFold(n, ms, G, h) /\ \A T \in SUBSET (1 .. n) : h[T] \in Fine
  BY <1>1, <1>5, <1>6, FoldOfList
<1>8. Is(h)
  <2>1. ASSUME NEW T \in SUBSET (1 .. n), T # {}
        PROVE  G[h[T \ {Max(T)}], Max(T)] = PairReversal(h[T \ {Max(T)}], q[Max(T)])
    <3>1. Max(T) \in 1 .. n /\ T \ {Max(T)} \in SUBSET (1 .. n)
      BY <1>1, <2>1, PlacesAreTaken
    <3>. QED BY <1>5, <1>7, <3>1
  <2>. QED BY <1>7, <2>1 DEF IsFold
<1>9. PICK k : Is(k) /\ k = CHOOSE g : Is(g)
  <2>. HIDE DEF Is
  <2>. QED BY <1>8
<1>10. TakesGoodSteps(n, ms, G, (SUBSET (1 .. n)) \X Fine, k)
  <2>1. ASSUME NEW T \in SUBSET (1 .. n), T # {}, k[T \ {Max(T)}] \in Fine
        PROVE  k[T] = G[k[T \ {Max(T)}], Max(T)]
    <3>1. Max(T) \in 1 .. n
      BY <1>1, <2>1, PlacesAreTaken
    <3>2. k[T] = PairReversal(k[T \ {Max(T)}], q[Max(T)])
      BY <1>9, <2>1
    <3>. QED BY <1>5, <2>1, <3>1, <3>2
  <2>2. k[{}] = ms
    BY <1>9
  <2>. QED BY <2>1, <2>2 DEF TakesGoodSteps
<1>11. k[1 .. n] \in Fine
  BY <1>1, <1>5, <1>6, <1>10, FoldOfList
<1>12. AfterReversals(pairs, ms) = k[1 .. n]
  <2>1. AfterReversals(pairs, ms) = FoldLeft(LAMBDA acc, p : PairReversal(acc, p), ms, q)
    BY <1>1 DEF AfterReversals
  <2>2. FoldLeft(LAMBDA acc, p : PairReversal(acc, p), ms, q) = k[1 .. n]
    BY <1>1, <1>9, ZenonT(60) DEF FoldLeft, MapThenFoldSet
  <2>. QED BY <2>1, <2>2
<1>. QED BY <1>3, <1>11, <1>12

\* Proposals that share nothing, of what no match claims, are all written.
LEMMA ProposalsKeep ==
    ASSUME NEW ms, MatchesAreKept(ms),
           NEW ps \in Seq([exps : SUBSET Source, lines : SUBSET LineNo, auto : BOOLEAN, charges : Charge]),
           ShareNothing(ps),
           \A i \in DOMAIN ps : /\ ps[i].exps \cap ClaimedE(ms) = {}
                                /\ ps[i].lines \cap ClaimedR(ms) = {}
    PROVE  LET out == FoldLeft(LAMBDA v, p : AddProposal(v, p), ms, ps) IN
           MatchesAreKept(out) /\ LocksKept(ms, out)
<1>1. PICK n, q : /\ n \in Nat /\ q = ps /\ DOMAIN ps = 1 .. n
                  /\ q \in [1 .. n -> [exps : SUBSET Source, lines : SUBSET LineNo, auto : BOOLEAN,
                                       charges : Charge]]
  <2>1. PICK P : P = [exps : SUBSET Source, lines : SUBSET LineNo, auto : BOOLEAN, charges : Charge]
    OBVIOUS
  <2>2. ps \in Seq(P)
    BY <2>1
  <2>3. Len(ps) \in Nat /\ DOMAIN ps = 1 .. Len(ps) /\ ps \in [1 .. Len(ps) -> P]
    BY <2>2
  <2>. QED BY <2>1, <2>3
<1>. DEFINE Known(T, m) == \/ m \in LiveMatches(ms)
                           \/ \E i \in T : m.exps = q[i].exps /\ m.rows = q[i].lines
            Fine(T, v) == /\ MatchesAreKept(v) /\ LocksKept(ms, v)
                          /\ \A m \in LiveMatches(v) : Known(T, m)
<1>2. PICK Good : Good = {p \in (SUBSET (1 .. n)) \X (SUBSET MatchForm) : Fine(p[1], p[2])}
  OBVIOUS
<1>3. ASSUME NEW T \in SUBSET (1 .. n), NEW v
      PROVE  <<T, v>> \in Good <=> Fine(T, v)
  <2>1. <<T, v>> \in Good <=> v \subseteq MatchForm /\ Fine(T, v)
    <3>. HIDE DEF Fine
    <3>. QED BY <1>2
  <2>. QED BY <2>1 DEF MatchesAreKept
<1>4. PICK G : G = [p \in (SUBSET MatchForm) \X (1 .. n) |-> AddProposal(p[1], q[p[2]])]
  OBVIOUS
<1>. DEFINE Is(h) == h = [T \in SUBSET (1 .. n) |->
                           IF T = {} THEN ms ELSE AddProposal(h[T \ {Max(T)}], q[Max(T)])]
<1>5. ASSUME NEW T \in SUBSET (1 .. n), NEW v, T # {}, <<T \ {Max(T)}, v>> \in Good
      PROVE  /\ G[v, Max(T)] = AddProposal(v, q[Max(T)])
             /\ <<T, AddProposal(v, q[Max(T)])>> \in Good
  <2>1. PICK i \in 1 .. n : i = Max(T) /\ i \in T
    BY <1>1, <1>5, PlacesAreTaken
  <2>2. Fine(T \ {i}, v)
    <3>1. T \ {i} \in SUBSET (1 .. n)
      OBVIOUS
    <3>. HIDE DEF Fine
    <3>. QED BY <1>3, <1>5, <2>1, <3>1
  <2>3. /\ q[i].exps \in SUBSET Source /\ q[i].lines \in SUBSET LineNo /\ q[i].charges \in Charge
        /\ q[i].auto \in BOOLEAN
    BY <1>1
  <2>4. ASSUME NEW m \in LiveMatches(v)
        PROVE  m.exps \cap q[i].exps = {} /\ m.rows \cap q[i].lines = {}
    <3>1. CASE m \in LiveMatches(ms)
      <4>1. m.exps \subseteq ClaimedE(ms) /\ m.rows \subseteq ClaimedR(ms)
        BY <3>1 DEF ClaimedE, ClaimedR
      <4>. QED BY <1>1, <4>1
    <3>2. CASE \E k \in T \ {i} : m.exps = q[k].exps /\ m.rows = q[k].lines
      <4>1. PICK k \in 1 .. n : k # i /\ m.exps = q[k].exps /\ m.rows = q[k].lines
        BY <3>2
      <4>. QED BY <1>1, <4>1 DEF ShareNothing
    <3>. QED BY <2>2, <3>1, <3>2
  <2>5. PICK st \in {"suggested", "confirmed"} : st = IF q[i].auto THEN "confirmed" ELSE "suggested"
    OBVIOUS
  <2>6. PICK new : new = Match(v, "match", st, q[i].charges, q[i].exps, q[i].lines)
    OBVIOUS
  <2>7. AddProposal(v, q[i]) = v \cup {new}
    BY <2>5, <2>6 DEF AddProposal
  <2>8. MatchesAreKept(v)
    BY <2>2
  <2>9. /\ MatchesAreKept(v \cup {new}) /\ LocksKept(v, v \cup {new})
        /\ LiveMatches(v \cup {new}) = LiveMatches(v) \cup {new}
        /\ new.exps = q[i].exps /\ new.rows = q[i].lines
    <3>. HIDE DEF Fine
    <3>1. PICK charges \in Charge, exps \in SUBSET Source, rws \in SUBSET LineNo :
            charges = q[i].charges /\ exps = q[i].exps /\ rws = q[i].lines
      BY <2>3
    <3>2. new = Match(v, "match", st, charges, exps, rws)
      BY <2>6, <3>1
    <3>3. /\ new \in MatchForm /\ new.id = Cardinality(v) + 1 /\ new.kind = "match"
          /\ ~ new.locked /\ new.status # "void" /\ new.exps = exps /\ new.rows = rws
      BY <2>8, <3>2, NextMatch
    <3>4. IsNext(new, v)
      BY <2>4, <3>1, <3>3 DEF IsNext
    <3>. QED BY <2>8, <3>1, <3>3, <3>4, MatchAdded
  <2>10. LocksKept(ms, v \cup {new})
    BY <2>2, <2>9, LocksStayKept
  <2>11. \A m \in LiveMatches(v \cup {new}) : Known(T, m)
    BY <2>1, <2>2, <2>9
  <2>12. Fine(T, v \cup {new})
    BY <2>9, <2>10, <2>11
  <2>13. G[v, i] = AddProposal(v, q[i])
    <3>1. v \in SUBSET MatchForm
      BY <2>2 DEF MatchesAreKept
    <3>. QED BY <1>4, <3>1
  <2>14. <<T, v \cup {new}>> \in Good
    <3>. HIDE DEF Fine
    <3>. QED BY <1>3, <2>12
  <2>. QED BY <2>1, <2>7, <2>13, <2>14
<1>6. PlacesKeep(n, ms, G, Good)
  <2>1. Fine({}, ms)
    BY DEF LocksKept
  <2>2. <<{}, ms>> \in Good
    <3>. HIDE DEF Fine
    <3>. QED BY <1>3, <2>1
  <2>. QED BY <1>5, <2>2 DEF PlacesKeep
<1>. HIDE DEF Fine
<1>7. PICK h : IsFold(n, ms, G, h) /\ GoodOn(1 .. n, Good, h)
  BY <1>1, <1>6, FoldOfPlaces
<1>8. Is(h)
  <2>1. ASSUME NEW T \in SUBSET (1 .. n), T # {}
        PROVE  G[h[T \ {Max(T)}], Max(T)] = AddProposal(h[T \ {Max(T)}], q[Max(T)])
    <3>1. <<T \ {Max(T)}, h[T \ {Max(T)}]>> \in Good
      BY <1>7 DEF GoodOn
    <3>. QED BY <1>5, <2>1, <3>1, Zenon
  <2>. QED BY <1>7, <2>1 DEF IsFold
<1>9. PICK k : Is(k) /\ k = CHOOSE g : Is(g)
  <2>. HIDE DEF Is
  <2>. QED BY <1>8
<1>10. TakesGoodSteps(n, ms, G, Good, k)
  <2>1. ASSUME NEW T \in SUBSET (1 .. n), T # {}, <<T \ {Max(T)}, k[T \ {Max(T)}]>> \in Good
        PROVE  k[T] = G[k[T \ {Max(T)}], Max(T)]
    <3>1. k[T] = AddProposal(k[T \ {Max(T)}], q[Max(T)])
      BY <1>9, <2>1
    <3>2. G[k[T \ {Max(T)}], Max(T)] = AddProposal(k[T \ {Max(T)}], q[Max(T)])
      BY <1>5, <2>1, Zenon
    <3>. QED BY <3>1, <3>2
  <2>2. k[{}] = ms
    BY <1>9
  <2>. QED BY <2>1, <2>2 DEF TakesGoodSteps
<1>11. <<1 .. n, k[1 .. n]>> \in Good
  BY <1>1, <1>6, <1>10, FoldOfPlaces
<1>12. Fine(1 .. n, k[1 .. n])
  BY <1>3, <1>11
<1>13. FoldLeft(LAMBDA v, p : AddProposal(v, p), ms, q) = k[1 .. n]
  BY <1>1, <1>9, ZenonT(60) DEF FoldLeft, MapThenFoldSet
<1>. QED BY <1>1, <1>12, <1>13 DEF Fine

\* No reversals change nothing.
LEMMA NoReversals == ASSUME NEW ms PROVE AfterReversals(<<>>, ms) = ms
<1>. DEFINE Is(h) == h = [T \in SUBSET (1 .. 0) |->
                           IF T = {} THEN ms ELSE PairReversal(h[T \ {Max(T)}], <<>>[Max(T)])]
<1>1. Is([T \in SUBSET (1 .. 0) |-> ms])
  OBVIOUS
<1>2. PICK k : Is(k) /\ k = CHOOSE g : Is(g)
  <2>. HIDE DEF Is
  <2>. QED BY <1>1
<1>3. k[1 .. 0] = ms
  BY <1>2
<1>4. DOMAIN <<>> = 1 .. 0
  OBVIOUS
<1>5. AfterReversals(<<>>, ms) = k[1 .. 0]
  <2>1. AfterReversals(<<>>, ms) = FoldLeft(LAMBDA acc, p : PairReversal(acc, p), ms, <<>>)
    BY DEF AfterReversals
  <2>2. FoldLeft(LAMBDA acc, p : PairReversal(acc, p), ms, <<>>) = k[1 .. 0]
    BY <1>2, <1>4, ZenonT(60) DEF FoldLeft, MapThenFoldSet
  <2>. QED BY <2>1, <2>2
<1>. QED BY <1>3, <1>5

-----------------------------------------------------------------------------
(* The requests of the bank reconciliation.                                *)

\* The statement, what is left of it, and what is expected.
LEMMA StatementIs ==
    ASSUME LinesAreNumbered, NEW R \in SUBSET bankLines
    PROVE  IsStatement(R) /\ Ids(R) \in SUBSET LineNo
BY FS_Subset, LineFields DEF LinesAreNumbered, IsStatement, Ids

LEMMA BooksAre ==
    ASSUME NEW exp, \A k \in Source : IsBooked(exp[k]), NEW ms
    PROVE  AreBooks(ToMatch(exp, ms)) /\ Ids(ToMatch(exp, ms)) \in SUBSET (Source \ ClaimedE(ms))
<1>1. PICK K : K = {i \in Source \ ClaimedE(ms) : exp[i].status = "active"}
  OBVIOUS
<1>2. PICK f : f = [k \in K |->
          [id |-> k, amount |-> exp[k].amount, from |-> exp[k].date, to |-> exp[k].date + Window,
           reference |-> exp[k].reference, direction |-> exp[k].direction]]
  OBVIOUS
<1>3. PICK E : E = {f[k] : k \in K}
  OBVIOUS
<1>4. ToMatch(exp, ms) = E
  BY <1>1, <1>2, <1>3 DEF ToMatch
<1>5. IsFiniteSet(K) /\ K \subseteq Source \ ClaimedE(ms) /\ K \subseteq Nat
  <2>1. IsFiniteSet(Source) /\ Source \subseteq Nat
    <3>1. MaxSources \in Nat /\ IsFiniteSet(1 .. MaxSources)
      BY BankAssumption, FS_Interval
    <3>. QED BY <3>1 DEF Source
  <2>. QED BY <1>1, <2>1, FS_Subset
<1>6. IsFiniteSet(E) /\ Cardinality(E) <= MaxSources
  <2>1. f \in Surjection(K, E)
    BY <1>2, <1>3 DEF Surjection
  <2>2. IsFiniteSet(E) /\ Cardinality(E) <= Cardinality(K)
    BY <1>5, <2>1, FS_Surjection
  <2>3. MaxSources \in Nat /\ IsFiniteSet(Source) /\ Cardinality(Source) = MaxSources
    <3>1. MaxSources \in Nat /\ 1 \in Int /\ MaxSources \in Int
      BY BankAssumption
    <3>2. IsFiniteSet(1 .. MaxSources) /\ Cardinality(1 .. MaxSources) = MaxSources
      BY <3>1, FS_Interval
    <3>. QED BY <3>1, <3>2 DEF Source
  <2>4. Cardinality(K) <= MaxSources
    BY <1>5, <2>3, FS_Subset
  <2>5. Cardinality(E) \in Nat /\ Cardinality(K) \in Nat
    BY <1>5, <2>2, FS_CardinalityType
  <2>. QED BY <2>2, <2>3, <2>4, <2>5
<1>7. \A k \in K : exp[k] # Gone
  BY <1>1 DEF Gone
<1>8. \A k \in K : /\ f[k].id = k /\ f[k].from = exp[k].date /\ f[k].amount = exp[k].amount
                   /\ f[k].direction = exp[k].direction
  BY <1>2
<1>9. ASSUME NEW k \in K
      PROVE  /\ f[k].id \in Nat /\ f[k].from \in Int /\ f[k].amount \in 1 .. MaxTransfer
             /\ f[k].direction \in {"credit", "debit"}
  <2>1. IsBooked(exp[k]) /\ exp[k] # Gone
    BY <1>5, <1>7
  <2>. QED BY <1>5, <1>8, <2>1, BookedFields
<1>10. \A d, e \in E : d.id = e.id => d = e
  BY <1>3, <1>8
<1>11. AreBooks(E)
  BY <1>3, <1>6, <1>9, <1>10 DEF AreBooks
<1>12. Ids(E) \in SUBSET (Source \ ClaimedE(ms))
  BY <1>3, <1>5, <1>8 DEF Ids
<1>. QED BY <1>4, <1>11, <1>12

LEMMA SyncedIsBooked ==
    ASSUME NEW wanted, NEW exp, \A k \in Source : IsBooked(wanted[k])
    PROVE  /\ DOMAIN Synced(wanted, exp) = Source
           /\ \A k \in Source : IsBooked(Synced(wanted, exp)[k])
<1>1. IsBooked(Gone)
  BY DEF IsBooked
<1>. QED BY <1>1 DEF Synced

\* What is proposed for what is unclaimed is free to be matched.
LEMMA ProposedIsFree ==
    ASSUME LinesAreNumbered, NEW exp, \A k \in Source : IsBooked(exp[k]), NEW ms, NEW ps,
           ps = Propose(ToMatch(exp, ms), UnclaimedLines(ms))
    PROVE  /\ ps \in Seq([exps : SUBSET Source, lines : SUBSET LineNo, auto : BOOLEAN, charges : Charge])
           /\ ShareNothing(ps)
           /\ \A i \in DOMAIN ps : /\ ps[i].exps \cap ClaimedE(ms) = {}
                                   /\ ps[i].lines \cap ClaimedR(ms) = {}
<1>1. PICK E : E = ToMatch(exp, ms) /\ AreBooks(E) /\ Ids(E) \in SUBSET (Source \ ClaimedE(ms))
  BY BooksAre
<1>2. PICK R : R = UnclaimedLines(ms) /\ R \in SUBSET bankLines
  BY DEF UnclaimedLines
<1>3. IsStatement(R) /\ Ids(R) \in SUBSET LineNo /\ Ids(R) \cap ClaimedR(ms) = {}
  <2>1. IsStatement(R) /\ Ids(R) \in SUBSET LineNo
    BY <1>2, StatementIs
  <2>2. Ids(R) \cap ClaimedR(ms) = {}
    BY <1>2 DEF UnclaimedLines, Ids
  <2>. QED BY <2>1, <2>2
<1>4. ps \in Seq(Proposal(E, R)) /\ ShareNothing(ps)
  BY <1>1, <1>2, <1>3, ProposeIsSound
<1>5. PICK n \in Nat : DOMAIN ps = 1 .. n /\ ps \in [1 .. n -> Proposal(E, R)]
  <2>1. PICK P : P = Proposal(E, R)
    OBVIOUS
  <2>2. Len(ps) \in Nat /\ DOMAIN ps = 1 .. Len(ps) /\ ps \in [1 .. Len(ps) -> P]
    BY <1>4, <2>1
  <2>. QED BY <2>1, <2>2
<1>6. PICK W : W = [exps : SUBSET Source, lines : SUBSET LineNo, auto : BOOLEAN, charges : Charge]
  OBVIOUS
<1>7. \A p \in Proposal(E, R) : /\ p \in W
                                /\ p.exps \cap ClaimedE(ms) = {} /\ p.lines \cap ClaimedR(ms) = {}
  BY <1>1, <1>3, <1>6 DEF Proposal
<1>8. ps \in Seq(W)
  <2>1. ps \in [1 .. n -> W]
    BY <1>5, <1>7
  <2>. QED BY <2>1
<1>. QED BY <1>4, <1>5, <1>6, <1>7, <1>8

\* A locked match stays as it is.
LockedStay(ms, out) == \A m \in ms : m.locked => \E n \in out : n.id = m.id /\ n.status = m.status

LEMMA LockedStayKept == ASSUME NEW ms, NEW out, LocksKept(ms, out) PROVE LockedStay(ms, out)
BY DEF LocksKept, LockedStay

\* In one window a run matches nothing twice and leaves alone what is locked.
LEMMA RunWritten ==
    ASSUME BankInv, NEW s \in Session, RunWrite(s)
    PROVE  BankTables' /\ (~ mainPC => LockedStay(matches, matches'))
<1>1. PICK j : j = job[s]
  OBVIOUS
<1>2. /\ j # Idle /\ j.kind = "run" /\ BankJob(j) /\ BankTables
      /\ UNCHANGED <<bankLines, sources, mainPC>>
  BY <1>1 DEF RunWrite, Runs, BankInv, End
<1>3. PICK exp : exp = IF j.changed THEN Synced(j.wanted, expected) ELSE expected
  OBVIOUS
<1>4. PICK pairs : pairs = IF j.changed THEN FindReversals(bankLines) ELSE j.pairs
  OBVIOUS
<1>5. PICK paired : paired = AfterReversals(pairs, matches)
  OBVIOUS
<1>6. PICK ps : ps = IF j.changed \/ j.pairs # <<>>
                     THEN Propose(ToMatch(exp, paired), UnclaimedLines(paired)) ELSE j.proposals
  OBVIOUS
<1>7. expected' = exp /\ matches' = FoldLeft(LAMBDA ms, p : AddProposal(ms, p), paired, ps)
  BY <1>1, <1>3, <1>4, <1>5, <1>6 DEF RunWrite
<1>8. DOMAIN exp = Source
  BY <1>2, <1>3 DEF BankTables, Synced
<1>9. ASSUME ~ mainPC
      PROVE  /\ \A k \in Source : IsBooked(exp[k])
             /\ MatchesAreKept(matches') /\ LockedStay(matches, matches')
             /\ Room(matches')
  <2>1. /\ j.wanted = sources /\ j.pairs \in Seq(LineNo \X LineNo)
        /\ j.proposals = Propose(ToMatch(expected, matches), UnclaimedLines(matches))
    BY <1>2, <1>9 DEF BankJob
  <2>2. /\ \A k \in Source : IsBooked(sources[k]) /\ IsBooked(expected[k])
        /\ MatchesAreKept(matches) /\ LinesAreNumbered
    BY <1>2, <1>9 DEF BankTables
  <2>3. \A k \in Source : IsBooked(exp[k])
    BY <1>3, <2>1, <2>2, SyncedIsBooked
  <2>4. pairs \in Seq(LineNo \X LineNo)
    <3>1. IsStatement(bankLines)
      BY <2>2, StatementIs
    <3>. QED BY <1>4, <2>1, <3>1, ReversalsAreFound
  <2>5. MatchesAreKept(paired) /\ LocksKept(matches, paired)
    BY <1>5, <2>2, <2>4, ReversalsKeep
  <2>6. ps = Propose(ToMatch(exp, paired), UnclaimedLines(paired))
    <3>1. CASE j.changed \/ j.pairs # <<>>
      BY <1>6, <3>1
    <3>2. CASE ~ j.changed /\ j.pairs = <<>>
      <4>1. exp = expected /\ paired = matches
        <5>1. paired = AfterReversals(<<>>, matches)
          BY <1>4, <1>5, <3>2
        <5>2. AfterReversals(<<>>, matches) = matches
          BY NoReversals
        <5>. QED BY <1>3, <3>2, <5>1, <5>2
      <4>. QED BY <1>6, <2>1, <3>2, <4>1
    <3>. QED BY <3>1, <3>2
  <2>7. /\ ps \in Seq([exps : SUBSET Source, lines : SUBSET LineNo, auto : BOOLEAN, charges : Charge])
        /\ ShareNothing(ps)
        /\ \A i \in DOMAIN ps : /\ ps[i].exps \cap ClaimedE(paired) = {}
                                /\ ps[i].lines \cap ClaimedR(paired) = {}
    BY <2>2, <2>3, <2>6, ProposedIsFree
  <2>8. MatchesAreKept(matches') /\ LocksKept(paired, matches')
    BY <1>7, <2>5, <2>7, ProposalsKeep
  <2>9. LockedStay(matches, matches')
    BY <2>5, <2>8, LocksStayKept, LockedStayKept
  <2>10. Room(matches')
    BY DEF RunWrite
  <2>. QED BY <2>3, <2>8, <2>9, <2>10
<1>10. LinesAreNumbered'
  BY <1>2 DEF LinesAreNumbered, BankTables
<1>. QED BY <1>2, <1>7, <1>8, <1>9, <1>10 DEF BankTables

\* An answer to a match, and a lock set or lifted (confirm, reject, unmatch,
\* set_lock).
LEMMA MatchChanged ==
    ASSUME BankInv, NEW s \in Session, AnswerWrite(s) \/ LockWrite(s)
    PROVE  BankTables' /\ (~ mainPC => LockedStay(matches, matches'))
<1>1. PICK j : j = job[s]
  OBVIOUS
<1>2. /\ j # Idle /\ BankJob(j) /\ BankTables
      /\ UNCHANGED <<bankLines, sources, expected, mainPC>>
  BY <1>1 DEF AnswerWrite, LockWrite, Runs, BankInv, End
<1>3. PICK g : g = [m \in matches |-> IF m.id # j.id THEN m
                                      ELSE IF AnswerWrite(s) THEN [m EXCEPT !.status = j.status]
                                           ELSE [m EXCEPT !.locked = j.locked]]
  OBVIOUS
<1>4. matches' = {g[m] : m \in matches}
  <2>1. CASE AnswerWrite(s)
    <3>1. matches' = {IF m.id = j.id THEN [m EXCEPT !.status = j.status] ELSE m : m \in matches}
      BY <1>1, <2>1 DEF AnswerWrite
    <3>2. \A m \in matches : g[m] = IF m.id = j.id THEN [m EXCEPT !.status = j.status] ELSE m
      BY <1>3, <2>1
    <3>3. ASSUME NEW x \in matches' PROVE \E m \in matches : x = g[m]
      <4>1. PICK m \in matches : x = IF m.id = j.id THEN [m EXCEPT !.status = j.status] ELSE m
        BY <3>1
      <4>. QED BY <3>2, <4>1
    <3>4. \A m \in matches : g[m] \in matches'
      BY <3>1, <3>2
    <3>. QED BY <3>3, <3>4
  <2>2. CASE ~ AnswerWrite(s)
    <3>1. matches' = {IF m.id = j.id THEN [m EXCEPT !.locked = j.locked] ELSE m : m \in matches}
      BY <1>1, <2>2 DEF LockWrite
    <3>2. \A m \in matches : g[m] = IF m.id = j.id THEN [m EXCEPT !.locked = j.locked] ELSE m
      BY <1>3, <2>2
    <3>3. ASSUME NEW x \in matches' PROVE \E m \in matches : x = g[m]
      <4>1. PICK m \in matches : x = IF m.id = j.id THEN [m EXCEPT !.locked = j.locked] ELSE m
        BY <3>1
      <4>. QED BY <3>2, <4>1
    <3>4. \A m \in matches : g[m] \in matches'
      BY <3>1, <3>2
    <3>. QED BY <3>3, <3>4
  <2>. QED BY <2>1, <2>2
<1>5. ASSUME ~ mainPC
      PROVE  MatchesAreKept(matches') /\ LockedStay(matches, matches') /\ Room(matches')
  <2>1. MatchesAreKept(matches) /\ matches \subseteq MatchForm
    BY <1>2, <1>5 DEF BankTables, MatchesAreKept
  <2>2. ASSUME NEW m \in matches
        PROVE  /\ g[m] \in MatchForm /\ g[m].id = m.id /\ g[m].kind = m.kind
               /\ g[m].exps = m.exps /\ g[m].rows = m.rows
               /\ m.status = "void" => g[m].status = "void"
               /\ g[m].locked => g[m].status = "confirmed"
               /\ m.locked => g[m].status = m.status
    <3>1. m \in MatchForm /\ (m.locked => m.status = "confirmed")
      BY <2>1 DEF MatchesAreKept
    <3>2. CASE m.id # j.id
      BY <1>3, <3>1, <3>2
    <3>3. CASE m.id = j.id /\ AnswerWrite(s)
      <4>1. /\ j.status \in {"confirmed", "void"}
            /\ j.status = "confirmed" => m.status = "suggested"
            /\ j.status = "void" => ~ m.locked
        BY <1>1, <1>2, <1>5, <3>3 DEF BankJob, AnswerWrite, Runs
      <4>2. g[m] = [m EXCEPT !.status = j.status]
        BY <1>3, <3>3
      <4>3. /\ g[m] \in MatchForm /\ g[m].id = m.id /\ g[m].kind = m.kind
            /\ g[m].exps = m.exps /\ g[m].rows = m.rows
            /\ g[m].status = j.status /\ g[m].locked = m.locked
        BY <3>1, <4>1, <4>2 DEF MatchForm
      <4>. QED BY <3>1, <4>1, <4>3
    <3>4. CASE m.id = j.id /\ ~ AnswerWrite(s)
      <4>1. j.locked \in BOOLEAN /\ m.status = "confirmed"
        BY <1>1, <1>2, <1>5, <3>4 DEF BankJob, LockWrite, Runs
      <4>2. g[m] = [m EXCEPT !.locked = j.locked]
        BY <1>3, <3>4
      <4>3. /\ g[m] \in MatchForm /\ g[m].id = m.id /\ g[m].kind = m.kind
            /\ g[m].exps = m.exps /\ g[m].rows = m.rows
            /\ g[m].status = m.status /\ g[m].locked = j.locked
        BY <3>1, <4>1, <4>2 DEF MatchForm
      <4>. QED BY <4>1, <4>3
    <3>. QED BY <3>2, <3>3, <3>4
  <2>3. g \in [matches -> MatchForm]
    BY <1>3, <2>2
  <2>4. MatchesAreKept(matches') /\ Cardinality(matches') = Cardinality(matches)
    BY <1>4, <2>1, <2>2, <2>3, MatchesRewritten
  <2>5. LockedStay(matches, matches')
    BY <1>4, <2>2 DEF LockedStay
  <2>6. Room(matches')
    BY <1>2, <1>5, <2>4 DEF BankTables, Room
  <2>. QED BY <2>4, <2>5, <2>6
<1>6. LinesAreNumbered'
  BY <1>2 DEF LinesAreNumbered, BankTables
<1>. QED BY <1>2, <1>5, <1>6 DEF BankTables

\* A match made by hand (manual_match, mark_not_ours).
LEMMA MadeByHand ==
    ASSUME BankInv, NEW s \in Session, ManualWrite(s)
    PROVE  BankTables' /\ (~ mainPC => LockedStay(matches, matches'))
<1>1. PICK j : j = job[s]
  OBVIOUS
<1>2. /\ j # Idle /\ j.kind = "manual" /\ BankJob(j) /\ BankTables
      /\ UNCHANGED <<bankLines, sources, expected, mainPC>>
  BY <1>1 DEF ManualWrite, Runs, BankInv, End
<1>3. PICK kind \in {"match", "not_ours", "reversal"} :
        kind = IF j.exps = {} THEN "not_ours" ELSE "match"
  OBVIOUS
<1>4. matches' = matches \cup
        {Match(matches, kind, "confirmed", j.charges, j.exps, j.rows)}
  BY <1>1, <1>3 DEF ManualWrite
<1>5. ASSUME ~ mainPC
      PROVE  MatchesAreKept(matches') /\ LockedStay(matches, matches') /\ Room(matches')
  <2>1. /\ j.exps \in SUBSET Source /\ j.rows \in SUBSET LineNo /\ j.charges \in Charge
        /\ MayMatch(j.exps, j.rows) /\ MatchesAreKept(matches)
    BY <1>2, <1>5 DEF BankJob, BankTables
  <2>2. PICK charges \in Charge, exps \in SUBSET Source, rws \in SUBSET LineNo :
          charges = j.charges /\ exps = j.exps /\ rws = j.rows
    BY <2>1
  <2>3. PICK new : new = Match(matches, kind, "confirmed", charges, exps, rws)
    OBVIOUS
  <2>4. /\ new \in MatchForm /\ new.id = Cardinality(matches) + 1 /\ new.kind = kind
        /\ ~ new.locked /\ new.status # "void" /\ new.exps = exps /\ new.rows = rws
    BY <2>1, <2>3, NextMatch
  <2>5. \A n \in LiveMatches(matches) :
           n.exps \subseteq ClaimedE(matches) /\ n.rows \subseteq ClaimedR(matches)
    BY DEF ClaimedE, ClaimedR
  <2>6. exps \cap ClaimedE(matches) = {} /\ rws \cap ClaimedR(matches) = {}
    BY <2>1, <2>2 DEF MayMatch
  <2>7. IsNext(new, matches)
    BY <2>4, <2>5, <2>6 DEF IsNext
  <2>8. matches' = matches \cup {new}
    BY <1>4, <2>2, <2>3
  <2>9. Room(matches')
    BY DEF ManualWrite
  <2>. QED BY <2>1, <2>7, <2>8, <2>9, MatchAdded, LockedStayKept
<1>6. LinesAreNumbered'
  BY <1>2 DEF LinesAreNumbered, BankTables
<1>. QED BY <1>2, <1>5, <1>6 DEF BankTables

\* What the bank and the records elsewhere bring.
LEMMA BankBrings ==
    ASSUME BankTables, ImportStatement \/ RecordSource \/ ChangeSource
    PROVE  BankTables' /\ matches' = matches
<1>1. UNCHANGED <<expected, matches, mainPC, job>>
  BY DEF ImportStatement, RecordSource, ChangeSource, AtOnce, deskVars
<1>2. LastDate \in Nat /\ MaxTransfer \in Nat /\ Directions \subseteq {"credit", "debit"}
  BY BankAssumption
<1>3. ~ mainPC' => \A k \in Source : IsBooked(expected'[k])
  BY <1>1 DEF BankTables
<1>4. ~ mainPC' => MatchesAreKept(matches') /\ Room(matches')
  BY <1>1 DEF BankTables, Room
<1>5. CASE ImportStatement
  <2>1. PICK d \in 1 .. LastDate, n \in 1 .. MaxTransfer, way \in {"credit", "debit"},
             ref \in References, word \in BOOLEAN :
          bankLines' = bankLines \cup
             {[id |-> Cardinality(bankLines) + 1, date |-> d, reference |-> ref,
               credit |-> IF way = "credit" THEN n ELSE 0,
               debit |-> IF way = "debit" THEN n ELSE 0, reversal |-> word]}
    BY <1>5 DEF ImportStatement
  <2>2. PICK l : l = [id |-> Cardinality(bankLines) + 1, date |-> d, reference |-> ref,
               credit |-> IF way = "credit" THEN n ELSE 0,
               debit |-> IF way = "debit" THEN n ELSE 0, reversal |-> word]
    OBVIOUS
  <2>3. /\ IsFiniteSet(bankLines) /\ Cardinality(bankLines) \in Nat
        /\ \A m \in bankLines : IsLine(m) /\ m.id \in Nat /\ m.id <= Cardinality(bankLines)
        /\ \A k, m \in bankLines : k.id = m.id => k = m
    BY FS_CardinalityType, LineFields DEF BankTables, LinesAreNumbered
  <2>4. /\ l.id = Cardinality(bankLines) + 1 /\ l.date = d
        /\ l.credit = IF way = "credit" THEN n ELSE 0
        /\ l.debit = IF way = "debit" THEN n ELSE 0
    BY <2>2
  <2>5. IsLine(l)
    <3>1. MaxLines \in Nat /\ Cardinality(bankLines) < MaxLines
      BY <1>5, BankAssumption DEF ImportStatement
    <3>2. l.id \in LineNo
      BY <2>3, <2>4, <3>1 DEF LineNo
    <3>3. /\ l.date \in Int /\ l.credit \in Nat /\ l.debit \in Nat
          /\ l.credit > 0 \/ l.debit > 0
      BY <1>2, <2>4
    <3>. QED BY <3>2, <3>3 DEF IsLine
  <2>6. \A m \in bankLines : m.id # l.id
    BY <2>3, <2>4
  <2>7. bankLines' = bankLines \cup {l}
    BY <2>1, <2>2
  <2>8. IsFiniteSet(bankLines') /\ Cardinality(bankLines') = Cardinality(bankLines) + 1
    BY <2>3, <2>6, <2>7, FS_AddElement
  <2>9. LinesAreNumbered'
    <3>1. \A m \in bankLines' : IsLine(m) /\ m.id <= Cardinality(bankLines')
      BY <2>3, <2>4, <2>5, <2>7, <2>8
    <3>2. \A k, m \in bankLines' : k.id = m.id => k = m
      BY <2>3, <2>6, <2>7
    <3>. QED BY <2>8, <3>1, <3>2 DEF LinesAreNumbered, IsLine
  <2>10. sources' = sources
    BY <1>5 DEF ImportStatement
  <2>. QED BY <1>1, <1>3, <1>4, <2>9, <2>10 DEF BankTables
<1>6. CASE RecordSource \/ ChangeSource
  <2>1. bankLines' = bankLines
    BY <1>6 DEF RecordSource, ChangeSource
  <2>2. LinesAreNumbered'
    BY <2>1 DEF BankTables, LinesAreNumbered
  <2>3. DOMAIN sources' = Source /\ \A k \in Source : IsBooked(sources'[k])
    <3>1. CASE RecordSource
      <4>1. PICK k \in Source, d \in 1 .. LastDate, n \in 1 .. MaxTransfer, ref \in References,
                 way \in Directions :
              sources' = [sources EXCEPT ![k] = [status |-> "active", amount |-> n, date |-> d,
                                                  reference |-> ref, direction |-> way]]
        BY <3>1 DEF RecordSource
      <4>2. IsBooked([status |-> "active", amount |-> n, date |-> d, reference |-> ref,
                      direction |-> way])
        <5>1. "active" \in {"active", "void"}
          OBVIOUS
        <5>. QED BY <4>1, <5>1 DEF IsBooked, SourceRow
      <4>. QED BY <4>1, <4>2 DEF BankTables
    <3>2. CASE ChangeSource
      <4>1. PICK k \in Source : /\ sources[k].status # "none"
                                /\ \/ sources' = [sources EXCEPT ![k].status = "void"]
                                   \/ \E n \in 1 .. MaxTransfer :
                                        sources' = [sources EXCEPT ![k].amount = n,
                                                                   ![k].status = "active"]
        BY <3>2 DEF ChangeSource
      <4>2. sources[k] # Gone /\ IsBooked(sources[k]) /\ DOMAIN sources = Source
        BY <4>1 DEF Gone, BankTables
      <4>3. sources[k] \in SourceRow
        BY <4>2 DEF IsBooked
      <4>4. DOMAIN sources' = Source /\ \A i \in Source \ {k} : sources'[i] = sources[i]
        BY <4>1, <4>2
      <4>5. sources'[k] \in SourceRow
        <5>1. CASE sources' = [sources EXCEPT ![k].status = "void"]
          <6>1. sources'[k] = [sources[k] EXCEPT !.status = "void"]
            BY <4>2, <5>1
          <6>. QED BY <4>3, <6>1 DEF SourceRow
        <5>2. ASSUME NEW n \in 1 .. MaxTransfer,
                     sources' = [sources EXCEPT ![k].amount = n, ![k].status = "active"]
              PROVE  sources'[k] \in SourceRow
          <6>1. sources'[k] = [sources[k] EXCEPT !.amount = n, !.status = "active"]
            BY <4>2, <5>2
          <6>2. "active" \in {"active", "void"}
            OBVIOUS
          <6>3. sources'[k] \in SourceRow
            BY <4>3, <6>1, <6>2 DEF SourceRow
          <6>. QED BY <6>3
        <5>. QED BY <4>1, <5>1, <5>2
      <4>6. IsBooked(sources'[k])
        BY <4>5 DEF IsBooked
      <4>. QED BY <4>4, <4>6 DEF BankTables
    <3>. QED BY <1>6, <3>1, <3>2
  <2>. QED BY <1>1, <1>3, <1>4, <2>2, <2>3 DEF BankTables
<1>. QED BY <1>1, <1>5, <1>6

\* Rows a request leaves alone keep all that is said of them, and what the
\* requests that have read rely on.
LEMMA BankTablesStay ==
    ASSUME BankTables, UNCHANGED bankVars, mainPC' = mainPC
    PROVE  BankTables' /\ \A j : BankJob(j) => BankJob(j)'
<1>1. UNCHANGED <<bankLines, sources, expected, matches>> /\ (~ mainPC)' = (~ mainPC)
  BY DEF bankVars
<1>2. LinesAreNumbered'
  BY <1>1 DEF BankTables, LinesAreNumbered
<1>3. BankTables'
  BY <1>1, <1>2 DEF BankTables
<1>4. UnclaimedLines(matches)' = UnclaimedLines(matches)
  BY <1>1 DEF UnclaimedLines
<1>5. ASSUME NEW j, BankJob(j) PROVE BankJob(j)'
  BY <1>1, <1>4, <1>5 DEF BankJob, MayMatch
<1>. QED BY <1>3, <1>5

\* On the Main PC a request relies on nothing that another may have changed.
LEMMA BankJobKept ==
    ASSUME mainPC = TRUE, mainPC' = mainPC, NEW j
    PROVE  BankJob(j)'
<1>1. (~ mainPC)' = FALSE
  OBVIOUS
<1>. QED BY <1>1 DEF BankJob

\* A request that reads relies on what it has just read.
LEMMA BankRead ==
    ASSUME BankInv, NEW s \in Session, NEW j, Begin(s, j), BankJob(j), UNCHANGED bankVars
    PROVE  BankInv'
<1>1. /\ DesksInv' /\ mainPC' = mainPC /\ job'[s] = j
      /\ \A t \in Session : t # s => job'[t] = job[t]
  BY BeginJob DEF BankInv
<1>2. BankTables' /\ \A i : BankJob(i) => BankJob(i)'
  BY <1>1, BankTablesStay DEF BankInv
<1>. QED BY <1>1, <1>2 DEF BankInv

\* A request that writes and ends leaves the others, which run on the Main PC
\* only, what they rely on; so does one that is a single step.
LEMMA BankEnd ==
    ASSUME BankInv, NEW s \in Session, job[s] # Idle, End(s), BankTables'
    PROVE  BankInv'
<1>1. /\ DesksInv' /\ job'[s] = Idle /\ mainPC' = mainPC
      /\ \A t \in Session : t # s => job'[t] = job[t]
  BY EndJob DEF BankInv
<1>2. ASSUME NEW t \in Session, NEW j \in {job'[t]}, j # Idle PROVE BankJob(j)'
  <2>1. mainPC = TRUE
    BY <1>1, <1>2 DEF BankInv, DesksInv
  <2>. QED BY <1>1, <2>1, BankJobKept
<1>. QED BY <1>1, <1>2 DEF BankInv

LEMMA BankBeside ==
    ASSUME BankInv, AtOnce, BankTables'
    PROVE  BankInv'
<1>1. UNCHANGED <<mainPC, job>> /\ DesksInv'
  BY DesksStay DEF AtOnce, deskVars, BankInv
<1>2. ASSUME NEW t \in Session, NEW j \in {job'[t]}, j # Idle PROVE BankJob(j)'
  <2>1. mainPC = TRUE
    BY <1>1, <1>2 DEF AtOnce, BankInv, DesksInv
  <2>. QED BY <1>1, <2>1, BankJobKept
<1>. QED BY <1>1, <1>2 DEF BankInv

\* What a request reads before it writes.
LEMMA BankReads ==
    ASSUME BankInv, NEW s \in Session,
           RunRead(s) \/ AnswerRead(s) \/ LockRead(s) \/ ManualRead(s)
    PROVE  BankInv' /\ matches' = matches
<1>1. UNCHANGED bankVars /\ matches' = matches
  BY DEF RunRead, AnswerRead, LockRead, ManualRead, bankVars
<1>2. /\ LinesAreNumbered /\ BankTables
      /\ ~ mainPC => \A m, n \in matches : m.id = n.id => m = n
      /\ ~ mainPC => \A m \in matches : m.locked => m.status = "confirmed"
  BY DEF BankInv, BankTables, MatchesAreKept, MatchesAreNumbered
<1>3. CASE RunRead(s)
  <2>1. PICK j : Begin(s, j) /\ j =
          [kind |-> "run", key |-> NoRecord, wanted |-> sources,
           changed |-> Synced(sources, expected) # expected, pairs |-> ToPair(matches),
           proposals |-> Propose(ToMatch(expected, matches), UnclaimedLines(matches))]
    BY <1>3 DEF RunRead
  <2>2. ToPair(matches) \in Seq(LineNo \X LineNo)
    BY <1>2, StatementIs, LeftToPair
  <2>3. BankJob(j)
    BY <2>1, <2>2 DEF BankJob
  <2>. QED BY <1>1, <2>1, <2>3, BankRead
<1>4. CASE AnswerRead(s)
  <2>1. PICK m \in matches, answer \in {"confirmed", "void"}, reject \in BOOLEAN :
          /\ answer = "confirmed" \/ reject => m.status = "suggested"
          /\ answer = "void" /\ ~ reject => MayUndo(m)
          /\ Begin(s, [kind |-> "answer", key |-> NoRecord, id |-> m.id, status |-> answer])
    BY <1>4 DEF AnswerRead
  <2>2. PICK j : j = [kind |-> "answer", key |-> NoRecord, id |-> m.id, status |-> answer]
    OBVIOUS
  <2>3. j.kind = "answer" /\ j.id = m.id /\ j.status = answer
    BY <2>2
  <2>4. ~ mainPC => /\ answer = "confirmed" => m.status = "suggested"
                    /\ answer = "void" => ~ m.locked
    BY <1>2, <2>1 DEF MayUndo
  <2>5. BankJob(j)
    BY <1>2, <2>1, <2>3, <2>4 DEF BankJob
  <2>. QED BY <1>1, <2>1, <2>2, <2>5, BankRead
<1>5. CASE LockRead(s)
  <2>1. PICK m \in matches, locked \in BOOLEAN :
          /\ m.status = "confirmed"
          /\ Begin(s, [kind |-> "lock", key |-> NoRecord, id |-> m.id, locked |-> locked])
    BY <1>5 DEF LockRead
  <2>2. PICK j : j = [kind |-> "lock", key |-> NoRecord, id |-> m.id, locked |-> locked]
    OBVIOUS
  <2>3. j.kind = "lock" /\ j.id = m.id /\ j.locked = locked
    BY <2>2
  <2>4. BankJob(j)
    BY <1>2, <2>1, <2>3 DEF BankJob
  <2>. QED BY <1>1, <2>1, <2>2, <2>4, BankRead
<1>6. CASE ManualRead(s)
  <2>1. PICK E, R, way, charges :
          /\ E \in SUBSET Source /\ R \in SUBSET Ids(bankLines)
          /\ \A k \in E : expected[k] # Gone
          /\ MayMatch(E, R)
          /\ E # {} => Got(way, {l \in bankLines : l.id \in R})
                         <= SumFunction([k \in E |-> expected[k].amount])
          /\ charges = IF E = {} THEN 0
                       ELSE SumFunction([k \in E |-> expected[k].amount])
                              - Got(way, {l \in bankLines : l.id \in R})
          /\ Begin(s, [kind |-> "manual", key |-> NoRecord, exps |-> E, rows |-> R,
                       charges |-> charges])
    BY <1>6 DEF ManualRead, NotTooMuch
  <2>2. PICK j : j = [kind |-> "manual", key |-> NoRecord, exps |-> E, rows |-> R,
                      charges |-> charges]
    OBVIOUS
  <2>3. j.kind = "manual" /\ j.exps = E /\ j.rows = R /\ j.charges = charges
    BY <2>2
  <2>4. R \in SUBSET LineNo
    BY <1>2, <2>1, StatementIs
  <2>5. ~ mainPC => charges \in Charge
    <3>1. SUFFICES ASSUME ~ mainPC PROVE charges \in Charge
      OBVIOUS
    <3>2. CASE E = {}
      BY <2>1, <3>2, LessIsCharge
    <3>3. CASE E # {}
      <4>1. \A k \in E : expected[k].amount \in 1 .. MaxTransfer
        <5>1. ASSUME NEW k \in E PROVE expected[k].amount \in 1 .. MaxTransfer
          <6>1. IsBooked(expected[k]) /\ expected[k] # Gone
            BY <1>2, <2>1, <3>1 DEF BankTables
          <6>. QED BY <6>1, BookedFields
        <5>. QED BY <5>1
      <4>2. IsFiniteSet(E) /\ Cardinality(E) <= MaxSources
        <5>1. MaxSources \in Nat /\ 1 \in Int /\ MaxSources \in Int
          BY BankAssumption
        <5>2. IsFiniteSet(1 .. MaxSources) /\ Cardinality(1 .. MaxSources) = MaxSources
          BY <5>1, FS_Interval
        <5>3. E \in SUBSET (1 .. MaxSources)
          BY <2>1 DEF Source
        <5>. QED BY <5>2, <5>3, FS_Subset
      <4>3. PICK f : f = [k \in E |-> expected[k].amount]
        OBVIOUS
      <4>4. PICK total : total = SumFunction(f) /\ total \in Charge
        BY <4>1, <4>2, <4>3, SumFits
      <4>5. PICK got : got = Got(way, {l \in bankLines : l.id \in R}) /\ got \in Nat
        <5>1. IsStatement(bankLines)
          BY <1>2, StatementIs
        <5>2. AreBooks({})
          BY BankAssumption, FS_EmptySet DEF AreBooks
        <5>3. PICK L \in SUBSET bankLines : L = {l \in bankLines : l.id \in R}
          OBVIOUS
        <5>. QED BY <5>1, <5>2, <5>3, OfSome
      <4>6. got <= total /\ charges = total - got
        BY <2>1, <3>3, <4>3, <4>4, <4>5
      <4>7. got \in 0 .. total
        BY <4>4, <4>5, <4>6, LessIsCharge
      <4>. QED BY <4>4, <4>6, <4>7, LessIsCharge
    <3>. QED BY <3>2, <3>3
  <2>6. BankJob(j)
    BY <2>1, <2>3, <2>4, <2>5 DEF BankJob
  <2>. QED BY <1>1, <2>1, <2>2, <2>6, BankRead
<1>. QED BY <1>1, <1>3, <1>4, <1>5, <1>6

\* Every step keeps all of it, and in one window leaves alone what is locked.
LEMMA BankInductive ==
    /\ DesksInit /\ BankInit => BankInv
    /\ BankInv /\ [BankNext]_<<deskVars, bankVars>> =>
         BankInv' /\ (~ mainPC => LockedStay(matches, matches'))
<1>1. ASSUME DesksInit, BankInit PROVE BankInv
  <2>1. DesksInv /\ \A s \in Session : job[s] = Idle
    BY <1>1, DesksStart DEF DesksInit
  <2>2. LinesAreNumbered
    BY <1>1, FS_EmptySet DEF BankInit, LinesAreNumbered
  <2>3. MatchesAreKept(matches)
    BY <1>1, FS_EmptySet DEF BankInit, MatchesAreKept, MatchesAreNumbered, LiveMatches
  <2>4. /\ DOMAIN sources = Source /\ DOMAIN expected = Source
        /\ \A k \in Source : sources[k] = Gone /\ expected[k] = Gone
        /\ Room(matches)
    BY <1>1, FS_EmptySet, BankAssumption DEF BankInit, Room
  <2>. QED BY <2>1, <2>2, <2>3, <2>4 DEF BankInv, BankTables, IsBooked
<1>2. ASSUME BankInv, [BankNext]_<<deskVars, bankVars>>
      PROVE  BankInv' /\ (~ mainPC => LockedStay(matches, matches'))
  <2>1. matches' = matches => LockedStay(matches, matches')
    BY DEF LockedStay
  <2>2. CASE ImportStatement \/ RecordSource \/ ChangeSource
    <3>1. BankTables' /\ matches' = matches
      BY <1>2, <2>2, BankBrings DEF BankInv
    <3>2. AtOnce
      BY <2>2 DEF ImportStatement, RecordSource, ChangeSource
    <3>. QED BY <1>2, <2>1, <3>1, <3>2, BankBeside
  <2>3. ASSUME NEW s \in Session, RunRead(s) \/ AnswerRead(s) \/ LockRead(s) \/ ManualRead(s)
        PROVE  BankInv' /\ matches' = matches
    BY <1>2, <2>3, BankReads
  <2>4. ASSUME NEW s \in Session, RunWrite(s)
        PROVE  BankInv' /\ (~ mainPC => LockedStay(matches, matches'))
    <3>1. job[s] # Idle /\ End(s)
      BY <2>4 DEF RunWrite, Runs
    <3>. QED BY <1>2, <2>4, <3>1, RunWritten, BankEnd
  <2>5. ASSUME NEW s \in Session, AnswerWrite(s) \/ LockWrite(s)
        PROVE  BankInv' /\ (~ mainPC => LockedStay(matches, matches'))
    <3>1. job[s] # Idle /\ End(s)
      BY <2>5 DEF AnswerWrite, LockWrite, Runs
    <3>. QED BY <1>2, <2>5, <3>1, MatchChanged, BankEnd
  <2>6. ASSUME NEW s \in Session, ManualWrite(s)
        PROVE  BankInv' /\ (~ mainPC => LockedStay(matches, matches'))
    <3>1. job[s] # Idle /\ End(s)
      BY <2>6 DEF ManualWrite, Runs
    <3>. QED BY <1>2, <2>6, <3>1, MadeByHand, BankEnd
  <2>7. ASSUME NEW s \in Session, GiveUp(s), UNCHANGED bankVars
        PROVE  BankInv' /\ matches' = matches
    <3>1. job[s] # Idle /\ End(s) /\ mainPC' = mainPC /\ matches' = matches
      BY <2>7 DEF GiveUp, End, bankVars
    <3>2. BankTables'
      BY <1>2, <2>7, <3>1, BankTablesStay DEF BankInv
    <3>. QED BY <1>2, <3>1, <3>2, BankEnd
  <2>8. CASE UNCHANGED <<deskVars, bankVars>>
    <3>1. /\ mainPC' = mainPC /\ UNCHANGED bankVars /\ UNCHANGED deskVars
          /\ job' = job /\ matches' = matches
      BY <2>8 DEF deskVars, bankVars
    <3>2. DesksInv' /\ BankTables' /\ \A j : BankJob(j) => BankJob(j)'
      BY <1>2, <3>1, BankTablesStay, DesksStay DEF BankInv
    <3>. QED BY <1>2, <2>1, <3>1, <3>2 DEF BankInv
  <2>. QED BY <1>2, <2>1, <2>2, <2>3, <2>4, <2>5, <2>6, <2>7, <2>8
       DEF BankNext, StatementNext, MatchingNext
<1>. QED BY <1>1, <1>2

\* In one window, and at the start, every row has the values its table allows.
LEMMA BankSafe ==
    /\ BankInv /\ ~ mainPC => BankTypeOK
    /\ BankInit => BankTypeOK
<1>1. ASSUME BankInv, ~ mainPC PROVE BankTypeOK
  <2>1. /\ \A k \in Source : IsBooked(sources[k]) /\ IsBooked(expected[k])
        /\ MatchesAreKept(matches) /\ Room(matches)
    BY <1>1 DEF BankInv, BankTables
  <2>2. \A m \in matches : m.id \in 1 .. Cardinality(matches) /\ m \in MatchForm
    BY <2>1 DEF MatchesAreKept, MatchesAreNumbered
  <2>3. MaxMatches \in Nat /\ Cardinality(matches) \in Nat /\ Cardinality(matches) <= MaxMatches
    BY <2>1, FS_CardinalityType, BankAssumption DEF MatchesAreKept, MatchesAreNumbered, Room
  <2>4. \A m \in matches : m.id \in 1 .. MaxMatches
    BY <2>2, <2>3
  <2>5. matches \subseteq MatchRow
    <3>1. ASSUME NEW m \in matches PROVE m \in MatchRow
      BY <2>2, <2>4 DEF MatchForm, MatchRow, Charge, LineNo
    <3>. QED BY <3>1
  <2>. QED BY <2>1, <2>5 DEF BankTypeOK, IsBooked
<1>2. ASSUME BankInit PROVE BankTypeOK
  <2>1. \A k \in Source : sources[k] = Gone /\ expected[k] = Gone
    BY <1>2 DEF BankInit
  <2>2. matches = {}
    BY <1>2 DEF BankInit
  <2>. QED BY <2>1, <2>2 DEF BankTypeOK
<1>. QED BY <1>1, <1>2

\* Whatever statement meets whatever books, no payment and no line is
\* proposed twice and nothing received exceeds what was expected (propose); in
\* one window no payment and no line is in two matches, and a match an owner
\* has locked stays (run_matching, manual_match, unmatch).
THEOREM MoneyStaysMatchedOnce == BankSpec => MoneyIsMatchedOnce
<1>1. BankInv => ProposalsAddUp
  <2>1. SUFFICES ASSUME BankInv PROVE ProposalsAddUp
    OBVIOUS
  <2>2. PICK E : E = ToMatch(sources, {}) /\ AreBooks(E)
    BY <2>1, BooksAre DEF BankInv, BankTables
  <2>3. IsStatement(bankLines)
    BY <2>1, StatementIs DEF BankInv, BankTables
  <2>4. ShareNothing(Propose(E, bankLines)) /\ NeverMoreThanExpected(Propose(E, bankLines), E, bankLines)
    BY <2>2, <2>3, ProposeIsSound
  <2>. QED BY <2>2, <2>4 DEF ProposalsAddUp, AllProposals
<1>2. BankInv => ClaimedOnce
  BY DEF BankInv, BankTables, MatchesAreKept, ClaimedOnce
<1>3. BankInv /\ [BankNext]_<<deskVars, bankVars>> =>
        [~ mainPC => \A m \in matches :
            m.locked => \E n \in matches' : n.id = m.id /\ n.status = m.status
        ]_<<deskVars, bankVars>>
  BY BankInductive DEF LockedStay
<1>. QED BY <1>1, <1>2, <1>3, BankInductive, PTL DEF BankSpec, MoneyIsMatchedOnce, LockedMatchStays

-----------------------------------------------------------------------------
(***************************************************************************)
(* Pumps: nozzles, assignments and the price.                              *)
(***************************************************************************)

\* What a request that has read goes on with (nozzle_service.py,
\* shift_service.py, fuel_service.py, sale_service.py).
PumpsJob(j) ==
    /\ j.kind = "create" =>
         j.nozzle \in Nozzle /\ (~ mainPC => HasRoom)
    /\ j.kind = "status" =>
         /\ j.nozzle \in Nozzle /\ j.new \in {"active", "maintenance"}
         /\ ~ mainPC => /\ j.nozzle \in Fitted
                        /\ j.new # "active" => MayTakeOut(j.nozzle)
    /\ j.kind = "assign" =>
         /\ j.nozzle \in Nozzle /\ j.key[2] \in WorkShift
         /\ ~ mainPC => status[j.nozzle] = "active"
    /\ j.kind = "rate" =>
         j.key = <<"fuel", 1>> /\ j.old = rate /\ j.new \in Rates
    /\ j.kind = "bill" =>
         j.rate \in Rates /\ \E i \in DOMAIN prices : prices[i].new = j.rate

PumpsTables ==
    /\ PumpsTypeOK /\ PumpsAreInOrder
    /\ prices \in Seq([old : Rates \cup {Unpriced}, new : Rates])
    /\ allowed <= greatest

PumpsInv ==
    /\ DesksInv /\ PumpsTables
    /\ \A s \in Session : \A j \in {job[s]} : j # Idle => PumpsJob(j)

\* The tables a read leaves alone keep all that is said of them.
LEMMA PumpsTablesStay ==
    ASSUME PumpsTables, mainPC \in BOOLEAN, UNCHANGED pumpVars, mainPC' = mainPC
    PROVE  PumpsTables' /\ \A j : PumpsJob(j) => PumpsJob(j)'
<1>1. UNCHANGED <<inUse, status, assigned, allowed, greatest, rate, prices, billed>>
  BY DEF pumpVars, nozzleVars, priceVars
<1>2. (~ mainPC)' = (~ mainPC)
  OBVIOUS
<1>3. PumpsTables'
  BY <1>1, <1>2 DEF PumpsTables, PumpsTypeOK, PumpsAreInOrder, OutOfServiceIsIdle,
                    NozzlesWithinLimit, PriceIsRecorded, BilledWasSet, Fitted
<1>4. ASSUME NEW j, PumpsJob(j) PROVE PumpsJob(j)'
  BY <1>1, <1>2, <1>4 DEF PumpsJob, HasRoom, Fitted, MayTakeOut
<1>. QED BY <1>3, <1>4

\* A request that reads relies on what it has just read.
LEMMA PumpsRead ==
    ASSUME PumpsInv, NEW s \in Session, NEW j, Begin(s, j), PumpsJob(j),
           UNCHANGED pumpVars
    PROVE  PumpsInv'
<1>1. /\ DesksInv' /\ mainPC' = mainPC /\ job'[s] = j
      /\ \A t \in Session : t # s => job'[t] = job[t]
  BY BeginJob DEF PumpsInv
<1>2. PumpsTables' /\ \A i : PumpsJob(i) => PumpsJob(i)'
  BY <1>1, PumpsTablesStay DEF PumpsInv, DesksInv
<1>. QED BY <1>1, <1>2 DEF PumpsInv

\* A request that writes and ends leaves the others, which run on the Main PC
\* only, what they rely on.
LEMMA PumpsEnd ==
    ASSUME PumpsInv, NEW s \in Session, job[s] # Idle, End(s), PumpsTables',
           \A t \in Session : \A j \in {job[t]} :
              t # s /\ j # Idle /\ mainPC = TRUE => PumpsJob(j)'
    PROVE  PumpsInv'
<1>1. /\ DesksInv' /\ job'[s] = Idle /\ mainPC' = mainPC
      /\ \A t \in Session : t # s => job'[t] = job[t]
  BY EndJob DEF PumpsInv
<1>2. ASSUME NEW t \in Session, NEW j \in {job'[t]}, j # Idle PROVE PumpsJob(j)'
  <2>1. t # s /\ job[t] = j /\ mainPC = TRUE
    BY <1>1, <1>2 DEF PumpsInv, DesksInv
  <2>. QED BY <1>2, <2>1
<1>. QED BY <1>1, <1>2 DEF PumpsInv

\* On the Main PC, what a request relies on survives every write but one of
\* the same price.
LEMMA PumpsJobKept ==
    ASSUME mainPC = TRUE, mainPC' = mainPC, NEW j, PumpsJob(j),
           j.kind = "rate" => rate' = rate,
           \A i \in DOMAIN prices : i \in DOMAIN prices' /\ prices'[i] = prices[i]
    PROVE  PumpsJob(j)'
<1>1. (~ mainPC)' = FALSE /\ (~ mainPC) = FALSE
  OBVIOUS
<1>. QED BY <1>1 DEF PumpsJob

\* The setting and its greatest value are numbers.
LEMMA LimitsAreNumbers ==
    ASSUME PumpsTables
    PROVE  /\ allowed \in Limits /\ greatest \in Limits /\ Limits \subseteq Nat
           /\ allowed \in Nat /\ greatest \in Nat /\ allowed <= greatest
<1>1. {allowed, greatest} \subseteq Limits /\ allowed <= greatest
  BY DEF PumpsTables, PumpsTypeOK
<1>2. Limits \subseteq Nat
  BY PumpsAssumption
<1>. QED BY <1>1, <1>2

\* Nozzles and assignments: what is written is allowed by what was read.
LEMMA NozzleWritten ==
    ASSUME PumpsInv, NEW s \in Session,
           CreateNozzleWrite(s) \/ SetNozzleWrite(s) \/ AssignWrite(s)
    PROVE  PumpsInv'
<1>1. PumpsTables /\ PumpsTypeOK /\ mainPC \in BOOLEAN
  BY DEF PumpsInv, PumpsTables, DesksInv
<1>2. PICK j : j = job[s]
  OBVIOUS
<1>3. j # Idle /\ PumpsJob(j) /\ End(s) /\ mainPC' = mainPC
      /\ UNCHANGED <<inUse, allowed, greatest, rate, prices, billed>>
  BY <1>2 DEF CreateNozzleWrite, SetNozzleWrite, AssignWrite, Runs, PumpsInv, priceVars, End
<1>4. IsFiniteSet(Fitted) /\ Cardinality(Fitted) \in Nat
  BY PumpsAssumption, FS_Subset, FS_CardinalityType DEF Fitted
<1>5. PriceIsRecorded' /\ BilledWasSet'
  BY <1>1, <1>3 DEF PumpsTables, PumpsAreInOrder, PriceIsRecorded, BilledWasSet
<1>6. /\ status' \in [Nozzle -> {"none", "active", "maintenance"}]
      /\ assigned' \subseteq WorkShift \X Nozzle
      /\ OutOfServiceIsIdle' /\ NozzlesWithinLimit'
  <2>1. CASE CreateNozzleWrite(s)
    <3>1. PICK n : n = j.nozzle
      OBVIOUS
    <3>2. n \in Nozzle /\ n \notin Fitted /\ (~ mainPC => HasRoom)
      BY <1>2, <1>3, <2>1, <3>1 DEF CreateNozzleWrite, Runs, PumpsJob
    <3>3. status' = [status EXCEPT ![n] = "active"] /\ assigned' = assigned
      BY <1>2, <2>1, <3>1 DEF CreateNozzleWrite
    <3>4. Fitted' = Fitted \cup {n}
      BY <1>1, <3>2, <3>3 DEF Fitted, PumpsTypeOK
    <3>5. Cardinality(Fitted') = Cardinality(Fitted) + 1
      BY <1>4, <3>2, <3>4, FS_AddElement
    <3>6. ~ mainPC => Cardinality(Fitted') <= greatest
      <4>1. allowed \in Nat /\ greatest \in Nat /\ allowed <= greatest
        BY <1>1, LimitsAreNumbers
      <4>2. ~ mainPC => Cardinality(Fitted) < allowed
        BY <3>2 DEF HasRoom
      <4>. QED BY <1>4, <3>5, <4>1, <4>2
    <3>7. NozzlesWithinLimit'
      BY <1>3, <3>6 DEF NozzlesWithinLimit
    <3>8. \A a \in assigned : a[2] \in Nozzle
      BY <1>1 DEF PumpsTypeOK
    <3>9. OutOfServiceIsIdle'
      BY <1>1, <1>3, <3>3, <3>8 DEF OutOfServiceIsIdle, PumpsTables, PumpsAreInOrder, PumpsTypeOK
    <3>. QED BY <1>1, <3>2, <3>3, <3>7, <3>9 DEF PumpsTypeOK
  <2>2. CASE SetNozzleWrite(s)
    <3>1. PICK n : n = j.nozzle
      OBVIOUS
    <3>2. /\ n \in Nozzle /\ j.new \in {"active", "maintenance"}
          /\ ~ mainPC => n \in Fitted /\ (j.new # "active" => MayTakeOut(n))
      BY <1>2, <1>3, <2>2, <3>1 DEF SetNozzleWrite, Runs, PumpsJob
    <3>3. status' = [status EXCEPT ![n] = j.new] /\ assigned' = assigned
      BY <1>2, <2>2, <3>1 DEF SetNozzleWrite
    <3>4. ~ mainPC => Fitted' = Fitted
      BY <1>1, <3>2, <3>3 DEF Fitted, PumpsTypeOK
    <3>5. NozzlesWithinLimit'
      BY <1>1, <1>3, <3>4 DEF NozzlesWithinLimit, PumpsTables, PumpsAreInOrder
    <3>6. \A a \in assigned : a[2] \in Nozzle /\ a[1] \in WorkShift /\ a = <<a[1], a[2]>>
      BY <1>1 DEF PumpsTypeOK
    <3>7. ASSUME ~ mainPC, NEW a \in assigned PROVE status'[a[2]] = "active"
      <4>1. a[2] = n => j.new = "active"
        BY <3>2, <3>6, <3>7 DEF MayTakeOut
      <4>. QED BY <1>1, <3>3, <3>6, <3>7, <4>1 DEF OutOfServiceIsIdle, PumpsTables,
                  PumpsAreInOrder, PumpsTypeOK
    <3>8. OutOfServiceIsIdle'
      BY <1>3, <3>3, <3>7 DEF OutOfServiceIsIdle
    <3>. QED BY <1>1, <3>2, <3>3, <3>5, <3>8 DEF PumpsTypeOK
  <2>3. CASE AssignWrite(s)
    <3>1. PICK a : a = <<j.key[2], j.nozzle>>
      OBVIOUS
    <3>2. /\ j.nozzle \in Nozzle /\ j.key[2] \in WorkShift
          /\ ~ mainPC => status[j.nozzle] = "active"
      BY <1>2, <1>3, <2>3 DEF AssignWrite, Runs, PumpsJob
    <3>3. assigned' = assigned \cup {a} /\ status' = status
      BY <1>2, <2>3, <3>1 DEF AssignWrite
    <3>4. a \in WorkShift \X Nozzle /\ (~ mainPC => status[a[2]] = "active")
      BY <3>1, <3>2
    <3>5. OutOfServiceIsIdle'
      BY <1>1, <1>3, <3>3, <3>4 DEF OutOfServiceIsIdle, PumpsTables, PumpsAreInOrder
    <3>6. NozzlesWithinLimit'
      BY <1>1, <1>3, <3>3 DEF NozzlesWithinLimit, PumpsTables, PumpsAreInOrder, Fitted
    <3>. QED BY <1>1, <3>3, <3>4, <3>5, <3>6 DEF PumpsTypeOK
  <2>. QED BY <2>1, <2>2, <2>3
<1>7. PumpsTables'
  BY <1>1, <1>3, <1>5, <1>6 DEF PumpsTables, PumpsTypeOK, PumpsAreInOrder
<1>8. ASSUME NEW t \in Session, NEW i \in {job[t]}, t # s, i # Idle, mainPC = TRUE
      PROVE  PumpsJob(i)'
  <2>1. PumpsJob(i)
    BY <1>8 DEF PumpsInv
  <2>. QED BY <1>3, <1>8, <2>1, PumpsJobKept
<1>. QED BY <1>2, <1>3, <1>7, <1>8, PumpsEnd

\* The price and its history are written together; a sale is billed at a rate
\* of the history.
LEMMA PriceWritten ==
    ASSUME PumpsInv, NEW s \in Session, SetRateWrite(s) \/ SaleWrite(s)
    PROVE  PumpsInv'
<1>1. PumpsTables /\ PumpsTypeOK /\ mainPC \in BOOLEAN
  BY DEF PumpsInv, PumpsTables, DesksInv
<1>2. PICK j : j = job[s]
  OBVIOUS
<1>3. j # Idle /\ PumpsJob(j) /\ End(s) /\ mainPC' = mainPC
      /\ UNCHANGED <<inUse, status, assigned, allowed, greatest>>
  BY <1>2 DEF SetRateWrite, SaleWrite, Runs, PumpsInv, nozzleVars, End
<1>4. OutOfServiceIsIdle' /\ NozzlesWithinLimit'
  BY <1>1, <1>3 DEF PumpsTables, PumpsAreInOrder, OutOfServiceIsIdle, NozzlesWithinLimit, Fitted
<1>5. CASE SetRateWrite(s)
  <2>1. PICK r : r = [old |-> j.old, new |-> j.new]
    OBVIOUS
  <2>2. j.key = <<"fuel", 1>> /\ j.old = rate /\ j.new \in Rates /\ j.kind = "rate"
    BY <1>2, <1>3, <1>5 DEF SetRateWrite, Runs, PumpsJob
  <2>3. r \in [old : Rates \cup {Unpriced}, new : Rates] /\ r.old = rate /\ r.new = j.new
    BY <1>1, <2>1, <2>2 DEF PumpsTypeOK
  <2>4. prices' = Append(prices, r) /\ rate' = r.new /\ billed' = billed
    BY <1>2, <1>5, <2>1, <2>3 DEF SetRateWrite, PriceAfter
  <2>5. prices \in Seq([old : Rates \cup {Unpriced}, new : Rates])
    BY <1>1 DEF PumpsTables
  <2>6. /\ prices' \in Seq([old : Rates \cup {Unpriced}, new : Rates])
        /\ Len(prices') = Len(prices) + 1 /\ Len(prices) \in Nat
        /\ DOMAIN prices = 1 .. Len(prices) /\ DOMAIN prices' = 1 .. Len(prices')
        /\ \A i \in DOMAIN prices : prices'[i] = prices[i]
        /\ prices'[Len(prices')] = r
    BY <2>3, <2>4, <2>5
  <2>7. PriceIsRecorded'
    <3>1. ASSUME NEW i \in DOMAIN prices'
          PROVE  prices'[i].old = IF i = 1 THEN Unpriced ELSE prices'[i - 1].new
      <4>1. CASE i \in DOMAIN prices
        <5>1. i # 1 => i - 1 \in DOMAIN prices
          BY <2>6, <4>1
        <5>2. prices[i].old = IF i = 1 THEN Unpriced ELSE prices[i - 1].new
          BY <1>1, <4>1 DEF PumpsTables, PumpsAreInOrder, PriceIsRecorded
        <5>. QED BY <2>6, <4>1, <5>1, <5>2
      <4>2. CASE i \notin DOMAIN prices
        <5>1. i = Len(prices) + 1 /\ prices'[i].old = rate
          BY <2>3, <2>6, <3>1, <4>2
        <5>2. rate = IF prices = <<>> THEN Unpriced ELSE prices[Len(prices)].new
          BY <1>1 DEF PumpsTables, PumpsAreInOrder, PriceIsRecorded
        <5>3. prices = <<>> <=> Len(prices) = 0
          BY <2>5
        <5>4. Len(prices) # 0 => prices'[Len(prices)] = prices[Len(prices)]
          BY <2>6
        <5>. QED BY <2>6, <5>1, <5>2, <5>3, <5>4
      <4>. QED BY <4>1, <4>2
    <3>2. rate' = prices'[Len(prices')].new /\ prices' # <<>>
      BY <2>4, <2>6
    <3>. QED BY <3>1, <3>2 DEF PriceIsRecorded
  <2>8. BilledWasSet'
    <3>. SUFFICES ASSUME NEW x \in billed PROVE \E i \in DOMAIN prices' : prices'[i].new = x
      BY <2>4 DEF BilledWasSet
    <3>1. PICK i \in DOMAIN prices : prices[i].new = x
      BY <1>1 DEF PumpsTables, PumpsAreInOrder, BilledWasSet
    <3>. QED BY <2>6, <3>1
  <2>9. PumpsTypeOK'
    <3>1. \A i \in DOMAIN prices' : prices'[i] \in [old : Rates \cup {Unpriced}, new : Rates]
      <4>1. PICK R : R = [old : Rates \cup {Unpriced}, new : Rates]
        OBVIOUS
      <4>2. PICK p : p = prices'
        OBVIOUS
      <4>3. p \in Seq(R)
        BY <2>6, <4>1, <4>2
      <4>4. \A i \in DOMAIN p : p[i] \in R
        BY <4>3
      <4>. QED BY <4>1, <4>2, <4>4
    <3>2. rate' \in Rates \cup {Unpriced}
      BY <2>2, <2>3, <2>4
    <3>. QED BY <1>1, <1>3, <2>4, <3>1, <3>2 DEF PumpsTypeOK
  <2>10. PumpsTables'
    BY <1>1, <1>3, <1>4, <2>6, <2>7, <2>8, <2>9 DEF PumpsTables, PumpsAreInOrder
  <2>11. ASSUME NEW t \in Session, NEW i \in {job[t]}, t # s, i # Idle, mainPC = TRUE
         PROVE  PumpsJob(i)'
    <3>1. PumpsJob(i) /\ i = job[t]
      BY <2>11 DEF PumpsInv
    <3>2. i.kind # "rate"
      <4>1. i.kind = "rate" => i.key = <<"fuel", 1>>
        BY <3>1 DEF PumpsJob
      <4>2. i.key = j.key => j.key = NoRecord
        BY <1>2, <1>3, <2>11, <3>1 DEF PumpsInv, DesksInv
      <4>. QED BY <2>2, <4>1, <4>2, PumpsAssumption
    <3>3. \A k \in DOMAIN prices : k \in DOMAIN prices' /\ prices'[k] = prices[k]
      BY <2>6
    <3>. QED BY <1>3, <2>11, <3>1, <3>2, <3>3, PumpsJobKept
  <2>. QED BY <1>2, <1>3, <2>10, <2>11, PumpsEnd
<1>6. CASE SaleWrite(s)
  <2>1. j.rate \in Rates /\ \E i \in DOMAIN prices : prices[i].new = j.rate
    BY <1>2, <1>3, <1>6 DEF SaleWrite, Runs, PumpsJob
  <2>2. billed' = billed \cup {j.rate} /\ rate' = rate /\ prices' = prices
    BY <1>2, <1>6 DEF SaleWrite
  <2>3. PriceIsRecorded' /\ BilledWasSet'
    BY <1>1, <2>1, <2>2 DEF PumpsTables, PumpsAreInOrder, PriceIsRecorded, BilledWasSet
  <2>4. PumpsTables'
    BY <1>1, <1>3, <1>4, <2>1, <2>2, <2>3 DEF PumpsTables, PumpsTypeOK, PumpsAreInOrder
  <2>5. ASSUME NEW t \in Session, NEW i \in {job[t]}, t # s, i # Idle, mainPC = TRUE
        PROVE  PumpsJob(i)'
    BY <1>3, <2>2, <2>5, PumpsJobKept DEF PumpsInv
  <2>. QED BY <1>2, <1>3, <2>4, <2>5, PumpsEnd
<1>. QED BY <1>5, <1>6

\* The reads, the steps that commit at once, and what is given up.
LEMMA PumpsReads ==
    ASSUME PumpsInv, NEW s \in Session,
           \/ CreateNozzleRead(s) \/ SetNozzleRead(s) \/ AssignRead(s)
           \/ SetRateRead(s) \/ SaleRead(s)
    PROVE  PumpsInv'
<1>. SUFFICES \E j : Begin(s, j) /\ PumpsJob(j) /\ UNCHANGED pumpVars
  BY PumpsRead
<1>1. PumpsTypeOK
  BY DEF PumpsInv, PumpsTables
<1>2. CASE CreateNozzleRead(s)
  <2>1. PICK n \in Nozzle : Begin(s, [kind |-> "create", key |-> NoRecord, nozzle |-> n])
    BY <1>2 DEF CreateNozzleRead
  <2>. QED BY <1>2, <2>1 DEF CreateNozzleRead, PumpsJob
<1>3. CASE SetNozzleRead(s)
  <2>1. PICK n \in Fitted, new \in {"active", "maintenance"} :
          /\ new # "active" => MayTakeOut(n)
          /\ Begin(s, [kind |-> "status", key |-> <<"nozzle", n>>, nozzle |-> n, new |-> new])
    BY <1>3 DEF SetNozzleRead
  <2>2. n \in Nozzle
    BY DEF Fitted
  <2>. QED BY <1>3, <2>1, <2>2 DEF SetNozzleRead, PumpsJob
<1>4. CASE AssignRead(s)
  <2>1. PICK w \in WorkShift, n \in Nozzle :
          /\ MayAssign(w, n)
          /\ Begin(s, [kind |-> "assign", key |-> <<"shift", w>>, nozzle |-> n])
    BY <1>4 DEF AssignRead
  <2>. QED BY <1>4, <2>1 DEF AssignRead, PumpsJob, MayAssign
<1>5. CASE SetRateRead(s)
  <2>1. PICK new \in Rates :
          Begin(s, [kind |-> "rate", key |-> <<"fuel", 1>>, old |-> rate, new |-> new])
    BY <1>5 DEF SetRateRead
  <2>. QED BY <1>5, <2>1 DEF SetRateRead, PumpsJob
<1>6. CASE SaleRead(s)
  <2>1. rate > 0 /\ Begin(s, [kind |-> "bill", key |-> NoRecord, rate |-> rate])
    BY <1>6 DEF SaleRead, IsPriced
  <2>2. rate \in Rates /\ prices # <<>> /\ rate = prices[Len(prices)].new
    BY <1>1, <2>1 DEF PumpsTypeOK, Unpriced, PumpsInv, PumpsTables, PumpsAreInOrder, PriceIsRecorded
  <2>3. Len(prices) \in DOMAIN prices
    BY <2>2 DEF PumpsInv, PumpsTables
  <2>. QED BY <1>6, <2>1, <2>2, <2>3 DEF SaleRead, PumpsJob
<1>. QED BY <1>2, <1>3, <1>4, <1>5, <1>6

\* set_dispenser_status, completed and cancelled assignments, the setting.
LEMMA PumpsBeside ==
    ASSUME PumpsInv, SetDispenserStatus \/ EndAssignment \/ SetLimit
    PROVE  PumpsInv'
<1>1. PumpsTables /\ PumpsTypeOK /\ mainPC \in BOOLEAN
  BY DEF PumpsInv, PumpsTables, DesksInv
<1>2. /\ UNCHANGED <<mainPC, job, status, rate, prices, billed>> /\ DesksInv'
      /\ mainPC \/ \A s \in Session : job[s] = Idle
  BY DesksStay DEF SetDispenserStatus, EndAssignment, SetLimit, AtOnce, deskVars,
                   priceVars, PumpsInv
<1>3. /\ inUse' \in BOOLEAN /\ assigned' \subseteq assigned
      /\ {allowed', greatest'} \subseteq Limits /\ allowed' <= greatest' /\ greatest <= greatest'
  <2>1. /\ allowed \in Limits /\ greatest \in Limits /\ Limits \subseteq Nat
        /\ allowed \in Nat /\ greatest \in Nat /\ allowed <= greatest
    BY <1>1, LimitsAreNumbers
  <2>2. inUse \in BOOLEAN
    BY <1>1 DEF PumpsTypeOK
  <2>3. CASE SetDispenserStatus \/ EndAssignment
    <3>1. inUse' \in BOOLEAN /\ assigned' \subseteq assigned /\ allowed' = allowed /\ greatest' = greatest
      BY <2>3, <2>2 DEF SetDispenserStatus, EndAssignment
    <3>. QED BY <2>1, <3>1
  <2>4. CASE SetLimit
    <3>1. inUse' = inUse /\ assigned' = assigned /\ allowed' \in Limits
          /\ greatest' = IF allowed' > greatest THEN allowed' ELSE greatest
      BY <2>4 DEF SetLimit
    <3>2. allowed' \in Nat
      BY <2>1, <3>1
    <3>. QED BY <2>1, <2>2, <3>1, <3>2
  <2>. QED BY <2>3, <2>4
<1>4. NozzlesWithinLimit'
  <2>1. ~ mainPC => Cardinality(Fitted) <= greatest
    BY <1>1 DEF PumpsTables, PumpsAreInOrder, NozzlesWithinLimit
  <2>2. Cardinality(Fitted) \in Nat /\ greatest \in Nat /\ greatest' \in Nat
    BY <1>1, <1>3, PumpsAssumption, FS_Subset, FS_CardinalityType DEF Fitted, PumpsTypeOK
  <2>3. Fitted' = Fitted
    BY <1>2 DEF Fitted
  <2>. QED BY <1>2, <1>3, <2>1, <2>2, <2>3 DEF NozzlesWithinLimit
<1>5. OutOfServiceIsIdle' /\ PriceIsRecorded' /\ BilledWasSet'
  BY <1>1, <1>2, <1>3 DEF PumpsTables, PumpsAreInOrder, OutOfServiceIsIdle,
                          PriceIsRecorded, BilledWasSet
<1>6. PumpsTables'
  BY <1>1, <1>2, <1>3, <1>4, <1>5 DEF PumpsTables, PumpsTypeOK, PumpsAreInOrder
<1>7. ASSUME NEW t \in Session, NEW j \in {job[t]}, j # Idle PROVE PumpsJob(j)'
  <2>1. mainPC = TRUE /\ PumpsJob(j)
    BY <1>1, <1>2, <1>7 DEF PumpsInv
  <2>. QED BY <1>2, <2>1, PumpsJobKept
<1>. QED BY <1>2, <1>6, <1>7 DEF PumpsInv

\* What holds at the start and is kept by every step of these requests.
LEMMA PumpsInductive ==
    /\ DesksInit /\ PumpsInit => PumpsInv
    /\ PumpsInv /\ [NozzlesNext \/ PricesNext]_<<deskVars, pumpVars>> => PumpsInv'
<1>1. ASSUME DesksInit, PumpsInit PROVE PumpsInv
  <2>1. DesksInv /\ \A s \in Session : job[s] = Idle
    BY <1>1, DesksStart DEF DesksInit
  <2>2. Fitted = {} /\ Cardinality(Fitted) = 0 /\ greatest \in Nat /\ allowed = greatest
    BY <1>1, FS_EmptySet, PumpsAssumption DEF PumpsInit, Fitted
  <2>3. PumpsAreInOrder
    BY <1>1, <2>2 DEF PumpsInit, PumpsAreInOrder, OutOfServiceIsIdle, NozzlesWithinLimit,
                      PriceIsRecorded, BilledWasSet
  <2>4. PumpsTypeOK
    BY <1>1, <2>2 DEF PumpsInit, PumpsTypeOK
  <2>. QED BY <1>1, <2>1, <2>2, <2>3, <2>4 DEF PumpsInv, PumpsTables, PumpsInit
<1>2. ASSUME PumpsInv, [NozzlesNext \/ PricesNext]_<<deskVars, pumpVars>> PROVE PumpsInv'
  <2>1. PumpsTables /\ mainPC \in BOOLEAN
    BY <1>2 DEF PumpsInv, DesksInv
  <2>2. CASE UNCHANGED <<deskVars, pumpVars>>
    <3>1. UNCHANGED <<mainPC, job>> /\ DesksInv' /\ UNCHANGED pumpVars
      BY <1>2, <2>2, DesksStay DEF deskVars, PumpsInv
    <3>2. PumpsTables' /\ \A j : PumpsJob(j) => PumpsJob(j)'
      BY <2>1, <3>1, PumpsTablesStay
    <3>. QED BY <1>2, <3>1, <3>2 DEF PumpsInv
  <2>3. ASSUME NEW s \in Session, GiveUp(s), UNCHANGED pumpVars PROVE PumpsInv'
    <3>1. job[s] # Idle /\ End(s) /\ mainPC' = mainPC
      BY <2>3 DEF GiveUp, End
    <3>2. PumpsTables' /\ \A j : PumpsJob(j) => PumpsJob(j)'
      BY <2>1, <2>3, <3>1, PumpsTablesStay
    <3>. QED BY <1>2, <3>1, <3>2, PumpsEnd DEF PumpsInv
  <2>. QED BY <1>2, <2>2, <2>3, PumpsBeside, PumpsReads, NozzleWritten, PriceWritten
           DEF NozzlesNext, PricesNext
<1>. QED BY <1>1, <1>2

\* What nozzle_service.py and fuel_service.py are trusted with.
THEOREM PumpsStayInOrder == PumpsSpec => []PumpsAreInOrder
<1>1. PumpsInv => PumpsAreInOrder
  BY DEF PumpsInv, PumpsTables
<1>. QED BY <1>1, PumpsInductive, PTL DEF PumpsSpec

-----------------------------------------------------------------------------
(***************************************************************************)
(* The book of a tank: a variance is a loss less what cancelled sales gave   *)
(* back, and the book follows the tank.                                    *)
(***************************************************************************)

\* What moved in the tank since the last dip.
MovedSince ==
    SumFunction([m \in {m \in moves : m.after = Len(dips)} |-> InTank(m.type)])

\* What a request that has read goes on with (tank_service.py).  A dip keeps
\* the tank's record, so on the Main PC no other dip is worked on.
TankBookJob(j) ==
    /\ j.kind = "move" =>
         j.type \in MoveType /\ j.seen \in Int /\ (~ mainPC => j.seen = book)
    /\ j.kind = "dip" =>
         /\ j.key = OneTank /\ Len(dips) < MaxDips
         /\ j.day \in BookDay /\ j.physical \in 0 .. Full /\ j.expected \in Int
         /\ j.lost \in Int /\ j.last \in 0 .. Len(dips)
         /\ ~ mainPC => /\ j.physical = inTank /\ j.lost = lost
                        /\ j.expected = Opening(j.last) + Explained(Begins(j.last), j.day)

\* In one window the tank holds what it did at the last dip, and what moved
\* since, less what was lost.
TankFollowsMoves == ~ mainPC => inTank + lost = Opening(Len(dips)) + MovedSince

\* A dip that sums what moved since the last one explains all of it but what
\* cancelled sales gave back.
ReturnsAreCounted ==
    MovedSince = SumFunction([m \in {m \in moves : m.after = Len(dips)} |-> ExplainedBy(m.type)])
                 + Cardinality({m \in moves : m.type = "returned" /\ m.after = Len(dips)})

MovesInv ==
    /\ IsFiniteSet(moves)
    /\ \A m \in moves : m.id <= Cardinality(moves) /\ m.after <= Len(dips)
    /\ ReturnsAreCounted

TankBookTables == TankBookTypeOK /\ MovesInv /\ TankFollowsMoves /\ TankIsExplained

TankBookInv ==
    /\ DesksInv /\ TankBookTables
    /\ \A s \in Session : \A j \in {job[s]} : j # Idle => TankBookJob(j)

\* The litres some movements brought to the tank, what they explain of them, and
\* what they changed in the book beyond that.
TankSum(ms) == SumFunction([m \in ms |-> InTank(m.type)])
ExplainedSum(ms) == SumFunction([m \in ms |-> ExplainedBy(m.type)])
BookSum(ms) == SumFunction([m \in ms |-> InBook(m.type) - InTank(m.type)])

\* These sums are taken over.
LEMMA MovesAddUp ==
    /\ MovedSince = TankSum({m \in moves : m.after = Len(dips)})
    /\ AdjustedSince = BookSum({m \in moves : m.after = Len(dips)})
    /\ \A from, to : Explained(from, to) = ExplainedSum({m \in moves : InPeriod(m, from, to)})
BY DEF MovedSince, AdjustedSince, Explained, TankSum, ExplainedSum, BookSum

\* They are whole numbers, nothing for no movement, and grow with each.
LEMMA MoveSums ==
    ASSUME NEW S, IsFiniteSet(S), S \subseteq MoveRow
    PROVE  /\ TankSum({}) = 0 /\ ExplainedSum({}) = 0 /\ BookSum({}) = 0
           /\ TankSum(S) \in Int /\ ExplainedSum(S) \in Int /\ BookSum(S) \in Int
           /\ \A m \in MoveRow : m \notin S =>
                 /\ TankSum(S \cup {m}) = TankSum(S) + InTank(m.type)
                 /\ ExplainedSum(S \cup {m}) = ExplainedSum(S) + ExplainedBy(m.type)
                 /\ BookSum(S \cup {m}) = BookSum(S) + (InBook(m.type) - InTank(m.type))
<1>1. \A m \in MoveRow : /\ InTank(m.type) \in Int /\ ExplainedBy(m.type) \in Int
                         /\ InBook(m.type) - InTank(m.type) \in Int
  BY DEF MoveRow, MoveType, InTank, ExplainedBy, InBook
<1>2. TankSum({}) = 0 /\ ExplainedSum({}) = 0 /\ BookSum({}) = 0
  BY SumOfNothing DEF TankSum, ExplainedSum, BookSum, SumFunction
<1>3. TankSum(S) \in Int
  <2>. DEFINE f == [m \in S |-> InTank(m.type)]
  <2>1. SumFunctionOnSet(f, S) \in Int
    BY <1>1, SumIsInt
  <2>. QED BY <2>1 DEF TankSum, SumFunction
<1>4. ExplainedSum(S) \in Int
  <2>. DEFINE f == [m \in S |-> ExplainedBy(m.type)]
  <2>1. SumFunctionOnSet(f, S) \in Int
    BY <1>1, SumIsInt
  <2>. QED BY <2>1 DEF ExplainedSum, SumFunction
<1>5. BookSum(S) \in Int
  <2>. DEFINE f == [m \in S |-> InBook(m.type) - InTank(m.type)]
  <2>1. SumFunctionOnSet(f, S) \in Int
    BY <1>1, SumIsInt
  <2>. QED BY <2>1 DEF BookSum, SumFunction
<1>6. ASSUME NEW e \in MoveRow, e \notin S
      PROVE  TankSum(S \cup {e}) = TankSum(S) + InTank(e.type)
  <2>. DEFINE f == [m \in S |-> InTank(m.type)]
             h == [m \in S \cup {e} |-> InTank(m.type)]
  <2>1. SumFunctionOnSet(h, S \cup {e}) = SumFunctionOnSet(h, S) + h[e]
    BY <1>1, <1>6, SumGrows
  <2>2. SumFunctionOnSet(h, S) = SumFunctionOnSet(f, S)
    BY SumAgrees
  <2>. QED BY <2>1, <2>2 DEF TankSum, SumFunction
<1>7. ASSUME NEW e \in MoveRow, e \notin S
      PROVE  ExplainedSum(S \cup {e}) = ExplainedSum(S) + ExplainedBy(e.type)
  <2>. DEFINE f == [m \in S |-> ExplainedBy(m.type)]
             h == [m \in S \cup {e} |-> ExplainedBy(m.type)]
  <2>1. SumFunctionOnSet(h, S \cup {e}) = SumFunctionOnSet(h, S) + h[e]
    BY <1>1, <1>7, SumGrows
  <2>2. SumFunctionOnSet(h, S) = SumFunctionOnSet(f, S)
    BY SumAgrees
  <2>. QED BY <2>1, <2>2 DEF ExplainedSum, SumFunction
<1>8. ASSUME NEW e \in MoveRow, e \notin S
      PROVE  BookSum(S \cup {e}) = BookSum(S) + (InBook(e.type) - InTank(e.type))
  <2>. DEFINE f == [m \in S |-> InBook(m.type) - InTank(m.type)]
             h == [m \in S \cup {e} |-> InBook(m.type) - InTank(m.type)]
  <2>1. SumFunctionOnSet(h, S \cup {e}) = SumFunctionOnSet(h, S) + h[e]
    BY <1>1, <1>8, SumGrows
  <2>2. SumFunctionOnSet(h, S) = SumFunctionOnSet(f, S)
    BY SumAgrees
  <2>. QED BY <2>1, <2>2 DEF BookSum, SumFunction
<1>. QED BY <1>2, <1>3, <1>4, <1>5, <1>6, <1>7, <1>8

\* The tables a read leaves alone keep all that is said of them.
LEMMA TankBookTablesStay ==
    ASSUME TankBookTables, mainPC \in BOOLEAN, UNCHANGED tankBookVars, mainPC' = mainPC
    PROVE  TankBookTables' /\ \A j : TankBookJob(j) => TankBookJob(j)'
<1>1. UNCHANGED <<bookDay, inTank, book, moves, dips, lost>>
  BY DEF tankBookVars
<1>2. (~ mainPC)' = (~ mainPC)
  OBVIOUS
<1>3. \A i : Opening(i)' = Opening(i) /\ Begins(i)' = Begins(i)
  BY <1>1 DEF Opening, Begins
<1>4. /\ \A from, to : Explained(from, to)' = Explained(from, to)
      /\ MovedSince' = MovedSince /\ AdjustedSince' = AdjustedSince
  BY <1>1 DEF Explained, MovedSince, AdjustedSince
<1>5. \A n : DatesTell(n)' = DatesTell(n)
  BY <1>1 DEF DatesTell, Begins
<1>6. TankIsExplained'
  BY <1>1, <1>2, <1>4, <1>5 DEF TankBookTables, TankIsExplained, VarianceIsLossButReturns,
                                ReturnedBefore, BookFollowsTank
<1>7. TankBookTables'
  BY <1>1, <1>2, <1>3, <1>4, <1>6 DEF TankBookTables, TankBookTypeOK, MovesInv,
                                      ReturnsAreCounted, TankFollowsMoves, Opening
<1>8. ASSUME NEW j, TankBookJob(j) PROVE TankBookJob(j)'
  <2>1. Opening(j.last)' = Opening(j.last)
        /\ Explained(Begins(j.last), j.day)' = Explained(Begins(j.last), j.day)
    BY <1>1 DEF Opening, Begins, Explained
  <2>. QED BY <1>1, <1>2, <1>8, <2>1 DEF TankBookJob
<1>. QED BY <1>7, <1>8

\* A request that reads relies on what it has just read.
LEMMA TankBookRead ==
    ASSUME TankBookInv, NEW s \in Session, NEW j, Begin(s, j), TankBookJob(j),
           UNCHANGED tankBookVars
    PROVE  TankBookInv'
<1>1. /\ DesksInv' /\ mainPC' = mainPC /\ job'[s] = j
      /\ \A t \in Session : t # s => job'[t] = job[t]
  BY BeginJob DEF TankBookInv
<1>2. TankBookTables' /\ \A i : TankBookJob(i) => TankBookJob(i)'
  BY <1>1, TankBookTablesStay DEF TankBookInv, DesksInv
<1>. QED BY <1>1, <1>2 DEF TankBookInv

\* A request that writes and ends leaves the others, which run on the Main PC
\* only, what they rely on.
LEMMA TankBookEnd ==
    ASSUME TankBookInv, NEW s \in Session, job[s] # Idle, End(s), TankBookTables',
           \A t \in Session : \A j \in {job[t]} :
              t # s /\ j # Idle /\ mainPC = TRUE => TankBookJob(j)'
    PROVE  TankBookInv'
<1>1. /\ DesksInv' /\ job'[s] = Idle /\ mainPC' = mainPC
      /\ \A t \in Session : t # s => job'[t] = job[t]
  BY EndJob DEF TankBookInv
<1>2. ASSUME NEW t \in Session, NEW j \in {job'[t]}, j # Idle PROVE TankBookJob(j)'
  <2>1. t # s /\ job[t] = j /\ mainPC = TRUE
    BY <1>1, <1>2 DEF TankBookInv, DesksInv
  <2>. QED BY <1>2, <2>1
<1>. QED BY <1>1, <1>2 DEF TankBookInv

\* On the Main PC, what a request relies on survives every write but a dip's.
LEMMA TankBookJobKept ==
    ASSUME mainPC = TRUE, mainPC' = mainPC, NEW j, TankBookJob(j), dips' = dips
    PROVE  TankBookJob(j)'
<1>1. (~ mainPC)' = FALSE /\ (~ mainPC) = FALSE
  OBVIOUS
<1>. QED BY <1>1 DEF TankBookJob

\* A litre is received, sold, used or adjusted (_record_transaction_impl).
LEMMA TankMoved ==
    ASSUME TankBookInv, NEW s \in Session, MoveWrite(s)
    PROVE  TankBookInv'
<1>1. TankBookTables /\ TankBookTypeOK /\ MovesInv /\ mainPC \in BOOLEAN
  BY DEF TankBookInv, TankBookTables, DesksInv
<1>2. PICK j : j = job[s]
  OBVIOUS
<1>3. /\ j # Idle /\ TankBookJob(j) /\ j.kind = "move" /\ End(s)
      /\ UNCHANGED <<mainPC, bookDay, dips, lost>>
  BY <1>2 DEF MoveWrite, Runs, TankBookInv, End
<1>4. PICK m : m = [id |-> Cardinality(moves) + 1, type |-> j.type, day |-> bookDay,
                    after |-> Len(dips)]
  OBVIOUS
<1>5. /\ j.type \in MoveType /\ j.seen \in Int /\ (~ mainPC => j.seen = book)
      /\ InTank(j.type) \in Int /\ InBook(j.type) \in Int
  <2>1. j.type \in MoveType /\ j.seen \in Int /\ (~ mainPC => j.seen = book)
    BY <1>3 DEF TankBookJob
  <2>. QED BY <2>1 DEF MoveType, InTank, InBook
<1>6. /\ ExplainedBy(j.type) \in Int
       /\ InTank(j.type) = ExplainedBy(j.type) + (IF j.type = "returned" THEN 1 ELSE 0)
  BY <1>5 DEF MoveType, InTank, ExplainedBy
<1>7. /\ Cardinality(moves) < MaxMoves /\ inTank' = inTank + InTank(j.type)
      /\ inTank' \in 0 .. Full /\ book' = j.seen + InBook(j.type)
      /\ moves' = moves \cup {m}
  BY <1>2, <1>4 DEF MoveWrite, Within
<1>8. Cardinality(moves) \in Nat /\ Len(dips) \in Nat /\ inTank \in Int /\ lost \in Int /\ book \in Int
  BY <1>1, FS_CardinalityType DEF MovesInv, TankBookTypeOK
<1>9. /\ m \in MoveRow /\ m.type = j.type /\ m.after = Len(dips)
      /\ m.id = Cardinality(moves) + 1 /\ m \notin moves
  <2>1. /\ m.type = j.type /\ m.after = Len(dips)
        /\ m.id = Cardinality(moves) + 1
    BY <1>4
  <2>2. m \in MoveRow
    BY <1>1, <1>4, <1>5, <1>7, <1>8, TankBookAssumption DEF MoveRow, TankBookTypeOK
  <2>3. ASSUME m \in moves PROVE FALSE
    <3>1. m.id <= Cardinality(moves)
      BY <1>1, <2>3 DEF MovesInv
    <3>. QED BY <1>8, <2>1, <3>1
  <2>. QED BY <2>1, <2>2, <2>3
<1>. DEFINE S == {x \in moves : x.after = Len(dips)}
<1>10. {x \in moves' : x.after = Len(dips')} = S \cup {m}
  BY <1>3, <1>7, <1>9
<1>11. IsFiniteSet(S) /\ S \subseteq MoveRow /\ m \notin S
  BY <1>1, <1>9, FS_Subset DEF MovesInv, TankBookTypeOK
<1>12. MovedSince = TankSum(S) /\ AdjustedSince = BookSum(S)
  BY MovesAddUp
<1>13. MovedSince' = TankSum(S \cup {m}) /\ AdjustedSince' = BookSum(S \cup {m})
  BY <1>10 DEF MovedSince, AdjustedSince, TankSum, BookSum
<1>14. /\ MovedSince = ExplainedSum(S)
                       + Cardinality({x \in moves : x.type = "returned" /\ x.after = Len(dips)})
       /\ ReturnsAreCounted' <=>
             MovedSince' = ExplainedSum(S \cup {m})
                 + Cardinality({x \in moves' : x.type = "returned" /\ x.after = Len(dips')})
  BY <1>1, <1>10 DEF MovesInv, ReturnsAreCounted, ExplainedSum
<1>. HIDE DEF S
<1>15. /\ MovedSince \in Int /\ AdjustedSince \in Int
       /\ MovedSince' = MovedSince + InTank(j.type)
       /\ AdjustedSince' = AdjustedSince + (InBook(j.type) - InTank(j.type))
  BY <1>9, <1>11, <1>12, <1>13, MoveSums
<1>16. ReturnsAreCounted'
  <2>. DEFINE R == {x \in moves : x.type = "returned" /\ x.after = Len(dips)}
              Q == {x \in moves' : x.type = "returned" /\ x.after = Len(dips')}
  <2>1. IsFiniteSet(R) /\ Cardinality(R) \in Nat /\ m \notin R
    BY <1>1, <1>9, FS_Subset, FS_CardinalityType DEF MovesInv
  <2>2. Cardinality(Q) = Cardinality(R) + (IF j.type = "returned" THEN 1 ELSE 0)
    <3>1. CASE j.type = "returned"
      <4>1. Q = R \cup {m}
        BY <1>3, <1>7, <1>9, <3>1
      <4>. HIDE DEF R, Q
      <4>. QED BY <2>1, <3>1, <4>1, FS_AddElement
    <3>2. CASE j.type # "returned"
      <4>1. Q = R
        BY <1>3, <1>7, <1>9, <3>2
      <4>. HIDE DEF R, Q
      <4>. QED BY <2>1, <3>2, <4>1
    <3>. QED BY <3>1, <3>2
  <2>3. /\ ExplainedSum(S \cup {m}) = ExplainedSum(S) + ExplainedBy(j.type)
        /\ ExplainedSum(S) \in Int
    BY <1>9, <1>11, MoveSums
  <2>4. MovedSince = ExplainedSum(S) + Cardinality(R)
    BY <1>14
  <2>5. MovedSince' = ExplainedSum(S \cup {m}) + Cardinality(Q)
    <3>. HIDE DEF R, Q
    <3>. QED BY <1>5, <1>15, <1>6, <2>1, <2>2, <2>3, <2>4
  <2>. QED BY <1>14, <2>5
<1>17. MovesInv'
  <2>1. IsFiniteSet(moves') /\ Cardinality(moves') = Cardinality(moves) + 1
    BY <1>1, <1>7, <1>9, FS_AddElement DEF MovesInv
  <2>2. ASSUME NEW x \in moves' PROVE x.id <= Cardinality(moves') /\ x.after <= Len(dips)
    <3>1. CASE x \in moves
      <4>1. x.id <= Cardinality(moves) /\ x.after <= Len(dips) /\ x.id \in Int
        BY <1>1, <3>1 DEF MovesInv, TankBookTypeOK, MoveRow
      <4>. QED BY <1>8, <2>1, <4>1
    <3>2. CASE x = m
      BY <1>8, <1>9, <2>1, <3>2
    <3>. QED BY <1>7, <2>2, <3>1, <3>2
  <2>. QED BY <1>3, <1>16, <2>1, <2>2 DEF MovesInv
<1>18. TankFollowsMoves'
  <2>1. Opening(Len(dips))' = Opening(Len(dips))
    BY <1>3 DEF Opening
  <2>2. ~ mainPC => inTank + lost = Opening(Len(dips)) + MovedSince
    BY <1>1 DEF TankBookTables, TankFollowsMoves
  <2>3. Opening(Len(dips)) \in Int
    <3>1. Len(dips) # 0 => dips[Len(dips)] \in DipRow
      BY <1>1, <1>8 DEF TankBookTypeOK
    <3>. QED BY <3>1, TankBookAssumption DEF Opening, DipRow
  <2>4. PICK d \in Int : /\ inTank' = inTank + d /\ lost' = lost
                          /\ MovedSince' = MovedSince + d
    BY <1>3, <1>5, <1>7, <1>15
  <2>5. ~ mainPC => inTank' + lost' = Opening(Len(dips)) + MovedSince'
    BY <1>8, <1>15, <2>2, <2>3, <2>4
  <2>. QED BY <1>3, <2>1, <2>5 DEF TankFollowsMoves
<1>19. BookFollowsTank'
  <2>1. ~ mainPC => book = inTank + lost + AdjustedSince
    BY <1>1 DEF TankBookTables, TankIsExplained, BookFollowsTank
  <2>2. PICK d \in Int, b \in Int :
            /\ inTank' = inTank + d /\ lost' = lost /\ book' = j.seen + b
            /\ AdjustedSince' = AdjustedSince + (b - d)
    BY <1>3, <1>5, <1>7, <1>15
  <2>3. ~ mainPC => book' = inTank' + lost' + AdjustedSince'
    <3>1. ~ mainPC => book' = book + b
      BY <1>5, <2>2
    <3>. QED BY <1>8, <1>15, <2>1, <2>2, <3>1
  <2>. QED BY <1>3, <2>3 DEF BookFollowsTank
<1>20. VarianceIsLossButReturns'
  <2> SUFFICES ASSUME ~ mainPC, NEW n \in DOMAIN dips, DatesTell(n)'
               PROVE  dips[n].variance = Cardinality(ReturnedBefore(n)') - dips[n].lost
    BY <1>3 DEF VarianceIsLossButReturns
  <2>1. DatesTell(n)
    <3>1. Begins(n - 1)' = Begins(n - 1)
      BY <1>3 DEF Begins
    <3>. QED BY <1>3, <1>7, <3>1 DEF DatesTell
  <2>2. ReturnedBefore(n)' = ReturnedBefore(n)
    <3>1. n - 1 # Len(dips)
      BY <1>1, <1>8 DEF TankBookTypeOK
    <3>. QED BY <1>7, <1>9, <3>1 DEF ReturnedBefore
  <2>. QED BY <1>1, <2>1, <2>2 DEF TankBookTables, TankIsExplained, VarianceIsLossButReturns
<1>21. TankBookTables'
  <2>1. TankBookTypeOK'
    BY <1>1, <1>3, <1>5, <1>7, <1>9 DEF TankBookTypeOK
  <2>. QED BY <1>17, <1>18, <1>19, <1>20, <2>1 DEF TankBookTables, TankIsExplained
<1>22. ASSUME NEW t \in Session, NEW i \in {job[t]}, t # s, i # Idle, mainPC = TRUE
       PROVE  TankBookJob(i)'
  BY <1>3, <1>22, TankBookJobKept DEF TankBookInv
<1>. QED BY <1>2, <1>3, <1>21, <1>22, TankBookEnd

\* A reconciliation is stored, and the book set to what was dipped
\* (_perform_reconciliation_impl).
LEMMA TankDipped ==
    ASSUME TankBookInv, NEW s \in Session, DipWrite(s)
    PROVE  TankBookInv'
<1>1. TankBookTables /\ TankBookTypeOK /\ MovesInv /\ mainPC \in BOOLEAN
  BY DEF TankBookInv, TankBookTables, DesksInv
<1>2. PICK j : j = job[s]
  OBVIOUS
<1>3. /\ j # Idle /\ TankBookJob(j) /\ j.kind = "dip" /\ End(s)
      /\ UNCHANGED <<mainPC, bookDay, inTank, moves>>
  BY <1>2 DEF DipWrite, Runs, TankBookInv, End
<1>4. PICK r : r = [day |-> j.day, physical |-> j.physical, last |-> j.last,
                    variance |-> j.physical - j.expected, lost |-> j.lost]
  OBVIOUS
<1>5. /\ j.key = OneTank /\ Len(dips) < MaxDips
      /\ j.day \in BookDay /\ j.physical \in 0 .. Full /\ j.expected \in Int
      /\ j.lost \in Int /\ j.last \in 0 .. Len(dips)
      /\ ~ mainPC => /\ j.physical = inTank /\ j.lost = lost
                     /\ j.expected = Opening(j.last) + Explained(Begins(j.last), j.day)
  BY <1>3 DEF TankBookJob
<1>6. /\ dips \in Seq(DipRow) /\ Len(dips) \in Nat /\ lost \in Int /\ inTank \in Int
      /\ MaxDips \in Nat
  BY <1>1, TankBookAssumption DEF TankBookTypeOK
<1>7. /\ r \in DipRow /\ r.day = j.day /\ r.physical = j.physical /\ r.last = j.last
      /\ r.variance = j.physical - j.expected /\ r.lost = j.lost
  <2>1. j.last \in 0 .. MaxDips /\ j.physical - j.expected \in Int
    BY <1>5, <1>6
  <2>. QED BY <1>4, <1>5, <2>1 DEF DipRow
<1>8. dips' = Append(dips, r) /\ book' = j.physical /\ lost' = lost - j.lost
  BY <1>2, <1>4 DEF DipWrite, BookAfter
<1>9. /\ dips' \in Seq(DipRow) /\ Len(dips') = Len(dips) + 1
      /\ DOMAIN dips = 1 .. Len(dips) /\ DOMAIN dips' = 1 .. Len(dips')
      /\ \A n \in DOMAIN dips : dips'[n] = dips[n]
      /\ dips'[Len(dips')] = r
  BY <1>6, <1>7, <1>8
<1>10. \A n \in 0 .. Len(dips) : Begins(n)' = Begins(n) /\ Opening(n)' = Opening(n)
  BY <1>9 DEF Begins, Opening
<1>. DEFINE S == {m \in moves : m.after = Len(dips)}
<1>11. {m \in moves' : m.after = Len(dips')} = {}
  <2>1. \A m \in moves : m.after <= Len(dips) /\ m.after \in Int
    BY <1>1 DEF MovesInv, TankBookTypeOK, MoveRow
  <2>. QED BY <1>3, <1>6, <1>9, <2>1
<1>12. IsFiniteSet(S) /\ S \subseteq MoveRow
  BY <1>1, FS_Subset DEF MovesInv, TankBookTypeOK
<1>13. MovedSince' = 0 /\ AdjustedSince' = 0 /\ ReturnsAreCounted'
  <2>1. MovedSince' = TankSum({}) /\ AdjustedSince' = BookSum({})
    BY <1>11 DEF MovedSince, AdjustedSince, TankSum, BookSum
  <2>2. MovedSince' = 0 /\ AdjustedSince' = 0 /\ ExplainedSum({}) = 0
    BY <1>12, <2>1, MoveSums
  <2>3. {m \in moves' : m.type = "returned" /\ m.after = Len(dips')} = {}
    BY <1>11
  <2>4. ReturnsAreCounted' <=> MovedSince' = ExplainedSum({}) + Cardinality({})
    BY <1>11, <2>3 DEF ReturnsAreCounted, ExplainedSum
  <2>. QED BY <2>2, <2>4, FS_EmptySet
<1>. DEFINE R == {m \in moves : m.type = "returned" /\ m.after = Len(dips)}
<1>14. /\ MovedSince = ExplainedSum(S) + Cardinality(R)
       /\ ExplainedSum(S) \in Int /\ Cardinality(R) \in Nat
  <2>1. MovedSince = ExplainedSum(S) + Cardinality(R)
    BY <1>1 DEF MovesInv, ReturnsAreCounted, ExplainedSum
  <2>2. IsFiniteSet(R)
    BY <1>1, FS_Subset DEF MovesInv
  <2>. QED BY <1>12, <2>1, <2>2, MoveSums, FS_CardinalityType
<1>15. Opening(Len(dips)) \in Int
  <2>1. Len(dips) # 0 => dips[Len(dips)] \in DipRow
    BY <1>6
  <2>. QED BY <2>1, TankBookAssumption DEF Opening, DipRow
<1>16. TankFollowsMoves' /\ BookFollowsTank'
  <2>1. Opening(Len(dips))' = j.physical
    BY <1>6, <1>7, <1>9 DEF Opening
  <2>2. ~ mainPC => inTank' + lost' = j.physical
    BY <1>3, <1>5, <1>6, <1>8
  <2>3. ~ mainPC => book' = inTank' + lost'
    BY <1>3, <1>5, <1>6, <1>8
  <2>. QED BY <1>3, <1>5, <1>13, <2>1, <2>2, <2>3 DEF TankFollowsMoves, BookFollowsTank
<1>17. VarianceIsLossButReturns'
  <2> SUFFICES ASSUME ~ mainPC, NEW n \in DOMAIN dips', DatesTell(n)'
               PROVE  dips'[n].variance = Cardinality(ReturnedBefore(n)) - dips'[n].lost
    BY <1>3 DEF VarianceIsLossButReturns, ReturnedBefore
  <2>1. CASE n \in DOMAIN dips
    <3>1. Begins(n - 1)' = Begins(n - 1) /\ dips'[n] = dips[n]
      BY <1>6, <1>9, <1>10, <2>1
    <3>2. DatesTell(n)
      BY <1>3, <3>1 DEF DatesTell
    <3>. QED BY <1>1, <2>1, <3>1, <3>2 DEF TankBookTables, TankIsExplained,
                                                  VarianceIsLossButReturns
  <2>2. CASE n \notin DOMAIN dips
    <3>1. n = Len(dips) + 1 /\ n = Len(dips') /\ dips'[n] = r
      BY <1>6, <1>9, <2>2
    <3>2. r.last = Len(dips)
      BY <1>6, <3>1 DEF DatesTell
    <3>3. \A m \in moves : m.after < n => (m.after = n - 1 <=> InPeriod(m, Begins(n - 1)', r.day))
      BY <1>3, <3>1 DEF DatesTell
    <3>4. \A m \in moves : m.after < n /\ m.after \in Int
      BY <1>1, <1>6, <3>1 DEF MovesInv, TankBookTypeOK, MoveRow
    <3>5. Begins(n - 1)' = Begins(Len(dips)) /\ n - 1 = Len(dips)
      BY <1>6, <1>10, <3>1
    <3>6. S = {m \in moves : InPeriod(m, Begins(Len(dips)), j.day)}
      BY <1>7, <3>3, <3>4, <3>5
    <3>7. j.expected = Opening(Len(dips)) + ExplainedSum(S)
      BY <1>5, <1>7, <3>2, <3>6, MovesAddUp
    <3>8. inTank + lost = Opening(Len(dips)) + (ExplainedSum(S) + Cardinality(R))
      BY <1>1, <1>14 DEF TankBookTables, TankFollowsMoves
    <3>9. ReturnedBefore(n) = R
      BY <3>5 DEF ReturnedBefore
    <3>. HIDE DEF S, R
    <3>10. j.physical - j.expected = Cardinality(R) - j.lost
      <4>1. inTank = j.physical /\ lost = j.lost /\ j.expected \in Int /\ inTank \in Int /\ lost \in Int
        BY <1>5, <1>6
      <4>2. PICK c \in Int : c = Cardinality(R)
        BY <1>14
      <4>3. PICK e \in Int : e = ExplainedSum(S)
        BY <1>14
      <4>4. PICK o \in Int : o = Opening(Len(dips))
        BY <1>15
      <4>5. PICK x \in Int : x = j.expected
        BY <4>1
      <4>6. x = o + e /\ inTank + lost = o + (e + c)
        BY <3>7, <3>8, <4>2, <4>3, <4>4, <4>5
      <4>7. inTank - x = c - lost
        BY <4>1, <4>6
      <4>. QED BY <4>1, <4>2, <4>5, <4>7
    <3>. QED BY <1>7, <3>1, <3>9, <3>10
  <2>. QED BY <2>1, <2>2
<1>18. TankBookTables'
  <2>1. TankBookTypeOK'
    <3>1. book' \in Int /\ lost' \in Int /\ Len(dips') <= MaxDips
      BY <1>5, <1>6, <1>8, <1>9
    <3>. QED BY <1>1, <1>3, <1>9, <3>1 DEF TankBookTypeOK
  <2>2. MovesInv'
    <3>1. \A m \in moves : m.after <= Len(dips')
      BY <1>1, <1>6, <1>9 DEF MovesInv, TankBookTypeOK, MoveRow
    <3>. QED BY <1>1, <1>3, <1>13, <3>1 DEF MovesInv
  <2>. QED BY <1>16, <1>17, <2>1, <2>2 DEF TankBookTables, TankIsExplained
<1>19. ASSUME NEW t \in Session, NEW i \in {job[t]}, t # s, i # Idle, mainPC = TRUE
       PROVE  TankBookJob(i)'
  <2>1. TankBookJob(i) /\ i = job[t] /\ job[t].key # job[s].key
    BY <1>2, <1>3, <1>5, <1>19, TankBookAssumption DEF TankBookInv, DesksInv, OneTank
  <2>2. i.kind # "dip"
    BY <1>2, <1>5, <2>1 DEF TankBookJob
  <2>3. (~ mainPC)' = FALSE
    BY <1>3, <1>19
  <2>. QED BY <2>1, <2>2, <2>3 DEF TankBookJob
<1>. QED BY <1>2, <1>3, <1>18, <1>19, TankBookEnd

\* The reads: a movement remembers the book, a dip what it is to explain.
LEMMA TankBookReads ==
    ASSUME TankBookInv, NEW s \in Session, MoveRead(s) \/ DipRead(s)
    PROVE  TankBookInv'
<1>. SUFFICES \E j : Begin(s, j) /\ TankBookJob(j) /\ UNCHANGED tankBookVars
  BY TankBookRead
<1>1. TankBookTables /\ TankBookTypeOK
  BY DEF TankBookInv, TankBookTables
<1>2. CASE MoveRead(s)
  <2>1. PICK type \in MoveType, key \in {OneTank, NoRecord} :
          Begin(s, [kind |-> "move", type |-> type, seen |-> book, key |-> key])
    BY <1>2 DEF MoveRead
  <2>. QED BY <1>1, <1>2, <2>1 DEF MoveRead, TankBookJob, TankBookTypeOK
<1>3. CASE DipRead(s)
  <2>1. PICK i \in IF dips = <<>> THEN {0} ELSE Latest, day \in BookDay :
          Begin(s, [kind |-> "dip", key |-> OneTank, day |-> day, physical |-> inTank,
                    expected |-> Opening(i) + Explained(Begins(i), day),
                    lost |-> lost, last |-> i])
    BY <1>3 DEF DipRead
  <2>2. dips \in Seq(DipRow) /\ Len(dips) < MaxDips
    BY <1>1, <1>3 DEF TankBookTypeOK, DipRead
  <2>3. i \in 0 .. Len(dips) /\ (i # 0 => i \in DOMAIN dips)
    BY <2>1, <2>2 DEF Latest
  <2>4. Opening(i) \in Int
    <3>1. i # 0 => dips[i] \in DipRow
      BY <2>2, <2>3
    <3>. QED BY <3>1, TankBookAssumption DEF Opening, DipRow
  <2>5. Explained(Begins(i), day) \in Int
    <3>. DEFINE S == {m \in moves : InPeriod(m, Begins(i), day)}
    <3>1. IsFiniteSet(S) /\ S \subseteq MoveRow
      BY <1>1, FS_Subset DEF TankBookTables, MovesInv, TankBookTypeOK
    <3>2. Explained(Begins(i), day) = ExplainedSum(S)
      BY MovesAddUp
    <3>. HIDE DEF S
    <3>. QED BY <3>1, <3>2, MoveSums
  <2>6. inTank \in 0 .. Full /\ lost \in Int
    BY <1>1 DEF TankBookTypeOK
  <2>7. PICK x : x = Opening(i) + Explained(Begins(i), day)
    OBVIOUS
  <2>. DEFINE j == [kind |-> "dip", key |-> OneTank, day |-> day, physical |-> inTank,
                    expected |-> x, lost |-> lost, last |-> i]
  <2>8. TankBookJob(j)
    BY <2>2, <2>3, <2>4, <2>5, <2>6, <2>7 DEF TankBookJob
  <2>9. Begin(s, j)
    BY <2>1, <2>7
  <2>. QED BY <1>3, <2>8, <2>9 DEF DipRead
<1>. QED BY <1>2, <1>3

\* Fuel is lost, or a day passes.
LEMMA TankBeside ==
    ASSUME TankBookInv, Leak \/ BookDayPasses
    PROVE  TankBookInv'
<1>1. TankBookTables /\ TankBookTypeOK /\ MovesInv /\ mainPC \in BOOLEAN
  BY DEF TankBookInv, TankBookTables, DesksInv
<1>2. /\ UNCHANGED <<mainPC, job, book, moves, dips>> /\ DesksInv'
      /\ mainPC \/ \A s \in Session : job[s] = Idle
  BY DesksStay DEF Leak, BookDayPasses, AtOnce, deskVars, TankBookInv
<1>3. /\ bookDay' \in BookDay /\ inTank' \in 0 .. Full /\ lost' \in Int
      /\ inTank' + lost' = inTank + lost
  <2>1. bookDay \in 1 .. LastBookDay /\ inTank \in 0 .. Full /\ lost \in Int
    BY <1>1 DEF TankBookTypeOK, BookDay
  <2>2. CASE Leak
    BY <2>1, <2>2, TankBookAssumption DEF Leak, BookDay
  <2>3. CASE BookDayPasses
    BY <2>1, <2>3, TankBookAssumption DEF BookDayPasses, BookDay
  <2>. QED BY <2>2, <2>3
<1>4. /\ Opening(Len(dips))' = Opening(Len(dips)) /\ MovedSince' = MovedSince
      /\ AdjustedSince' = AdjustedSince /\ \A n : DatesTell(n)' = DatesTell(n)
  BY <1>2 DEF Opening, MovedSince, AdjustedSince, DatesTell, Begins
<1>5. TankFollowsMoves' /\ BookFollowsTank' /\ VarianceIsLossButReturns'
  <2>1. /\ ~ mainPC => inTank + lost = Opening(Len(dips)) + MovedSince
        /\ ~ mainPC => book = inTank + lost + AdjustedSince
    BY <1>1 DEF TankBookTables, TankFollowsMoves, TankIsExplained, BookFollowsTank
  <2>2. TankFollowsMoves' /\ BookFollowsTank'
    BY <1>2, <1>3, <1>4, <2>1 DEF TankFollowsMoves, BookFollowsTank
  <2>3. VarianceIsLossButReturns'
    BY <1>1, <1>2, <1>4 DEF TankBookTables, TankIsExplained, VarianceIsLossButReturns,
                            ReturnedBefore
  <2>. QED BY <2>2, <2>3
<1>6. TankBookTables'
  BY <1>1, <1>2, <1>3, <1>4, <1>5 DEF TankBookTables, TankBookTypeOK, MovesInv,
                                      ReturnsAreCounted, TankIsExplained
<1>7. ASSUME NEW t \in Session, NEW j \in {job[t]}, j # Idle PROVE TankBookJob(j)'
  <2>1. mainPC = TRUE /\ TankBookJob(j)
    BY <1>1, <1>2, <1>7 DEF TankBookInv
  <2>. QED BY <1>2, <2>1, TankBookJobKept
<1>. QED BY <1>2, <1>6, <1>7 DEF TankBookInv

\* What holds at the start and is kept by every step of these requests.
LEMMA TankBookInductive ==
    /\ DesksInit /\ TankBookInit => TankBookInv
    /\ TankBookInv /\ [TankBookNext]_<<deskVars, tankBookVars>> => TankBookInv'
<1>1. ASSUME DesksInit, TankBookInit PROVE TankBookInv
  <2>1. DesksInv /\ \A s \in Session : job[s] = Idle
    BY <1>1, DesksStart DEF DesksInit
  <2>2. MovedSince = 0 /\ AdjustedSince = 0
    <3>1. {m \in moves : m.after = Len(dips)} = {}
      BY <1>1 DEF TankBookInit
    <3>2. IsFiniteSet({})
      BY FS_EmptySet
    <3>. QED BY <3>1, <3>2, MovesAddUp, MoveSums
  <2>3. TankFollowsMoves /\ TankIsExplained
    BY <1>1, <2>2, TankBookAssumption DEF TankBookInit, TankFollowsMoves, Opening,
                   TankIsExplained, VarianceIsLossButReturns, BookFollowsTank
  <2>4. ReturnsAreCounted
    <3>1. /\ {m \in moves : m.after = Len(dips)} = {}
          /\ {m \in moves : m.type = "returned" /\ m.after = Len(dips)} = {}
      BY <1>1 DEF TankBookInit
    <3>2. ExplainedSum({}) = 0 /\ Cardinality({}) = 0
      BY FS_EmptySet, MoveSums
    <3>3. ReturnsAreCounted <=> MovedSince = ExplainedSum({}) + Cardinality({})
      BY <3>1 DEF ReturnsAreCounted, ExplainedSum
    <3>. QED BY <2>2, <3>2, <3>3
  <2>5. TankBookTypeOK /\ MovesInv
    BY <1>1, <2>4, FS_EmptySet, TankBookAssumption
       DEF TankBookInit, TankBookTypeOK, MovesInv, BookDay
  <2>. QED BY <2>1, <2>3, <2>5 DEF TankBookInv, TankBookTables
<1>2. ASSUME TankBookInv, [TankBookNext]_<<deskVars, tankBookVars>> PROVE TankBookInv'
  <2>1. TankBookTables /\ mainPC \in BOOLEAN
    BY <1>2 DEF TankBookInv, DesksInv
  <2>2. CASE UNCHANGED <<deskVars, tankBookVars>>
    <3>1. UNCHANGED <<mainPC, job>> /\ DesksInv' /\ UNCHANGED tankBookVars
      BY <1>2, <2>2, DesksStay DEF deskVars, TankBookInv
    <3>2. TankBookTables' /\ \A j : TankBookJob(j) => TankBookJob(j)'
      BY <2>1, <3>1, TankBookTablesStay
    <3>. QED BY <1>2, <3>1, <3>2 DEF TankBookInv
  <2>3. ASSUME NEW s \in Session, GiveUp(s), UNCHANGED tankBookVars PROVE TankBookInv'
    <3>1. job[s] # Idle /\ End(s) /\ mainPC' = mainPC
      BY <2>3 DEF GiveUp, End
    <3>2. TankBookTables' /\ \A j : TankBookJob(j) => TankBookJob(j)'
      BY <2>1, <2>3, <3>1, TankBookTablesStay
    <3>. QED BY <1>2, <3>1, <3>2, TankBookEnd DEF TankBookInv
  <2>. QED BY <1>2, <2>2, <2>3, TankBeside, TankBookReads, TankMoved, TankDipped
           DEF TankBookNext
<1>. QED BY <1>1, <1>2

\* What tank_service.py is trusted with, for any tank, movements and dips.
THEOREM TankStaysExplained == TankBookSpec => []TankIsExplained
<1>1. TankBookInv => TankIsExplained
  BY DEF TankBookInv, TankBookTables
<1>. QED BY <1>1, TankBookInductive, PTL DEF TankBookSpec

-----------------------------------------------------------------------------
(***************************************************************************)
(* The bowser: a day opens with what the day before closed with, and has   *)
(* one reading, one opening and one bill of a number.                      *)
(***************************************************************************)

\* Two rows in force on a day are the same row, or bills of other numbers.
OneInForce ==
    ~ mainPC =>
       /\ \A r, q \in meters :
             r.day = q.day /\ r.status = "active" /\ q.status = "active" => r = q
       /\ \A r, q \in openings :
             r.day = q.day /\ r.status = "active" /\ q.status = "active" => r = q
       /\ \A r, q \in bowserBills :
             r.day = q.day /\ r.no = q.no /\ r.status = "active" /\ q.status = "active" => r = q

\* What a request that has read goes on with (bowser_service.py).
BowserJob(j) ==
    /\ j.kind = "transfer" => j.day \in BowserDay /\ j.litres \in Litres
    /\ j.kind = "bill" =>
         /\ j.no \in BillNumber /\ j.day \in BowserDay /\ j.litres \in Litres
         /\ ~ mainPC => NumberFree(j.no, j.day)
    /\ j.kind = "void bill" => j.bill \in BowserBillRow
    /\ j.kind = "meter" =>
         j.day \in BowserDay /\ (~ mainPC => j.old = NewestInForce(meters, j.day))
    /\ j.kind = "opening" =>
         /\ j.day \in BowserDay /\ j.litres \in 0 .. MaxLitres
         /\ ~ mainPC => j.old = NewestInForce(openings, j.day)

BowserTables ==
    /\ BowserTypeOK /\ OneInForce
    /\ IsFiniteSet(transfers) /\ IsFiniteSet(bowserBills)
    /\ IsFiniteSet(meters) /\ IsFiniteSet(openings)

BowserInv ==
    /\ DesksInv /\ BowserTables
    /\ \A s \in Session : \A j \in {job[s]} : j # Idle => BowserJob(j)

\* The newest of some rows is one of them.
LEMMA NewestIsOne ==
    ASSUME NEW S, IsFiniteSet(S), S # {}, \A r \in S : r.id \in Nat
    PROVE  NewestOf(S) \in S
<1>. DEFINE f == [r \in S |-> r.id]
<1>1. \A r \in S : f[r] \in Int
  OBVIOUS
<1>. HIDE DEF f
<1>2. PICK m \in S : \A r \in S : f[r] <= f[m]
  BY <1>1, GreatestOfFew
<1>3. m \in S /\ \A r \in S : r.id <= m.id
  BY <1>2 DEF f
<1>4. \E m_1 \in S : \A r \in S : r.id <= m_1.id
  BY <1>3
<1>. QED BY <1>4 DEF NewestOf

\* The opening that counts is of that day or an earlier one, and the same as
\* a day later when none was set then.
LEMMA ManualCarries ==
    ASSUME BowserTables, NEW day \in BowserDay, InForce(openings, day + 1) = {}
    PROVE  /\ Manual(day + 1) = Manual(day)
           /\ Manual(day).day \in Int /\ Manual(day).day <= day /\ Manual(day).litres \in Int
<1>. DEFINE A(d) == {o \in openings : o.day <= d /\ o.status = "active"}
            L(d) == {o \in A(d) : \A q \in A(d) : q.day <= o.day}
<1>1. /\ \A o \in openings : o.day \in Int /\ o.id \in Nat /\ o.litres \in Int
      /\ day \in Int /\ day >= 1 /\ IsFiniteSet(openings)
  BY BowserAssumption DEF BowserTables, BowserTypeOK, OpeningRow, BowserDay
<1>2. A(day + 1) = A(day)
  <2>1. \A o \in openings : o.status = "active" => o.day # day + 1
    BY DEF InForce
  <2>2. \A o \in openings : o.day <= day + 1 /\ o.day # day + 1 <=> o.day <= day
    BY <1>1
  <2>. QED BY <2>1, <2>2
<1>3. L(day + 1) = L(day)
  BY <1>2
<1>4. /\ Manual(day) = IF A(day) = {} THEN [day |-> 0, litres |-> 0] ELSE NewestOf(L(day))
      /\ Manual(day + 1) = IF A(day + 1) = {} THEN [day |-> 0, litres |-> 0]
                           ELSE NewestOf(L(day + 1))
  BY DEF Manual
<1>5. CASE A(day) = {}
  <2>1. Manual(day) = [day |-> 0, litres |-> 0] /\ Manual(day + 1) = [day |-> 0, litres |-> 0]
    BY <1>2, <1>4, <1>5
  <2>. QED BY <1>1, <2>1
<1>6. CASE A(day) # {}
  <2>1. L(day) # {}
    <3>. DEFINE f == [o \in A(day) |-> o.day]
    <3>1. IsFiniteSet(A(day)) /\ \A o \in A(day) : f[o] \in Int
      BY <1>1, FS_Subset
    <3>. HIDE DEF f, A
    <3>2. PICK m \in A(day) : \A o \in A(day) : f[o] <= f[m]
      BY <1>6, <3>1, GreatestOfFew
    <3>. QED BY <3>2 DEF f
  <2>2. IsFiniteSet(L(day)) /\ \A o \in L(day) : o.id \in Nat
    BY <1>1, FS_Subset
  <2>. HIDE DEF L
  <2>3. NewestOf(L(day)) \in L(day)
    BY <2>1, <2>2, NewestIsOne
  <2>4. Manual(day) \in L(day) /\ Manual(day + 1) = Manual(day)
    BY <1>2, <1>3, <1>4, <1>6, <2>3
  <2>. QED BY <1>1, <2>4 DEF L
<1>. QED BY <1>5, <1>6

\* The rows from a day on and before another, and those of a day.
Since(S, from, day) == {r \in S : r.day < day /\ CountsFrom([day |-> from], r.day)}
OfDay(S, day) == {r \in S : r.day = day}

\* What rows of some days add up to, and those of one more day.
LEMMA DaysAddUp ==
    ASSUME NEW S, IsFiniteSet(S), NEW from \in Int, NEW day \in Int, from <= day,
           \A r \in S : r.day \in Int /\ r.litres \in Int
    PROVE  /\ SumOf(Since(S, from, day + 1)) = SumOf(Since(S, from, day)) + SumOf(OfDay(S, day))
           /\ SumOf(Since(S, from, day)) \in Int /\ SumOf(OfDay(S, day)) \in Int
           /\ from = day => SumOf(Since(S, from, day)) = 0
<1>. DEFINE f == [r \in S |-> r.litres]
            B == Since(S, from, day)
            D == OfDay(S, day)
            C == Since(S, from, day + 1)
<1>1. C = B \cup D /\ B \cap D = {}
  BY DEF CountsFrom, Since, OfDay
<1>2. IsFiniteSet(B) /\ IsFiniteSet(D) /\ IsFiniteSet(C)
  BY FS_Subset DEF Since, OfDay
<1>3. from = day => B = {}
  BY DEF CountsFrom, Since
<1>4. \A x \in S : f[x] \in Int
  OBVIOUS
<1>5. ASSUME NEW X \in SUBSET S, IsFiniteSet(X)
      PROVE  SumOf(X) = SumFunctionOnSet(f, X) /\ SumFunctionOnSet(f, X) \in Int
  <2>1. SumFunctionOnSet([r \in X |-> r.litres], X) = SumFunctionOnSet(f, X)
    BY <1>5, SumAgrees
  <2>2. SumFunctionOnSet(f, X) \in Int
    BY <1>4, <1>5, SumIsInt
  <2>. QED BY <2>1, <2>2 DEF SumOf, LitresOf, SumFunction
<1>6. B \in SUBSET S /\ D \in SUBSET S /\ C \in SUBSET S
  BY DEF Since, OfDay
<1>. HIDE DEF B, C, D, f
<1>7. SumFunctionOnSet(f, B \cup D) = SumFunctionOnSet(f, B) + SumFunctionOnSet(f, D)
  BY <1>1, <1>2, <1>4, <1>6, SumOfBoth
<1>8. SumOf(C) = SumOf(B) + SumOf(D) /\ SumOf(B) \in Int /\ SumOf(D) \in Int
  BY <1>1, <1>2, <1>5, <1>6, <1>7
<1>9. from = day => SumOf(B) = 0
  BY <1>2, <1>3, <1>5, <1>6, SumOfNothing
<1>. QED BY <1>8, <1>9 DEF B, C, D

\* What a day closes with, the next one opens with.
LEMMA BowserCarries == ASSUME BowserTables PROVE CarriedForward
<1>1. SUFFICES ASSUME NEW day \in 1 .. (LastBowserDay - 1), InForce(openings, day + 1) = {}
               PROVE  PositionBefore(day + 1) = Closing(day)
  BY DEF CarriedForward
<1>2. day \in BowserDay /\ day \in Int
  BY BowserAssumption DEF BowserDay
<1>. DEFINE InForceBills == {b \in bowserBills : b.status = "active"}
<1>3. PICK M : M = Manual(day)
  OBVIOUS
<1>4. /\ Manual(day) = M /\ Manual(day + 1) = M
      /\ M.day \in Int /\ M.day <= day /\ M.litres \in Int
  BY <1>1, <1>2, <1>3, ManualCarries
<1>5. /\ IsFiniteSet(transfers) /\ IsFiniteSet(InForceBills)
      /\ \A r \in transfers : r.day \in Int /\ r.litres \in Int
      /\ \A r \in InForceBills : r.day \in Int /\ r.litres \in Int
  BY BowserAssumption, FS_Subset
     DEF BowserTables, BowserTypeOK, TransferRow, BowserBillRow, BowserDay, Litres
<1>6. /\ InForce(bowserBills, day) = OfDay(InForceBills, day)
      /\ {t \in transfers : t.day = day} = OfDay(transfers, day)
  BY DEF InForce, OfDay
<1>. HIDE DEF InForceBills
<1>7. ASSUME NEW d, Manual(d) = M
      PROVE  PositionBefore(d) =
               IF M.day = d THEN M.litres
               ELSE M.litres + SumOf(Since(transfers, M.day, d)) - SumOf(Since(InForceBills, M.day, d))
  <2>. DEFINE T == {r \in transfers : r.day < d /\ CountsFrom(M, r.day)}
              B == {r \in bowserBills : r.day < d /\ CountsFrom(M, r.day)}
              A == {b \in B : b.status = "active"}
  <2>1. PositionBefore(d) = IF M.day = d THEN M.litres ELSE M.litres + SumOf(T) - SumOf(A)
    BY <1>7 DEF PositionBefore
  <2>2. T = Since(transfers, M.day, d) /\ A = Since(InForceBills, M.day, d)
    BY DEF Since, CountsFrom, InForceBills
  <2>. HIDE DEF T, A
  <2>. QED BY <2>1, <2>2
<1>8. ASSUME NEW S \in {transfers, InForceBills}
      PROVE  /\ SumOf(Since(S, M.day, day + 1))
                  = SumOf(Since(S, M.day, day)) + SumOf(OfDay(S, day))
             /\ SumOf(Since(S, M.day, day)) \in Int /\ SumOf(OfDay(S, day)) \in Int
             /\ M.day = day => SumOf(Since(S, M.day, day)) = 0
  BY <1>2, <1>4, <1>5, DaysAddUp
<1>9. Closing(day) = PositionBefore(day) + SumOf(OfDay(transfers, day))
                       - SumOf(OfDay(InForceBills, day))
  BY <1>6 DEF Closing
<1>10. M.day # day + 1
  BY <1>2, <1>4
<1>. QED BY <1>2, <1>4, <1>7, <1>8, <1>9, <1>10

\* One in force of each means that a day has at most one.
LEMMA BowserIsOnce == ASSUME BowserTables PROVE OnceADay
<1>1. ASSUME NEW S, \A r, q \in S : r = q PROVE Cardinality(S) <= 1
  <2>1. CASE S = {}
    BY <2>1, FS_EmptySet
  <2>2. CASE S # {}
    <3>1. PICK r \in S : TRUE
      BY <2>2
    <3>2. S = {r}
      BY <1>1
    <3>. QED BY <3>2, FS_Singleton
  <2>. QED BY <2>1, <2>2
<1>2. SUFFICES ASSUME ~ mainPC, NEW day \in BowserDay
               PROVE  /\ Cardinality(InForce(meters, day)) <= 1
                      /\ Cardinality(InForce(openings, day)) <= 1
                      /\ \A b, c \in InForce(bowserBills, day) : b.no = c.no => b = c
  BY DEF OnceADay
<1>3. OneInForce
  BY DEF BowserTables
<1>4. \A r, q \in InForce(meters, day) : r = q
  BY <1>2, <1>3 DEF OneInForce, InForce
<1>5. \A r, q \in InForce(openings, day) : r = q
  BY <1>2, <1>3 DEF OneInForce, InForce
<1>6. \A b, c \in InForce(bowserBills, day) : b.no = c.no => b = c
  BY <1>2, <1>3 DEF OneInForce, InForce
<1>. QED BY <1>1, <1>4, <1>5, <1>6

\* The tables a request leaves alone keep all that is said of them, and what
\* the requests that have read rely on.
LEMMA BowserTablesStay ==
    ASSUME BowserTables, UNCHANGED bowserVars, mainPC' = mainPC
    PROVE  BowserTables' /\ \A j : BowserJob(j) => BowserJob(j)'
<1>1. UNCHANGED <<internal, transfers, bowserBills, meters, openings>>
  BY DEF bowserVars
<1>2. (~ mainPC)' = (~ mainPC)
  OBVIOUS
<1>3. BowserTables'
  BY <1>1, <1>2 DEF BowserTables, BowserTypeOK, OneInForce
<1>4. \A no, day : NumberFree(no, day)' = NumberFree(no, day)
  BY <1>1 DEF NumberFree, InForce
<1>5. \A day : /\ NewestInForce(meters, day)' = NewestInForce(meters, day)
               /\ NewestInForce(openings, day)' = NewestInForce(openings, day)
  BY <1>1 DEF NewestInForce, InForce
<1>. QED BY <1>2, <1>3, <1>4, <1>5 DEF BowserJob

\* On the Main PC a request relies on no table at all.
LEMMA BowserJobKept ==
    ASSUME mainPC = TRUE, mainPC' = mainPC, NEW j, BowserJob(j)
    PROVE  BowserJob(j)'
<1>1. (~ mainPC)' = FALSE /\ (~ mainPC) = FALSE
  OBVIOUS
<1>. QED BY <1>1 DEF BowserJob

\* A request that reads relies on what it has just read.
LEMMA BowserRead ==
    ASSUME BowserInv, NEW s \in Session, NEW j, Begin(s, j), BowserJob(j),
           UNCHANGED bowserVars
    PROVE  BowserInv'
<1>1. /\ DesksInv' /\ mainPC' = mainPC /\ job'[s] = j
      /\ \A t \in Session : t # s => job'[t] = job[t]
  BY BeginJob DEF BowserInv
<1>2. BowserTables' /\ \A i : BowserJob(i) => BowserJob(i)'
  BY <1>1, BowserTablesStay DEF BowserInv
<1>. QED BY <1>1, <1>2 DEF BowserInv

\* A request that writes and ends leaves the others what they rely on: there
\* are none, or this is the Main PC.
LEMMA BowserEnd ==
    ASSUME BowserInv, NEW s \in Session, job[s] # Idle, End(s), BowserTables'
    PROVE  BowserInv'
<1>1. /\ DesksInv' /\ job'[s] = Idle /\ mainPC' = mainPC
      /\ \A t \in Session : t # s => job'[t] = job[t]
  BY EndJob DEF BowserInv
<1>2. ASSUME NEW t \in Session, NEW j \in {job'[t]}, j # Idle PROVE BowserJob(j)'
  <2>1. t # s /\ job[t] = j /\ mainPC = TRUE
    BY <1>1, <1>2 DEF BowserInv, DesksInv
  <2>2. BowserJob(j)
    BY <1>2, <2>1 DEF BowserInv
  <2>. QED BY <1>1, <2>1, <2>2, BowserJobKept
<1>. QED BY <1>1, <1>2 DEF BowserInv

\* The next id of a table that is finite.
LEMMA NextIdIsNat == ASSUME NEW S, IsFiniteSet(S) PROVE NextId(S) \in Nat
BY FS_CardinalityType DEF NextId

\* A litre goes to the bowser (create_transfer).
LEMMA TransferWritten ==
    ASSUME BowserInv, NEW s \in Session, TransferWrite(s)
    PROVE  BowserInv'
<1>1. PICK j : j = job[s]
  OBVIOUS
<1>2. /\ j # Idle /\ BowserJob(j) /\ j.kind = "transfer" /\ End(s) /\ mainPC' = mainPC
      /\ BowserTypeOK /\ OneInForce /\ BowserTables
  BY <1>1 DEF TransferWrite, Runs, BowserInv, BowserTables, End
<1>3. /\ internal' = IF j.found THEN internal ELSE internal + 1
      /\ transfers' = transfers \cup {[id |-> NextId(transfers), day |-> j.day,
                                       litres |-> j.litres, status |-> "active"]}
      /\ UNCHANGED <<bowserBills, meters, openings>>
  BY <1>1 DEF TransferWrite
<1>4. j.day \in BowserDay /\ j.litres \in Litres /\ NextId(transfers) \in Nat
  BY <1>2, NextIdIsNat DEF BowserJob, BowserTables
<1>5. [id |-> NextId(transfers), day |-> j.day, litres |-> j.litres, status |-> "active"]
        \in TransferRow
  BY <1>4 DEF TransferRow
<1>6. transfers' \subseteq TransferRow /\ IsFiniteSet(transfers') /\ internal' \in Nat
  <2>1. IsFiniteSet(transfers')
    BY <1>2, <1>3, FS_AddElement DEF BowserTables
  <2>2. transfers' \subseteq TransferRow
    BY <1>2, <1>3, <1>5 DEF BowserTypeOK
  <2>3. internal' \in Nat
    BY <1>2, <1>3 DEF BowserTypeOK
  <2>. QED BY <2>1, <2>2, <2>3
<1>7. OneInForce'
  <2>1. (~ mainPC)' = (~ mainPC)
    BY <1>2
  <2>. QED BY <1>2, <1>3, <2>1 DEF OneInForce
<1>8. BowserTables'
  BY <1>2, <1>3, <1>6, <1>7 DEF BowserTables, BowserTypeOK
<1>. QED BY <1>1, <1>2, <1>8, BowserEnd

\* A bill is entered (record_bill): in one window its number is still free.
LEMMA BillWritten ==
    ASSUME BowserInv, NEW s \in Session, BillWrite(s)
    PROVE  BowserInv'
<1>1. PICK j : j = job[s]
  OBVIOUS
<1>2. /\ j # Idle /\ BowserJob(j) /\ j.kind = "bill" /\ End(s) /\ mainPC' = mainPC
      /\ BowserTypeOK /\ OneInForce /\ BowserTables
  BY <1>1 DEF BillWrite, Runs, BowserInv, BowserTables, End
<1>3. PICK b : b = [id |-> NextId(bowserBills), no |-> j.no, day |-> j.day,
                    litres |-> j.litres, status |-> "active"]
  OBVIOUS
<1>4. bowserBills' = bowserBills \cup {b} /\ UNCHANGED <<internal, transfers, meters, openings>>
  BY <1>1, <1>3 DEF BillWrite
<1>5. /\ j.no \in BillNumber /\ j.day \in BowserDay /\ j.litres \in Litres
      /\ NextId(bowserBills) \in Nat
  BY <1>2, NextIdIsNat DEF BowserJob, BowserTables
<1>6. b \in BowserBillRow
  BY <1>3, <1>5 DEF BowserBillRow, InForceOrVoid
<1>7. OneInForce'
  <2>1. (~ mainPC)' = (~ mainPC)
    BY <1>2
  <2>2. ~ mainPC => \A r \in bowserBills :
           ~ (r.day = b.day /\ r.no = b.no /\ r.status = "active")
    <3>1. ~ mainPC => \A r \in bowserBills :
             ~ (r.day = j.day /\ r.no = j.no /\ r.status = "active")
      BY <1>2 DEF BowserJob, NumberFree, InForce
    <3>. QED BY <1>3, <3>1
  <2>3. ~ mainPC => \A r, q \in bowserBills' :
           r.day = q.day /\ r.no = q.no /\ r.status = "active" /\ q.status = "active" => r = q
    BY <1>2, <1>4, <2>2 DEF OneInForce
  <2>. QED BY <1>2, <1>4, <2>1, <2>3 DEF OneInForce
<1>8. BowserTables'
  BY <1>2, <1>4, <1>6, <1>7, FS_AddElement DEF BowserTables, BowserTypeOK
<1>. QED BY <1>1, <1>2, <1>8, BowserEnd

\* A bill is voided (void_bill).
LEMMA BillVoided ==
    ASSUME BowserInv, NEW s \in Session, VoidBillWrite(s)
    PROVE  BowserInv'
<1>1. PICK j : j = job[s]
  OBVIOUS
<1>2. /\ j # Idle /\ BowserJob(j) /\ j.kind = "void bill" /\ End(s) /\ mainPC' = mainPC
      /\ BowserTypeOK /\ OneInForce /\ BowserTables
  BY <1>1 DEF VoidBillWrite, Runs, BowserInv, BowserTables, End
<1>3. PICK b : b = [j.bill EXCEPT !.status = "void"]
  OBVIOUS
<1>4. /\ bowserBills' = (bowserBills \ {j.bill}) \cup {b}
      /\ UNCHANGED <<internal, transfers, meters, openings>>
  BY <1>1, <1>3 DEF VoidBillWrite
<1>5. b \in BowserBillRow /\ b.status = "void"
  <2>1. j.bill \in BowserBillRow
    BY <1>2 DEF BowserJob
  <2>. QED BY <1>3, <2>1 DEF BowserBillRow, InForceOrVoid
<1>6. OneInForce'
  <2>1. (~ mainPC)' = (~ mainPC)
    BY <1>2
  <2>2. \A r \in bowserBills' : r.status = "active" => r \in bowserBills
    BY <1>4, <1>5
  <2>. QED BY <1>2, <1>4, <2>1, <2>2 DEF OneInForce
<1>7. IsFiniteSet(bowserBills')
  BY <1>2, <1>4, FS_AddElement, FS_Subset DEF BowserTables
<1>8. BowserTables'
  BY <1>2, <1>4, <1>5, <1>6, <1>7 DEF BowserTables, BowserTypeOK
<1>. QED BY <1>1, <1>2, <1>8, BowserEnd

\* A replacement adds no row.
LEMMA ReplacedIsFinite ==
    ASSUME NEW S, IsFiniteSet(S), NEW old
    PROVE  IsFiniteSet(Replaced(S, old))
<1>. DEFINE f == [r \in S |-> IF r \in old THEN [r EXCEPT !.status = "void"] ELSE r]
<1>1. Replaced(S, old) = {f[r] : r \in S}
  BY DEF Replaced
<1>2. f \in Surjection(S, {f[r] : r \in S})
  BY DEF Surjection
<1>. QED BY <1>1, <1>2, FS_Surjection

\* A row that replaces what was read of its day: of the rows in force on a day
\* there is still one, as there was before.
LEMMA DayReplaced ==
    ASSUME NEW S, IsFiniteSet(S),
           \A r \in S : r.id \in Nat /\ [r EXCEPT !.status = "void"].status = "void",
           \A r, q \in S : r.day = q.day /\ r.status = "active" /\ q.status = "active" => r = q,
           NEW new
    PROVE  \A r, q \in Replaced(S, NewestInForce(S, new.day)) \cup {new} :
              r.day = q.day /\ r.status = "active" /\ q.status = "active" => r = q
<1>. DEFINE old == NewestInForce(S, new.day)
            N == InForce(S, new.day)
<1>1. IsFiniteSet(N) /\ \A r \in N : r.id \in Nat
  BY FS_Subset DEF InForce
<1>2. \A r, q \in N : r = q
  BY DEF InForce
<1>3. N \subseteq old
  <2>1. CASE N = {}
    BY <2>1
  <2>2. CASE N # {}
    <3>1. old = {NewestOf(N)}
      BY <2>2 DEF NewestInForce
    <3>. HIDE DEF N, old
    <3>2. NewestOf(N) \in N
      BY <1>1, <2>2, NewestIsOne
    <3>. QED BY <1>2, <3>1, <3>2
  <2>. QED BY <2>1, <2>2
<1>4. \A r \in Replaced(S, old) : r.status = "active" => r \in S /\ r \notin old
  <2>. HIDE DEF old
  <2>. QED BY DEF Replaced
<1>5. \A r \in Replaced(S, old) : r.status = "active" => r.day # new.day
  BY <1>3, <1>4 DEF InForce
<1>. HIDE DEF old
<1>6. \A r \in Replaced(S, old) \cup {new} : r = new \/ r \in Replaced(S, old)
  OBVIOUS
<1>. QED BY <1>4, <1>5, <1>6 DEF old

\* The meter is read (record_meter).
LEMMA MeterWritten ==
    ASSUME BowserInv, NEW s \in Session, MeterWrite(s)
    PROVE  BowserInv'
<1>1. PICK j : j = job[s]
  OBVIOUS
<1>2. /\ j # Idle /\ BowserJob(j) /\ j.kind = "meter" /\ End(s) /\ mainPC' = mainPC
      /\ BowserTypeOK /\ OneInForce /\ BowserTables
  BY <1>1 DEF MeterWrite, Runs, BowserInv, BowserTables, End
<1>3. PICK new : new = [id |-> NextId(meters), day |-> j.day, status |-> "active"]
  OBVIOUS
<1>4. /\ meters' = Replaced(meters, j.old) \cup {new}
      /\ UNCHANGED <<internal, transfers, bowserBills, openings>>
  BY <1>1, <1>3 DEF MeterWrite
<1>5. j.day \in BowserDay /\ NextId(meters) \in Nat
  BY <1>2, NextIdIsNat DEF BowserJob, BowserTables
<1>6. new \in MeterRow /\ new.day = j.day
  BY <1>3, <1>5 DEF MeterRow, InForceOrVoid
<1>7. \A r \in meters : /\ r.id \in Nat /\ [r EXCEPT !.status = "void"] \in MeterRow
                        /\ [r EXCEPT !.status = "void"].status = "void"
  BY <1>2 DEF BowserTypeOK, MeterRow, InForceOrVoid
<1>8. Replaced(meters, j.old) \subseteq MeterRow /\ IsFiniteSet(Replaced(meters, j.old))
  <2>1. IsFiniteSet(Replaced(meters, j.old))
    BY <1>2, ReplacedIsFinite DEF BowserTables
  <2>. QED BY <1>2, <1>7, <2>1 DEF Replaced, BowserTypeOK
<1>9. OneInForce'
  <2>1. (~ mainPC)' = (~ mainPC)
    BY <1>2
  <2>2. ~ mainPC => \A r, q \in meters' :
           r.day = q.day /\ r.status = "active" /\ q.status = "active" => r = q
    <3>1. SUFFICES ASSUME ~ mainPC
                   PROVE  \A r, q \in Replaced(meters, NewestInForce(meters, new.day)) \cup {new} :
                             r.day = q.day /\ r.status = "active" /\ q.status = "active" => r = q
      BY <1>2, <1>4, <1>6 DEF BowserJob
    <3>. QED BY <1>2, <1>7, <3>1, DayReplaced DEF BowserTables, OneInForce
  <2>. QED BY <1>2, <1>4, <2>1, <2>2 DEF OneInForce
<1>10. BowserTables'
  BY <1>2, <1>4, <1>6, <1>8, <1>9, FS_AddElement DEF BowserTables, BowserTypeOK
<1>. QED BY <1>1, <1>2, <1>10, BowserEnd

\* An opening is set by hand (set_opening).
LEMMA OpeningWritten ==
    ASSUME BowserInv, NEW s \in Session, OpeningWrite(s)
    PROVE  BowserInv'
<1>1. PICK j : j = job[s]
  OBVIOUS
<1>2. /\ j # Idle /\ BowserJob(j) /\ j.kind = "opening" /\ End(s) /\ mainPC' = mainPC
      /\ BowserTypeOK /\ OneInForce /\ BowserTables
  BY <1>1 DEF OpeningWrite, Runs, BowserInv, BowserTables, End
<1>3. PICK new : new = [id |-> NextId(openings), day |-> j.day, litres |-> j.litres,
                        status |-> "active"]
  OBVIOUS
<1>4. /\ openings' = Replaced(openings, j.old) \cup {new}
      /\ UNCHANGED <<internal, transfers, bowserBills, meters>>
  BY <1>1, <1>3 DEF OpeningWrite
<1>5. j.day \in BowserDay /\ j.litres \in 0 .. MaxLitres /\ NextId(openings) \in Nat
  BY <1>2, NextIdIsNat DEF BowserJob, BowserTables
<1>6. new \in OpeningRow /\ new.day = j.day
  BY <1>3, <1>5 DEF OpeningRow, InForceOrVoid
<1>7. \A r \in openings : /\ r.id \in Nat /\ [r EXCEPT !.status = "void"] \in OpeningRow
                          /\ [r EXCEPT !.status = "void"].status = "void"
  BY <1>2 DEF BowserTypeOK, OpeningRow, InForceOrVoid
<1>8. Replaced(openings, j.old) \subseteq OpeningRow /\ IsFiniteSet(Replaced(openings, j.old))
  <2>1. IsFiniteSet(Replaced(openings, j.old))
    BY <1>2, ReplacedIsFinite DEF BowserTables
  <2>. QED BY <1>2, <1>7, <2>1 DEF Replaced, BowserTypeOK
<1>9. OneInForce'
  <2>1. (~ mainPC)' = (~ mainPC)
    BY <1>2
  <2>2. ~ mainPC => \A r, q \in openings' :
           r.day = q.day /\ r.status = "active" /\ q.status = "active" => r = q
    <3>1. SUFFICES ASSUME ~ mainPC
                   PROVE  \A r, q \in Replaced(openings, NewestInForce(openings, new.day))
                                        \cup {new} :
                             r.day = q.day /\ r.status = "active" /\ q.status = "active" => r = q
      BY <1>2, <1>4, <1>6 DEF BowserJob
    <3>. QED BY <1>2, <1>7, <3>1, DayReplaced DEF BowserTables, OneInForce
  <2>. QED BY <1>2, <1>4, <2>1, <2>2 DEF OneInForce
<1>10. BowserTables'
  BY <1>2, <1>4, <1>6, <1>8, <1>9, FS_AddElement DEF BowserTables, BowserTypeOK
<1>. QED BY <1>1, <1>2, <1>10, BowserEnd

\* The sale of a transfer is cancelled.
LEMMA TransferCancelled ==
    ASSUME BowserInv, CancelTransferSale
    PROVE  BowserInv'
<1>1. BowserTables /\ BowserTypeOK /\ OneInForce
  BY DEF BowserInv, BowserTables
<1>2. /\ UNCHANGED <<mainPC, job, internal, bowserBills, meters, openings>> /\ DesksInv'
      /\ mainPC \/ \A s \in Session : job[s] = Idle
  BY DesksStay DEF CancelTransferSale, AtOnce, deskVars, BowserInv
<1>3. PICK t \in transfers : transfers' = (transfers \ {t}) \cup {[t EXCEPT !.status = "cancelled"]}
  BY DEF CancelTransferSale
<1>4. transfers' \subseteq TransferRow /\ IsFiniteSet(transfers')
  <2>1. [t EXCEPT !.status = "cancelled"] \in TransferRow
    BY <1>1, <1>3 DEF BowserTypeOK, TransferRow
  <2>2. IsFiniteSet(transfers')
    BY <1>1, <1>3, FS_AddElement, FS_Subset DEF BowserTables
  <2>. QED BY <1>1, <1>3, <2>1, <2>2 DEF BowserTypeOK
<1>5. (~ mainPC)' = (~ mainPC)
  BY <1>2
<1>6. BowserTables'
  BY <1>1, <1>2, <1>4, <1>5 DEF BowserTables, BowserTypeOK, OneInForce
<1>7. ASSUME NEW s \in Session, NEW j \in {job[s]}, j # Idle PROVE BowserJob(j)'
  <2>1. mainPC = TRUE /\ BowserJob(j)
    BY <1>2, <1>7 DEF BowserInv, DesksInv
  <2>. QED BY <1>2, <2>1, BowserJobKept
<1>. QED BY <1>2, <1>6, <1>7 DEF BowserInv

\* The reads: what is looked at before the first write.
LEMMA BowserReads ==
    ASSUME BowserInv, NEW s \in Session,
           TransferRead(s) \/ BillRead(s) \/ VoidBillRead(s) \/ DailyRead(s)
    PROVE  BowserInv'
<1>. SUFFICES \E j : Begin(s, j) /\ BowserJob(j) /\ UNCHANGED bowserVars
  BY BowserRead
<1>1. BowserTypeOK
  BY DEF BowserInv, BowserTables
<1>2. CASE TransferRead(s)
  <2>1. PICK day \in BowserDay, n \in Litres :
          Begin(s, [kind |-> "transfer", key |-> NoRecord, day |-> day, litres |-> n,
                    found |-> internal > 0])
    BY <1>2 DEF TransferRead
  <2>2. BowserJob([kind |-> "transfer", key |-> NoRecord, day |-> day, litres |-> n,
                   found |-> internal > 0])
    BY DEF BowserJob
  <2>. QED BY <1>2, <2>1, <2>2 DEF TransferRead
<1>3. CASE BillRead(s)
  <2>1. PICK no \in BillNumber, day \in BowserDay, n \in Litres :
          /\ NumberFree(no, day)
          /\ Begin(s, [kind |-> "bill", key |-> NoRecord, no |-> no, day |-> day, litres |-> n])
    BY <1>3 DEF BillRead
  <2>2. BowserJob([kind |-> "bill", key |-> NoRecord, no |-> no, day |-> day, litres |-> n])
    BY <2>1 DEF BowserJob
  <2>. QED BY <1>3, <2>1, <2>2 DEF BillRead
<1>4. CASE VoidBillRead(s)
  <2>1. PICK b \in bowserBills : Begin(s, [kind |-> "void bill", key |-> NoRecord, bill |-> b])
    BY <1>4 DEF VoidBillRead
  <2>2. BowserJob([kind |-> "void bill", key |-> NoRecord, bill |-> b])
    BY <1>1, <2>1 DEF BowserJob, BowserTypeOK
  <2>. QED BY <1>4, <2>1, <2>2 DEF VoidBillRead
<1>5. CASE DailyRead(s)
  <2>1. PICK kind \in {"meter", "opening"}, day \in BowserDay, n \in 0 .. MaxLitres :
          Begin(s, [kind |-> kind, key |-> NoRecord, day |-> day, litres |-> n,
                    old |-> NewestInForce(IF kind = "meter" THEN meters ELSE openings, day)])
    BY <1>5 DEF DailyRead
  <2>2. BowserJob([kind |-> kind, key |-> NoRecord, day |-> day, litres |-> n,
                   old |-> NewestInForce(IF kind = "meter" THEN meters ELSE openings, day)])
    BY <2>1 DEF BowserJob
  <2>. QED BY <1>5, <2>1, <2>2 DEF DailyRead
<1>. QED BY <1>2, <1>3, <1>4, <1>5

\* What holds at the start and is kept by every step of these requests.
LEMMA BowserInductive ==
    /\ DesksInit /\ BowserInit => BowserInv
    /\ BowserInv /\ [BowserNext]_<<deskVars, bowserVars>> => BowserInv'
<1>1. ASSUME DesksInit, BowserInit PROVE BowserInv
  <2>1. DesksInv /\ \A s \in Session : job[s] = Idle
    BY <1>1, DesksStart DEF DesksInit
  <2>2. BowserTables
    BY <1>1, FS_EmptySet DEF BowserInit, BowserTables, BowserTypeOK, OneInForce
  <2>. QED BY <2>1, <2>2 DEF BowserInv
<1>2. ASSUME BowserInv, [BowserNext]_<<deskVars, bowserVars>> PROVE BowserInv'
  <2>1. CASE UNCHANGED <<deskVars, bowserVars>>
    <3>1. UNCHANGED <<mainPC, job>> /\ DesksInv' /\ UNCHANGED bowserVars
      BY <1>2, <2>1, DesksStay DEF deskVars, BowserInv
    <3>2. BowserTables' /\ \A j : BowserJob(j) => BowserJob(j)'
      BY <1>2, <3>1, BowserTablesStay DEF BowserInv
    <3>. QED BY <1>2, <3>1, <3>2 DEF BowserInv
  <2>2. ASSUME NEW s \in Session, GiveUp(s), UNCHANGED bowserVars PROVE BowserInv'
    <3>1. job[s] # Idle /\ End(s) /\ mainPC' = mainPC
      BY <2>2 DEF GiveUp, End
    <3>2. BowserTables'
      BY <1>2, <2>2, <3>1, BowserTablesStay DEF BowserInv
    <3>. QED BY <1>2, <3>1, <3>2, BowserEnd
  <2>. QED BY <1>2, <2>1, <2>2, TransferWritten, BillWritten, BillVoided, MeterWritten,
              OpeningWritten, TransferCancelled, BowserReads DEF BowserNext
<1>. QED BY <1>1, <1>2

\* What bowser_service.py is trusted with, for any days, litres and rows.
THEOREM BowserStaysCarried == BowserSpec => []BowserIsCarried
<1>1. BowserInv => BowserIsCarried
  BY BowserCarries, BowserIsOnce DEF BowserInv, BowserIsCarried
<1>. QED BY <1>1, BowserInductive, PTL DEF BowserSpec

-----------------------------------------------------------------------------
(***************************************************************************)
(* The books of the fuel together (module MCBackOffice): the desk a        *)
(* behaviour follows keeps its invariant, the others stay as they began.   *)
(***************************************************************************)

\* A desk that is not followed has the tables it began with.
FuelInv ==
    /\ IF followed \in {"nozzles", "prices"} THEN PumpsInv ELSE PumpsInit
    /\ IF followed = "tank" THEN TankBookInv ELSE TankBookInit
    /\ IF followed = "bowser" THEN BowserInv ELSE BowserInit

\* Tables as they began are in order.
LEMMA FuelStarts ==
    /\ PumpsInit => PumpsAreInOrder
    /\ TankBookInit => TankIsExplained
    /\ BowserInit => BowserIsCarried
<1>1. ASSUME PumpsInit PROVE PumpsAreInOrder
  <2>1. Fitted = {} /\ Cardinality(Fitted) = 0 /\ greatest \in Nat /\ allowed = greatest
    BY <1>1, FS_EmptySet, PumpsAssumption DEF PumpsInit, Fitted
  <2>. QED BY <1>1, <2>1 DEF PumpsInit, PumpsAreInOrder, OutOfServiceIsIdle,
                             NozzlesWithinLimit, PriceIsRecorded, BilledWasSet
<1>2. ASSUME TankBookInit PROVE TankIsExplained
  <2>1. AdjustedSince = 0
    <3>1. {m \in moves : m.after = Len(dips)} = {}
      BY <1>2 DEF TankBookInit
    <3>. QED BY <3>1, FS_EmptySet, MovesAddUp, MoveSums
  <2>. QED BY <1>2, <2>1, TankBookAssumption DEF TankBookInit, TankIsExplained,
                                                 VarianceIsLossButReturns, BookFollowsTank
<1>3. ASSUME BowserInit PROVE BowserIsCarried
  <2>1. BowserTables
    BY <1>3, FS_EmptySet DEF BowserInit, BowserTables, BowserTypeOK, OneInForce
  <2>. QED BY <2>1, BowserCarries, BowserIsOnce DEF BowserIsCarried
<1>. QED BY <1>1, <1>2, <1>3

\* The tables of a desk that no step touches stay as they began.
LEMMA FuelAtRest ==
    /\ PumpsInit /\ UNCHANGED pumpVars => PumpsInit'
    /\ TankBookInit /\ UNCHANGED tankBookVars => TankBookInit'
    /\ BowserInit /\ UNCHANGED bowserVars => BowserInit'
BY DEF PumpsInit, TankBookInit, BowserInit, pumpVars, nozzleVars, priceVars, tankBookVars,
       bowserVars

\* Whatever is followed, every step keeps all three.
LEMMA FuelInductive ==
    /\ MCInit => FuelInv
    /\ FuelInv /\ [MCNext]_mcVars => FuelInv'
<1>1. ASSUME MCInit PROVE FuelInv
  BY <1>1, PumpsInductive, TankBookInductive, BowserInductive DEF MCInit, FuelInv
<1>2. ASSUME FuelInv, [MCNext]_mcVars PROVE FuelInv'
  <2>1. followed' = followed
    BY <1>2 DEF MCNext, mcVars
  <2>2. /\ followed \notin {"nozzles", "prices"} => UNCHANGED pumpVars
        /\ followed # "tank" => UNCHANGED tankBookVars
        /\ followed # "bowser" => UNCHANGED bowserVars
    BY <1>2 DEF MCNext, mcVars, siteVars
  <2>3. /\ followed \in {"nozzles", "prices"} =>
             [NozzlesNext \/ PricesNext]_<<deskVars, pumpVars>>
        /\ followed = "tank" => [TankBookNext]_<<deskVars, tankBookVars>>
        /\ followed = "bowser" => [BowserNext]_<<deskVars, bowserVars>>
    BY <1>2 DEF MCNext, mcVars, siteVars
  <2>4. IF followed \in {"nozzles", "prices"} THEN PumpsInv' ELSE PumpsInit'
    BY <1>2, <2>2, <2>3, PumpsInductive, FuelAtRest DEF FuelInv
  <2>5. IF followed = "tank" THEN TankBookInv' ELSE TankBookInit'
    BY <1>2, <2>2, <2>3, TankBookInductive, FuelAtRest DEF FuelInv
  <2>6. IF followed = "bowser" THEN BowserInv' ELSE BowserInit'
    BY <1>2, <2>2, <2>3, BowserInductive, FuelAtRest DEF FuelInv
  <2>. QED BY <2>1, <2>4, <2>5, <2>6 DEF FuelInv
<1>. QED BY <1>1, <1>2

\* What the books of the fuel are trusted with, along any requests of the
\* office screens: the tank's differences are explained (tank_service.py), the
\* bowser's days follow from each other (bowser_service.py), and so do the
\* nozzles and the prices (nozzle_service.py, fuel_service.py).
THEOREM FuelStaysExplained == MCSpec => []FuelIsExplained
<1>1. FuelInv => FuelIsExplained
  <2>1. /\ PumpsInv => PumpsAreInOrder
        /\ TankBookInv => TankIsExplained
        /\ BowserInv => BowserIsCarried
    BY BowserCarries, BowserIsOnce
       DEF PumpsInv, PumpsTables, TankBookInv, TankBookTables, BowserInv, BowserIsCarried
  <2>. QED BY <2>1, FuelStarts DEF FuelInv, FuelIsExplained
<1>. QED BY <1>1, FuelInductive, PTL DEF MCSpec

=============================================================================
