----------------------------- MODULE PaperBroker -----------------------------
(***************************************************************************)
(* The simulated broker, adapters/broker/paper_broker.py: one object of    *)
(* the API process that holds cash, a position book, the last mark of each *)
(* symbol, the order dictionary and the halt flag.                         *)
(*                                                                         *)
(* The API runs its handlers in a thread pool and the object has no lock.  *)
(* Here a method is one step, except for _process_pending: it walks a      *)
(* snapshot of the order dictionary, and each iteration is a step of its   *)
(* own, so that placements, cancellations and halts of other threads fall  *)
(* between two iterations.  Marks come from one feed thread.               *)
(*                                                                         *)
(* Order objects have identity.  place_order copies its argument and       *)
(* stores the copy, so an object is named by the broker_order_id it is     *)
(* given, here its index in the order of creation, and the dictionary maps *)
(* an order id to the object stored last.  `objects' also keeps what a     *)
(* process had created before it ended: `boot' separates the two.          *)
(***************************************************************************)
EXTENDS Integers, Sequences, FiniteSets, FiniteSetsExt

CONSTANTS
    OrderId,       \* ids of proposed orders
    Symbol,
    Price,         \* marks and limit prices
    Qty,           \* order quantities
    InitialCash,
    Impact(_),     \* price concession at a mark: compute_impact(...).impact_fraction * mark
    Cost(_, _, _), \* compute_costs(side, price, quantity).total
    MaxObjects     \* bound: order objects created in a behaviour

ASSUME SizesAssumption ==
    /\ Price \subseteq Nat \ {0}
    /\ Qty \subseteq Nat \ {0}
    /\ InitialCash \in Nat
    /\ MaxObjects \in Nat

\* compute_impact: spread and slippage are a fraction of the mark.
ASSUME ImpactAssumption == \A p \in Price : Impact(p) \in 0 .. p

\* compute_costs: every component is a non-negative share of the turnover, and
\* together they stay below it.
ASSUME CostAssumption ==
    \A p \in Price, q \in Qty :
        /\ Cost("buy", p + Impact(p), q) \in 0 .. (p + Impact(p)) * q
        /\ Cost("sell", p - Impact(p), q) \in 0 .. (p - Impact(p)) * q

\* A missing mark and a mark of 0 are treated alike by every method.
NoMark == 0
NoLimit == -1
Absent == 0

OrderRec == [id : OrderId, symbol : Symbol, side : {"buy", "sell"}, quantity : Qty,
             order_type : {"market", "limit"}, limit_price : Price \cup {NoLimit}]

Status == {"pending", "filled", "rejected", "cancelled"}

VARIABLES
    cash,
    positions,   \* symbol -> signed shares (0: not in _positions)
    marks,       \* symbol -> last mark
    halted,
    objects,     \* broker_order_id -> order object
    issued,      \* number of broker_order_ids given out
    orders,      \* _orders: order id -> broker_order_id of the stored object
    keys,        \* the keys of _orders in insertion order
    sweep,       \* what _process_pending has still to visit
    boot         \* issued when this process created its broker

vars == <<cash, positions, marks, halted, objects, issued, orders, keys, sweep, boot>>

Object == [id : OrderId, symbol : Symbol, side : {"buy", "sell"}, quantity : Qty,
           order_type : {"market", "limit"}, limit_price : Price \cup {NoLimit},
           status : Status, fill_price : Nat]

Fresh ==
    /\ cash = InitialCash
    /\ positions = [s \in Symbol |-> 0]
    /\ marks = [s \in Symbol |-> NoMark]
    /\ halted = FALSE
    /\ orders = [id \in OrderId |-> Absent]
    /\ keys = << >>
    /\ sweep = << >>

Init ==
    /\ Fresh
    /\ objects = << >>
    /\ issued = 0
    /\ boot = 0

-----------------------------------------------------------------------------
(***************************************************************************)
(* Helpers.                                                                *)
(***************************************************************************)

Marketable(o, mark) ==
    \/ o.limit_price = NoLimit
    \/ o.side = "buy" /\ o.limit_price >= mark
    \/ o.side = "sell" /\ o.limit_price <= mark

FillPrice(o, mark) == IF o.side = "buy" THEN mark + Impact(mark) ELSE mark - Impact(mark)

Notional(o, mark) == FillPrice(o, mark) * o.quantity

Charges(o, mark) == Cost(o.side, FillPrice(o, mark), o.quantity)

SignedQty(o) == IF o.side = "buy" THEN o.quantity ELSE -o.quantity

CashFlow(o, mark) ==
    IF o.side = "buy" THEN -(Notional(o, mark) + Charges(o, mark))
                      ELSE Notional(o, mark) - Charges(o, mark)

\* Mutant: buying power is compared with the notional alone.
Affordable_WithoutCost(o, mark) == o.side = "buy" => Notional(o, mark) <= cash

Affordable(o, mark) == o.side = "buy" => Notional(o, mark) + Charges(o, mark) <= cash

\* Mutant: the copy is stamped with the status of a confirmed order.
NewObject_Approved(order) ==
    [id |-> order.id, symbol |-> order.symbol, side |-> order.side,
     quantity |-> order.quantity, order_type |-> order.order_type,
     limit_price |-> order.limit_price, status |-> "approved", fill_price |-> 0]

\* The object an accepted order becomes, before the broker decides on it.
NewObject(order) ==
    [id |-> order.id, symbol |-> order.symbol, side |-> order.side,
     quantity |-> order.quantity, order_type |-> order.order_type,
     limit_price |-> order.limit_price, status |-> "pending", fill_price |-> 0]

\* Object h takes the value o; h may be new.
Put(h, o) ==
    objects' = [k \in DOMAIN objects \cup {h} |-> IF k = h THEN o ELSE objects[k]]

\* self._orders[o.id] = o
Store(h, o) ==
    /\ Put(h, o)
    /\ orders' = [orders EXCEPT ![o.id] = h]
    /\ keys' = IF orders[o.id] = Absent THEN Append(keys, o.id) ELSE keys

Reject(h, o) ==
    /\ Store(h, [o EXCEPT !.status = "rejected"])
    /\ UNCHANGED <<cash, positions>>

\* Mutant: the position is booked before buying power is checked.
Fill_BooksFirst(h, o, mark) ==
    /\ positions' = [positions EXCEPT ![o.symbol] = @ + SignedQty(o)]
    /\ IF Affordable(o, mark)
       THEN /\ cash' = cash + CashFlow(o, mark)
            /\ Store(h, [o EXCEPT !.status = "filled", !.fill_price = FillPrice(o, mark)])
       ELSE /\ Store(h, [o EXCEPT !.status = "rejected"])
            /\ UNCHANGED cash

\* _fill with _apply_position: a buy needs the cash, a sell needs nothing.
Fill(h, o, mark) ==
    \/ /\ Affordable(o, mark)
       /\ cash' = cash + CashFlow(o, mark)
       /\ positions' = [positions EXCEPT ![o.symbol] = @ + SignedQty(o)]
       /\ Store(h, [o EXCEPT !.status = "filled", !.fill_price = FillPrice(o, mark)])
    \/ /\ ~Affordable(o, mark)
       /\ Reject(h, o)

-----------------------------------------------------------------------------
(***************************************************************************)
(* The methods.                                                            *)
(***************************************************************************)

\* place_order turns an order away while halted and without a price.
Refused(o) == halted \/ marks[o.symbol] = NoMark

Rests(o) == o.order_type = "limit" /\ ~Marketable(o, marks[o.symbol])

\* place_order copies the caller's order.  The copy of an order whose id is
\* already stored takes the place of the stored object in the dictionary.
PlaceOrder(order) ==
    LET h == issued + 1
        o == NewObject(order)
    IN  /\ issued < MaxObjects
        /\ issued' = h
        /\ \/ Refused(o) /\ Reject(h, o)
           \/ ~Refused(o) /\ Rests(o) /\ Store(h, o) /\ UNCHANGED <<cash, positions>>
           \/ ~Refused(o) /\ ~Rests(o) /\ Fill(h, o, marks[o.symbol])
        /\ UNCHANGED <<marks, halted, sweep, boot>>

\* Marks have arrived: every object in the dictionary is looked at again.
\* _process_pending takes list(self._orders.values()).
StartSweep == sweep' = [k \in DOMAIN keys |-> orders[keys[k]]]

SetMark(s, p) ==
    /\ sweep = << >>
    /\ marks' = [marks EXCEPT ![s] = p]
    /\ StartSweep
    /\ UNCHANGED <<cash, positions, halted, objects, issued, orders, keys, boot>>

\* Mutant: the new marks are stored and no pending order is looked at.
UpdateMarks_NoSweep(prices) ==
    /\ sweep = << >>
    /\ marks' = [s \in Symbol |-> IF s \in DOMAIN prices THEN prices[s] ELSE marks[s]]
    /\ UNCHANGED <<cash, positions, halted, objects, issued, orders, keys, sweep, boot>>

UpdateMarks(prices) ==
    /\ sweep = << >>
    /\ marks' = [s \in Symbol |-> IF s \in DOMAIN prices THEN prices[s] ELSE marks[s]]
    /\ StartSweep
    /\ UNCHANGED <<cash, positions, halted, objects, issued, orders, keys, boot>>

\* `if mark and self._marketable(o, mark)'
Crossed(o) == marks[o.symbol] # NoMark /\ Marketable(o, marks[o.symbol])

\* Mutant: the status read when the snapshot was taken is trusted.
ProcessPending_TrustsSnapshot ==
    /\ sweep # << >>
    /\ sweep' = Tail(sweep)
    /\ LET h == Head(sweep)
           o == objects[h]
       IN  \/ /\ o.status # "filled" /\ Crossed(o)
              /\ Fill(h, o, marks[o.symbol])
           \/ /\ ~(o.status # "filled" /\ Crossed(o))
              /\ UNCHANGED <<cash, positions, objects, orders, keys>>
    /\ UNCHANGED <<marks, halted, issued, boot>>

\* One iteration of _process_pending.  The halt flag is not looked at.
ProcessPending ==
    /\ sweep # << >>
    /\ sweep' = Tail(sweep)
    /\ LET h == Head(sweep)
           o == objects[h]
       IN  \/ /\ o.status = "pending" /\ Crossed(o)
              /\ Fill(h, o, marks[o.symbol])
           \/ /\ ~(o.status = "pending" /\ Crossed(o))
              /\ UNCHANGED <<cash, positions, objects, orders, keys>>
    /\ UNCHANGED <<marks, halted, issued, boot>>

\* modify_order: an unknown id or an object that is not pending raises.  The
\* halt flag is not looked at.
ModifyOrder(id, q, limit) ==
    /\ orders[id] # Absent
    /\ LET h == orders[id]
           o == [objects[h] EXCEPT !.quantity = q, !.limit_price = limit]
       IN  /\ objects[h].status = "pending"
           /\ \/ Crossed(o) /\ Fill(h, o, marks[o.symbol])
              \/ ~Crossed(o) /\ Store(h, o) /\ UNCHANGED <<cash, positions>>
    /\ UNCHANGED <<marks, halted, issued, sweep, boot>>

\* cancel_order: no effect unless the object is pending.
CancelOrder(id) ==
    /\ orders[id] # Absent
    /\ objects[orders[id]].status = "pending"
    /\ Put(orders[id], [objects[orders[id]] EXCEPT !.status = "cancelled"])
    /\ UNCHANGED <<cash, positions, marks, halted, issued, orders, keys, sweep, boot>>

Halt ==
    /\ halted' = TRUE
    /\ UNCHANGED <<cash, positions, marks, objects, issued, orders, keys, sweep, boot>>

Resume ==
    /\ halted' = FALSE
    /\ UNCHANGED <<cash, positions, marks, objects, issued, orders, keys, sweep, boot>>

\* The API process ends and a new one constructs its broker (__init__).
Restart ==
    /\ cash' = InitialCash
    /\ positions' = [s \in Symbol |-> 0]
    /\ marks' = [s \in Symbol |-> NoMark]
    /\ halted' = FALSE
    /\ orders' = [id \in OrderId |-> Absent]
    /\ keys' = << >>
    /\ sweep' = << >>
    /\ boot' = issued
    /\ UNCHANGED <<objects, issued>>

-----------------------------------------------------------------------------
CONSTANT Orders   \* the orders callers place

ASSUME OrdersAssumption == Orders \subseteq OrderRec

Next ==
    \/ \E order \in Orders : PlaceOrder(order)
    \/ \E s \in Symbol, p \in Price : SetMark(s, p)
    \/ \E prices \in [Symbol -> Price] : UpdateMarks(prices)
    \/ ProcessPending
    \/ \E id \in OrderId, q \in Qty, limit \in Price \cup {NoLimit} : ModifyOrder(id, q, limit)
    \/ \E id \in OrderId : CancelOrder(id)
    \/ Halt
    \/ Resume
    \/ Restart

Spec == Init /\ [][Next]_vars

-----------------------------------------------------------------------------
(***************************************************************************)
(* Properties.                                                             *)
(***************************************************************************)

TypeOK ==
    /\ cash \in Int
    /\ positions \in [Symbol -> Int]
    /\ marks \in [Symbol -> Price \cup {NoMark}]
    /\ halted \in BOOLEAN
    /\ issued \in 0 .. MaxObjects
    /\ boot \in 0 .. issued
    /\ objects \in [1 .. issued -> Object]
    /\ orders \in [OrderId -> 0 .. issued]
    /\ keys \in Seq(OrderId)
    /\ sweep \in Seq(1 .. issued)

\* The buying-power check of _fill is enough: no sequence of fills, partial
\* sweeps and sells with their costs overdraws the account.
CashNonNegative == cash >= 0

\* Between two arrivals of marks no order rests at a limit the market has
\* reached: place_order and modify_order check the current mark themselves and
\* update_marks has every stored order looked at.
RestingOrdersUncrossed ==
    \A id \in OrderId :
        LET h == orders[id] IN
        /\ h # Absent
        /\ objects[h].status = "pending"
        /\ h \notin {sweep[k] : k \in DOMAIN sweep}
        => ~Crossed(objects[h])

\* What this process's broker holds in cash and shares is the sum of the
\* objects it filled: each filled object was booked exactly once, at the price
\* and quantity it shows, and nothing else was booked.
Filled == {h \in (boot + 1) .. issued : objects[h].status = "filled"}

Paid(h) ==
    LET o == objects[h]
        gross == o.fill_price * o.quantity
        cost == Cost(o.side, o.fill_price, o.quantity)
    IN  IF o.side = "buy" THEN gross + cost ELSE cost - gross

Booked(s, h) == IF objects[h].symbol = s THEN SignedQty(objects[h]) ELSE 0

BookMatchesFills ==
    /\ cash = InitialCash - MapThenSumSet(Paid, Filled)
    /\ \A s \in Symbol : positions[s] = MapThenSumSet(LAMBDA h : Booked(s, h), Filled)

\* The broker does what its port promises: see BrokerContract.
Contract ==
    INSTANCE BrokerContract WITH
        Handle <- 1 .. MaxObjects,
        status <- [h \in 1 .. MaxObjects |-> IF h \in DOMAIN objects THEN objects[h].status
                                                                    ELSE "none"]

ImplementsContract == Contract!Spec

\* SYSTEM_DESIGN.md: the kill switch is enforced on EVERY order.  Nothing
\* executes while the broker is halted.
KillSwitchStopsFills ==
    [][\A h \in DOMAIN objects' :
          halted /\ objects'[h].status = "filled"
          => h \in DOMAIN objects /\ objects[h].status = "filled"]_vars
=============================================================================
