------------------------- MODULE PaperBroker_proofs -------------------------
(***************************************************************************)
(* Proofs about PaperBroker, for every set of symbols, prices, quantities  *)
(* and orders, every starting cash and every impact and cost function that *)
(* satisfies the module's assumptions.                                     *)
(*                                                                         *)
(* TypeOK alone is not inductive: a sweep visits what `orders' holds for   *)
(* the keys, so a key without a stored object would put 0 into the sweep.  *)
(* BookInv adds that the keys are those of the dictionary.                 *)
(***************************************************************************)
EXTENDS PaperBroker, DataLemmas, SequenceTheorems, TLAPS

\* `keys' and `orders' are two views of the one dictionary _orders.
KeysAreStored ==
    \A id \in OrderId : orders[id] # Absent <=> \E k \in DOMAIN keys : keys[k] = id

BookInv == TypeOK /\ KeysAreStored

-----------------------------------------------------------------------------
(***************************************************************************)
(* Lemmas about the helpers.                                               *)
(***************************************************************************)

\* A copied order is an order object, pending.
LEMMA NewObjectType ==
    ASSUME NEW order \in Orders
    PROVE  NewObject(order) \in Object /\ NewObject(order).status = "pending"
BY OrdersAssumption DEF NewObject, Object, OrderRec, Status

\* The handles there are after h was stored: h is new or one of the old ones.
Extends(h) ==
    /\ issued' \in Nat
    /\ h \in 1 .. issued'
    /\ 1 .. issued' = (1 .. issued) \cup {h}

\* Storing an object keeps the heap, the dictionary and its keys well-formed.
LEMMA StoreKeepsBook ==
    ASSUME BookInv, NEW h, NEW o \in Object, Extends(h), Store(h, o)
    PROVE  /\ objects' \in [1 .. issued' -> Object]
           /\ orders' \in [OrderId -> 0 .. issued']
           /\ keys' \in Seq(OrderId)
           /\ KeysAreStored'
<1>1. objects' \in [1 .. issued' -> Object]
  BY DEF BookInv, TypeOK, Extends, Store, Put
<1>2. issued \in Nat /\ issued' \in Nat /\ issued <= issued'
  <2>1. issued \in Nat /\ issued' \in Nat
    BY SizesAssumption DEF BookInv, TypeOK, Extends
  <2>2. issued \in 1 .. issued => issued \in 1 .. issued'
    BY DEF Extends
  <2> QED
    BY <2>1, <2>2
<1>3. orders' \in [OrderId -> 0 .. issued']
  <2>1. orders \in [OrderId -> 0 .. issued] /\ h \in 0 .. issued'
    BY <1>2 DEF BookInv, TypeOK, Extends
  <2>2. orders \in [OrderId -> 0 .. issued']
    BY <1>2, <2>1
  <2>3. orders' = [orders EXCEPT ![o.id] = h]
    BY DEF Store
  <2> QED
    BY <2>1, <2>2, <2>3
<1>4. o.id \in OrderId /\ h # Absent
  BY DEF Object, Extends, Absent
<1>5. CASE orders[o.id] = Absent
  <2>1. keys' = Append(keys, o.id)
    BY <1>5 DEF Store
  <2>2. /\ keys' \in Seq(OrderId)
        /\ Len(keys') = Len(keys) + 1
        /\ \A k \in 1 .. Len(keys) : keys'[k] = keys[k]
        /\ keys'[Len(keys) + 1] = o.id
    BY <2>1, <1>4, AppendProperties DEF BookInv, TypeOK
  <2>3. DOMAIN keys = 1 .. Len(keys) /\ DOMAIN keys' = 1 .. Len(keys) + 1 /\ Len(keys) \in Nat
    BY <2>2, LenProperties DEF BookInv, TypeOK
  <2>4. ASSUME NEW id \in OrderId
        PROVE  (\E k \in DOMAIN keys' : keys'[k] = id)
               <=> id = o.id \/ \E k \in DOMAIN keys : keys[k] = id
    BY <2>2, <2>3
  <2>5. \A id \in OrderId : orders'[id] = IF id = o.id THEN h ELSE orders[id]
    BY DEF BookInv, TypeOK, Store
  <2> QED
    BY <1>1, <1>3, <1>4, <2>2, <2>4, <2>5 DEF BookInv, KeysAreStored
<1>6. CASE orders[o.id] # Absent
  <2>1. keys' = keys
    BY <1>6 DEF Store
  <2>2. \A id \in OrderId : orders'[id] = IF id = o.id THEN h ELSE orders[id]
    BY DEF BookInv, TypeOK, Store
  <2> QED
    BY <1>1, <1>3, <1>4, <1>6, <2>1, <2>2 DEF BookInv, TypeOK, KeysAreStored
<1> QED
  BY <1>5, <1>6

\* What an execution moves: a fill price that is not negative, and proceeds of
\* a sale that cover its costs.
LEMMA FillAmounts ==
    ASSUME NEW o \in Object, NEW mark \in Price
    PROVE  /\ FillPrice(o, mark) \in Nat
           /\ Notional(o, mark) \in Int /\ Charges(o, mark) \in Int
           /\ CashFlow(o, mark) \in Int
           /\ SignedQty(o) \in Int
           /\ o.side = "sell" => CashFlow(o, mark) >= 0
<1>1. /\ mark \in Nat /\ o.quantity \in Nat /\ o.quantity \in Qty
      /\ o.side \in {"buy", "sell"}
  BY SizesAssumption DEF Object
<1>2. Impact(mark) \in 0 .. mark
  BY ImpactAssumption
<1>3. FillPrice(o, mark) \in Nat
  BY <1>1, <1>2 DEF FillPrice
<1>4. Notional(o, mark) \in Int
  BY <1>1, <1>3 DEF Notional
<1>5. Charges(o, mark) \in 0 .. Notional(o, mark)
  BY <1>1, CostAssumption DEF Charges, Notional, FillPrice
<1> QED
  BY <1>1, <1>3, <1>4, <1>5 DEF CashFlow, SignedQty

\* _fill decides the object: it ends filled or rejected.
LEMMA FillDecides ==
    ASSUME BookInv, NEW h, NEW o \in Object, NEW mark \in Price, Extends(h),
           Fill(h, o, mark)
    PROVE  \E d \in Object :
              /\ d.id = o.id /\ d.order_type = o.order_type
              /\ d.status \in {"filled", "rejected"}
              /\ Store(h, d)
              /\ d.status = "rejected" => cash' = cash
<1>1. FillPrice(o, mark) \in Nat
  BY FillAmounts
<1>2. CASE Affordable(o, mark)
  <2>1. Store(h, [o EXCEPT !.status = "filled", !.fill_price = FillPrice(o, mark)])
    BY <1>2 DEF Fill
  <2>2. /\ [o EXCEPT !.status = "filled", !.fill_price = FillPrice(o, mark)] \in Object
        /\ [o EXCEPT !.status = "filled", !.fill_price = FillPrice(o, mark)].id = o.id
        /\ [o EXCEPT !.status = "filled", !.fill_price = FillPrice(o, mark)].order_type
             = o.order_type
        /\ [o EXCEPT !.status = "filled", !.fill_price = FillPrice(o, mark)].status = "filled"
    BY <1>1 DEF Object, Status
  <2> QED
    BY <2>1, <2>2
<1>3. CASE ~Affordable(o, mark)
  <2>1. Store(h, [o EXCEPT !.status = "rejected"]) /\ cash' = cash
    BY <1>3 DEF Fill, Reject
  <2>2. /\ [o EXCEPT !.status = "rejected"] \in Object
        /\ [o EXCEPT !.status = "rejected"].id = o.id
        /\ [o EXCEPT !.status = "rejected"].order_type = o.order_type
        /\ [o EXCEPT !.status = "rejected"].status = "rejected"
    BY DEF Object, Status
  <2> QED
    BY <2>1, <2>2
<1> QED
  BY <1>2, <1>3

\* Cash and positions stay numbers, and buying power is never exceeded.
LEMMA FillMoney ==
    ASSUME TypeOK, NEW h, NEW o \in Object, NEW mark \in Price, Fill(h, o, mark)
    PROVE  /\ cash' \in Int
           /\ positions' \in [Symbol -> Int]
           /\ cash >= 0 => cash' >= 0
<1>1. /\ Notional(o, mark) \in Int /\ Charges(o, mark) \in Int
      /\ CashFlow(o, mark) \in Int /\ SignedQty(o) \in Int
      /\ o.side = "sell" => CashFlow(o, mark) >= 0
  BY FillAmounts
<1>2. o.side \in {"buy", "sell"} /\ o.symbol \in Symbol
  BY DEF Object
<1>3. CASE Affordable(o, mark)
  <2>1. /\ cash' = cash + CashFlow(o, mark)
        /\ positions' = [positions EXCEPT ![o.symbol] = @ + SignedQty(o)]
    BY <1>3 DEF Fill
  <2>2. o.side = "buy" => cash + CashFlow(o, mark) >= 0
    BY <1>1, <1>3 DEF Affordable, CashFlow, TypeOK
  <2> QED
    BY <1>1, <1>2, <2>1, <2>2 DEF TypeOK
<1>4. CASE ~Affordable(o, mark)
  BY <1>4 DEF Fill, Reject, TypeOK
<1> QED
  BY <1>3, <1>4

-----------------------------------------------------------------------------
(***************************************************************************)
(* Type correctness.                                                       *)
(***************************************************************************)

LEMMA InitBookInv == Init => BookInv
<1> SUFFICES ASSUME Init PROVE BookInv
  OBVIOUS
<1>1. orders = [id \in OrderId |-> Absent] /\ keys = << >> /\ sweep = << >>
  BY DEF Init, Fresh
<1>2. KeysAreStored
  BY <1>1 DEF KeysAreStored
<1>3. objects \in [1 .. issued -> Object]
  <2>1. objects = << >> /\ issued = 0
    BY DEF Init
  <2>2. objects \in Seq(Object) /\ Len(objects) = 0
    BY <2>1, EmptySeq
  <2> QED
    BY <2>1, <2>2, LenProperties
<1>4. keys \in Seq(OrderId) /\ sweep \in Seq(1 .. issued)
  BY <1>1, EmptySeq
<1>5. orders \in [OrderId -> 0 .. issued]
  BY <1>1, SizesAssumption DEF Init, Absent
<1>6. /\ cash \in Int
      /\ issued \in 0 .. MaxObjects
      /\ boot \in 0 .. issued
  BY SizesAssumption DEF Init, Fresh
<1>7. /\ positions \in [Symbol -> Int]
      /\ marks \in [Symbol -> Price \cup {NoMark}]
  BY DEF Init, Fresh
<1>8. halted \in BOOLEAN
  BY DEF Init, Fresh
<1> QED
  BY <1>2, <1>3, <1>4, <1>5, <1>6, <1>7, <1>8 DEF BookInv, TypeOK

\* place_order makes one new object, whatever it decides.
LEMMA PlaceOrderInv ==
    ASSUME BookInv, NEW order \in Orders, PlaceOrder(order)
    PROVE  BookInv' /\ (cash >= 0 => cash' >= 0)
<1> DEFINE h == issued + 1
           o == NewObject(order)
<1>1. /\ issued \in Nat /\ issued < MaxObjects /\ issued' = h /\ MaxObjects \in Nat
      /\ cash \in Int /\ boot \in 0 .. issued
      /\ UNCHANGED <<marks, halted, sweep, boot>>
  BY SizesAssumption DEF BookInv, TypeOK, PlaceOrder
<1>2. Extends(h)
  BY <1>1 DEF Extends
<1>3. o \in Object
  BY NewObjectType
<1>4. (\E d \in Object : Store(h, d)) /\ cash' \in Int /\ positions' \in [Symbol -> Int]
      /\ (cash >= 0 => cash' >= 0)
  <2>1. CASE Refused(o) /\ Reject(h, o)
    <3>1. [o EXCEPT !.status = "rejected"] \in Object
      BY <1>3 DEF Object, Status
    <3> QED
      BY <2>1, <3>1 DEF Reject, BookInv, TypeOK
  <2>2. CASE Store(h, o) /\ UNCHANGED <<cash, positions>>
    BY <1>3, <2>2 DEF BookInv, TypeOK
  <2>3. CASE ~Refused(o) /\ Fill(h, o, marks[o.symbol])
    <3>1. marks[o.symbol] \in Price
      BY <1>3, <2>3 DEF Refused, BookInv, TypeOK, Object
    <3>2. \E d \in Object : Store(h, d)
      BY <1>2, <1>3, <2>3, <3>1, FillDecides
    <3> QED
      BY <1>3, <2>3, <3>1, <3>2, FillMoney DEF BookInv
  <2> QED
    BY <2>1, <2>2, <2>3 DEF PlaceOrder
<1>5. PICK d \in Object : Store(h, d)
  BY <1>4
<1>6. /\ objects' \in [1 .. issued' -> Object]
      /\ orders' \in [OrderId -> 0 .. issued']
      /\ keys' \in Seq(OrderId)
      /\ KeysAreStored'
  BY <1>2, <1>5, StoreKeepsBook
<1>7. sweep' \in Seq(1 .. issued')
  <2>1. 1 .. issued \subseteq 1 .. issued'
    BY <1>1
  <2>2. sweep \in Seq(1 .. issued) /\ sweep' = sweep
    BY <1>1 DEF BookInv, TypeOK
  <2> QED
    BY <2>1, <2>2, SeqMonotonic
<1>8. issued' \in 0 .. MaxObjects /\ boot' \in 0 .. issued'
  BY <1>1
<1> QED
  BY <1>1, <1>4, <1>6, <1>7, <1>8 DEF BookInv, TypeOK

\* A new sweep visits stored objects only.
LEMMA StartSweepType ==
    ASSUME BookInv, StartSweep
    PROVE  sweep' \in Seq(1 .. issued)
<1>1. keys \in Seq(OrderId) /\ DOMAIN keys = 1 .. Len(keys) /\ Len(keys) \in Nat
  BY LenProperties DEF BookInv, TypeOK
<1>2. ASSUME NEW k \in 1 .. Len(keys)
      PROVE  orders[keys[k]] \in 1 .. issued
  <2>1. keys[k] \in OrderId
    BY <1>1, ElementOfSeq
  <2>2. orders[keys[k]] # Absent
    BY <1>1, <2>1 DEF BookInv, KeysAreStored
  <2>3. orders[keys[k]] \in 0 .. issued /\ issued \in Nat
    BY <2>1, SizesAssumption DEF BookInv, TypeOK
  <2> QED
    BY <2>2, <2>3 DEF Absent
<1>3. sweep' = [k \in 1 .. Len(keys) |-> orders[keys[k]]]
  BY <1>1 DEF StartSweep
<1> QED
  BY <1>1, <1>2, <1>3, IsASeq

LEMMA ProcessPendingInv ==
    ASSUME BookInv, ProcessPending
    PROVE  BookInv' /\ (cash >= 0 => cash' >= 0)
<1> DEFINE h == Head(sweep)
           o == objects[h]
<1>1. /\ issued \in Nat /\ issued \in 0 .. MaxObjects /\ boot \in 0 .. issued
      /\ cash \in Int /\ positions \in [Symbol -> Int]
      /\ UNCHANGED <<marks, halted, issued, boot>>
  BY SizesAssumption DEF BookInv, TypeOK, ProcessPending
<1>2. h \in 1 .. issued /\ sweep' \in Seq(1 .. issued)
  BY HeadTailProperties DEF BookInv, TypeOK, ProcessPending
<1>3. o \in Object /\ Extends(h)
  BY <1>1, <1>2 DEF BookInv, TypeOK, Extends
<1>4. CASE Crossed(o) /\ Fill(h, o, marks[o.symbol])
  <2>1. marks[o.symbol] \in Price
    BY <1>3, <1>4 DEF Crossed, BookInv, TypeOK, Object
  <2>2. PICK d \in Object : Store(h, d)
    BY <1>3, <1>4, <2>1, FillDecides
  <2>3. /\ objects' \in [1 .. issued' -> Object]
        /\ orders' \in [OrderId -> 0 .. issued']
        /\ keys' \in Seq(OrderId)
        /\ KeysAreStored'
    BY <1>3, <2>2, StoreKeepsBook
  <2>4. /\ cash' \in Int /\ positions' \in [Symbol -> Int]
        /\ (cash >= 0 => cash' >= 0)
    BY <1>3, <1>4, <2>1, FillMoney DEF BookInv
  <2> QED
    BY <1>1, <1>2, <2>3, <2>4 DEF BookInv, TypeOK
<1>5. CASE UNCHANGED <<cash, positions, objects, orders, keys>>
  BY <1>1, <1>2, <1>5 DEF BookInv, TypeOK, KeysAreStored
<1> QED
  BY <1>4, <1>5 DEF ProcessPending

LEMMA ModifyOrderInv ==
    ASSUME BookInv, NEW id \in OrderId, NEW q \in Qty, NEW limit \in Price \cup {NoLimit},
           ModifyOrder(id, q, limit)
    PROVE  BookInv' /\ (cash >= 0 => cash' >= 0)
<1> DEFINE h == orders[id]
           o == [objects[h] EXCEPT !.quantity = q, !.limit_price = limit]
<1>1. /\ issued \in Nat /\ issued \in 0 .. MaxObjects /\ boot \in 0 .. issued
      /\ cash \in Int /\ positions \in [Symbol -> Int]
      /\ UNCHANGED <<marks, halted, issued, sweep, boot>>
  BY SizesAssumption DEF BookInv, TypeOK, ModifyOrder
<1>2. h \in 1 .. issued
  BY <1>1 DEF BookInv, TypeOK, ModifyOrder, Absent
<1>3. o \in Object /\ Extends(h)
  BY <1>1, <1>2 DEF BookInv, TypeOK, Extends, Object
<1>4. \E d \in Object : Store(h, d)
  <2>1. CASE Crossed(o) /\ Fill(h, o, marks[o.symbol])
    BY <1>3, <2>1, FillDecides DEF Crossed, BookInv, TypeOK, Object
  <2>2. CASE Store(h, o)
    BY <1>3, <2>2
  <2> QED
    BY <2>1, <2>2 DEF ModifyOrder
<1>5. cash' \in Int /\ positions' \in [Symbol -> Int] /\ (cash >= 0 => cash' >= 0)
  <2>1. CASE Crossed(o) /\ Fill(h, o, marks[o.symbol])
    <3>1. marks[o.symbol] \in Price
      BY <1>3, <2>1 DEF Crossed, BookInv, TypeOK, Object
    <3> QED
      BY <1>3, <2>1, <3>1, FillMoney DEF BookInv
  <2>2. CASE UNCHANGED <<cash, positions>>
    BY <1>1, <2>2
  <2> QED
    BY <2>1, <2>2 DEF ModifyOrder
<1>6. /\ objects' \in [1 .. issued' -> Object]
      /\ orders' \in [OrderId -> 0 .. issued']
      /\ keys' \in Seq(OrderId)
      /\ KeysAreStored'
  BY <1>3, <1>4, StoreKeepsBook
<1> QED
  BY <1>1, <1>5, <1>6 DEF BookInv, TypeOK

\* Every step of the broker keeps the book well-formed and the cash covered.
LEMMA StepInv == BookInv /\ [Next]_vars => BookInv' /\ (cash >= 0 => cash' >= 0)
<1> SUFFICES ASSUME BookInv, [Next]_vars
             PROVE  BookInv' /\ (cash >= 0 => cash' >= 0)
  OBVIOUS
<1> issued \in Nat /\ cash \in Int
  BY SizesAssumption DEF BookInv, TypeOK
<1>1. CASE \E order \in Orders : PlaceOrder(order)
  BY <1>1, PlaceOrderInv
<1>2. CASE \E s \in Symbol, p \in Price : SetMark(s, p)
  <2>1. sweep' \in Seq(1 .. issued)
    BY <1>2, StartSweepType DEF SetMark
  <2> QED
    BY <1>2, <2>1 DEF BookInv, TypeOK, KeysAreStored, SetMark
<1>3. CASE \E prices \in [Symbol -> Price] : UpdateMarks(prices)
  <2>1. sweep' \in Seq(1 .. issued)
    BY <1>3, StartSweepType DEF UpdateMarks
  <2>2. marks' \in [Symbol -> Price \cup {NoMark}]
    BY <1>3 DEF BookInv, TypeOK, UpdateMarks
  <2>3. UNCHANGED <<cash, positions, halted, objects, issued, orders, keys, boot>>
    BY <1>3 DEF UpdateMarks
  <2> QED
    BY <2>1, <2>2, <2>3 DEF BookInv, TypeOK, KeysAreStored
<1>4. CASE ProcessPending
  BY <1>4, ProcessPendingInv
<1>5. CASE \E id \in OrderId, q \in Qty, limit \in Price \cup {NoLimit} :
              ModifyOrder(id, q, limit)
  BY <1>5, ModifyOrderInv
<1>6. CASE \E id \in OrderId : CancelOrder(id)
  <2>1. PICK id \in OrderId : CancelOrder(id)
    BY <1>6
  <2>2. orders[id] \in 1 .. issued
    BY <2>1 DEF BookInv, TypeOK, CancelOrder, Absent
  <2>3. [objects[orders[id]] EXCEPT !.status = "cancelled"] \in Object
    <3>1. objects[orders[id]] \in Object
      BY <2>2 DEF BookInv, TypeOK
    <3> QED
      BY <3>1 DEF Object, Status
  <2>4. objects' \in [1 .. issued -> Object]
    BY <2>1, <2>2, <2>3 DEF BookInv, TypeOK, CancelOrder, Put
  <2> QED
    BY <2>1, <2>4 DEF BookInv, TypeOK, KeysAreStored, CancelOrder
<1>7. CASE Halt \/ Resume
  BY <1>7 DEF BookInv, TypeOK, KeysAreStored, Halt, Resume
<1>8. CASE Restart
  <2>1. sweep' \in Seq(1 .. issued') /\ keys' \in Seq(OrderId) /\ keys' = << >>
    BY <1>8, EmptySeq DEF Restart
  <2>2. orders' = [id \in OrderId |-> Absent]
    BY <1>8 DEF Restart
  <2>3. KeysAreStored'
    BY <2>1, <2>2 DEF KeysAreStored
  <2>4. orders' \in [OrderId -> 0 .. issued']
    BY <1>8, <2>2 DEF Restart, Absent
  <2>5. /\ cash' \in Int /\ cash' >= 0
        /\ issued' \in 0 .. MaxObjects
        /\ boot' \in 0 .. issued'
        /\ objects' \in [1 .. issued' -> Object]
    BY <1>8, SizesAssumption DEF Restart, BookInv, TypeOK
  <2>6. /\ positions' \in [Symbol -> Int]
        /\ marks' \in [Symbol -> Price \cup {NoMark}]
    BY <1>8 DEF Restart
  <2>7. halted' \in BOOLEAN
    BY <1>8 DEF Restart
  <2> QED
    BY <2>1, <2>3, <2>4, <2>5, <2>6, <2>7 DEF BookInv, TypeOK
<1>9. CASE UNCHANGED vars
  BY <1>9 DEF BookInv, TypeOK, KeysAreStored, vars
<1> QED
  BY <1>1, <1>2, <1>3, <1>4, <1>5, <1>6, <1>7, <1>8, <1>9 DEF Next

\* The types of TypeOK hold in every behaviour of the broker, for any constants
\* that satisfy the assumptions.
THEOREM TypeCorrect == Spec => []TypeOK
<1>1. Init => BookInv
  BY InitBookInv
<1>2. BookInv /\ [Next]_vars => BookInv'
  BY StepInv
<1>3. BookInv => TypeOK
  BY DEF BookInv
<1> QED
  BY <1>1, <1>2, <1>3, PTL DEF Spec

\* The account is never overdrawn: however placements, modifications, sweeps of
\* the pending orders and restarts interleave, the buying-power check of _fill
\* and the cost model's bound keep cash at zero or above.
THEOREM NeverOverdrawn == Spec => []CashNonNegative
<1> DEFINE CashInv == BookInv /\ CashNonNegative
<1>1. Init => CashInv
  BY InitBookInv, SizesAssumption DEF Init, Fresh, CashNonNegative
<1>2. CashInv /\ [Next]_vars => CashInv'
  BY StepInv DEF CashNonNegative
<1>3. CashInv => CashNonNegative
  OBVIOUS
<1> QED
  BY <1>1, <1>2, <1>3, PTL DEF Spec

-----------------------------------------------------------------------------
(***************************************************************************)
(* No order rests at a limit the market has reached.                       *)
(***************************************************************************)

InSweep == {sweep[k] : k \in DOMAIN sweep}

\* Storing an object that does not rest at a reached limit disturbs no other
\* order, also when the sweep has just passed it.
LEMMA StoreKeepsResting ==
    ASSUME BookInv, RestingOrdersUncrossed, NEW h, NEW o \in Object, Extends(h), Store(h, o),
           marks' = marks, InSweep \subseteq InSweep' \cup {h},
           o.status # "pending" \/ ~Crossed(o)
    PROVE  RestingOrdersUncrossed'
<1> SUFFICES ASSUME NEW id \in OrderId, orders'[id] # Absent,
                    objects'[orders'[id]].status = "pending", orders'[id] \notin InSweep'
             PROVE  ~Crossed(objects[orders[id]])'
  BY DEF RestingOrdersUncrossed, InSweep
<1>1. o.id \in OrderId /\ issued \in Nat
  BY SizesAssumption DEF Object, BookInv, TypeOK
<1>2. orders'[id] = IF id = o.id THEN h ELSE orders[id]
  BY DEF Store, BookInv, TypeOK
<1>3. \A g \in (1 .. issued) \cup {h} : objects'[g] = IF g = h THEN o ELSE objects[g]
  BY DEF Store, Put, BookInv, TypeOK
<1>4. CASE orders'[id] = h
  <2>1. objects'[orders'[id]] = o
    BY <1>3, <1>4
  <2>2. ~Crossed(o)
    BY <2>1
  <2> QED
    BY <2>1, <2>2 DEF Crossed, Marketable
<1>5. CASE orders'[id] # h
  <2>1. orders'[id] = orders[id]
    BY <1>2, <1>5
  <2>2. orders[id] \in 1 .. issued
    BY <1>1, <2>1 DEF BookInv, TypeOK, Absent
  <2>3. objects'[orders'[id]] = objects[orders[id]]
    BY <1>3, <1>5, <2>1, <2>2
  <2>4. orders[id] \notin InSweep
    BY <1>5, <2>1
  <2>5. ~Crossed(objects[orders[id]])
    BY <2>1, <2>3, <2>4 DEF RestingOrdersUncrossed, InSweep
  <2> QED
    BY <2>3, <2>5 DEF Crossed, Marketable
<1> QED
  BY <1>4, <1>5

\* A new sweep holds every stored object.
LEMMA SweepHoldsAll ==
    ASSUME BookInv, StartSweep, UNCHANGED <<objects, orders>>
    PROVE  RestingOrdersUncrossed'
<1> SUFFICES ASSUME NEW id \in OrderId, orders[id] # Absent
             PROVE  orders[id] \in InSweep'
  BY DEF RestingOrdersUncrossed, InSweep
<1>1. PICK k \in DOMAIN keys : keys[k] = id
  BY DEF BookInv, KeysAreStored
<1>2. k \in DOMAIN sweep' /\ sweep'[k] = orders[id]
  BY <1>1 DEF StartSweep
<1> QED
  BY <1>2 DEF InSweep

LEMMA RestingStep ==
    BookInv /\ RestingOrdersUncrossed /\ [Next]_vars => RestingOrdersUncrossed'
<1> SUFFICES ASSUME BookInv, RestingOrdersUncrossed, [Next]_vars
             PROVE  RestingOrdersUncrossed'
  OBVIOUS
<1> issued \in Nat
  BY SizesAssumption DEF BookInv, TypeOK
<1>1. ASSUME NEW order \in Orders, PlaceOrder(order)
      PROVE  RestingOrdersUncrossed'
  <2> DEFINE h == issued + 1
             o == NewObject(order)
  <2>1. Extends(h) /\ marks' = marks /\ InSweep' = InSweep
    BY <1>1 DEF PlaceOrder, Extends, InSweep
  <2>2. o \in Object
    BY NewObjectType
  <2>3. CASE Refused(o) /\ Reject(h, o)
    <3>1. /\ [o EXCEPT !.status = "rejected"] \in Object
          /\ [o EXCEPT !.status = "rejected"].status # "pending"
      BY <2>2 DEF Object, Status
    <3> QED
      BY <2>1, <2>3, <3>1, StoreKeepsResting DEF Reject
  <2>4. CASE ~Refused(o) /\ Rests(o) /\ Store(h, o)
    <3>1. ~Crossed(o)
      BY <2>4 DEF Rests, Crossed
    <3> QED
      BY <2>1, <2>2, <2>4, <3>1, StoreKeepsResting
  <2>5. CASE ~Refused(o) /\ Fill(h, o, marks[o.symbol])
    <3>1. marks[o.symbol] \in Price
      BY <2>2, <2>5 DEF Refused, BookInv, TypeOK, Object
    <3>2. PICK d \in Object : Store(h, d) /\ d.status \in {"filled", "rejected"}
      BY <2>1, <2>2, <2>5, <3>1, FillDecides
    <3> QED
      BY <2>1, <3>2, StoreKeepsResting
  <2> QED
    BY <1>1, <2>3, <2>4, <2>5 DEF PlaceOrder
<1>2. ASSUME NEW s \in Symbol, NEW p \in Price, SetMark(s, p)
      PROVE  RestingOrdersUncrossed'
  BY <1>2, SweepHoldsAll DEF SetMark
<1>3. ASSUME NEW prices \in [Symbol -> Price], UpdateMarks(prices)
      PROVE  RestingOrdersUncrossed'
  BY <1>3, SweepHoldsAll DEF UpdateMarks
<1>4. ASSUME ProcessPending
      PROVE  RestingOrdersUncrossed'
  <2> DEFINE h == Head(sweep)
             o == objects[h]
  <2>1. sweep \in Seq(1 .. issued) /\ sweep # << >> /\ sweep' = Tail(sweep) /\ marks' = marks
    BY <1>4 DEF BookInv, TypeOK, ProcessPending
  <2>2. h \in 1 .. issued
    BY <2>1, HeadTailProperties
  <2>3. o \in Object /\ Extends(h)
    BY <1>4, <2>2 DEF BookInv, TypeOK, Extends, ProcessPending
  <2>4. InSweep \subseteq InSweep' \cup {h}
    <3> SUFFICES ASSUME NEW k \in DOMAIN sweep, k # 1
                 PROVE  sweep[k] \in InSweep'
      BY <2>1 DEF InSweep
    <3>1. /\ Len(sweep) \in Nat /\ k \in 1 .. Len(sweep)
          /\ DOMAIN sweep' = 1 .. Len(sweep')
          /\ Len(sweep') = Len(sweep) - 1
          /\ \A i \in 1 .. Len(sweep') : sweep'[i] = sweep[i + 1]
      BY <2>1, HeadTailProperties, LenProperties
    <3>2. k - 1 \in 1 .. Len(sweep') /\ sweep'[k - 1] = sweep[k]
      BY <3>1
    <3> QED
      BY <3>1, <3>2 DEF InSweep
  <2>5. CASE Crossed(o) /\ Fill(h, o, marks[o.symbol])
    <3>1. marks[o.symbol] \in Price
      BY <2>3, <2>5 DEF Crossed, BookInv, TypeOK, Object
    <3>2. PICK d \in Object : Store(h, d) /\ d.status \in {"filled", "rejected"}
      BY <2>3, <2>5, <3>1, FillDecides
    <3> QED
      BY <2>1, <2>3, <2>4, <3>2, StoreKeepsResting
  <2>6. CASE /\ ~(o.status = "pending" /\ Crossed(o))
             /\ UNCHANGED <<objects, orders>>
    BY <2>1, <2>4, <2>6 DEF RestingOrdersUncrossed, InSweep, Crossed, Marketable
  <2> QED
    BY <1>4, <2>5, <2>6 DEF ProcessPending
<1>5. ASSUME NEW id \in OrderId, NEW q \in Qty, NEW limit \in Price \cup {NoLimit},
             ModifyOrder(id, q, limit)
      PROVE  RestingOrdersUncrossed'
  <2> DEFINE h == orders[id]
             o == [objects[h] EXCEPT !.quantity = q, !.limit_price = limit]
  <2>1. h \in 1 .. issued /\ marks' = marks /\ InSweep' = InSweep
    BY <1>5 DEF BookInv, TypeOK, ModifyOrder, Absent, InSweep
  <2>2. o \in Object /\ Extends(h)
    <3>1. objects[h] \in Object
      BY <2>1 DEF BookInv, TypeOK
    <3>2. o \in Object
      BY <3>1 DEF Object
    <3> QED
      BY <1>5, <2>1, <3>2 DEF Extends, ModifyOrder
  <2>3. CASE Crossed(o) /\ Fill(h, o, marks[o.symbol])
    <3>1. marks[o.symbol] \in Price
      BY <2>2, <2>3 DEF Crossed, BookInv, TypeOK, Object
    <3>2. PICK d \in Object : Store(h, d) /\ d.status \in {"filled", "rejected"}
      BY <2>2, <2>3, <3>1, FillDecides
    <3> QED
      BY <2>1, <2>2, <3>2, StoreKeepsResting
  <2>4. CASE ~Crossed(o) /\ Store(h, o)
    BY <2>1, <2>2, <2>4, StoreKeepsResting
  <2> QED
    BY <1>5, <2>3, <2>4 DEF ModifyOrder
<1>6. ASSUME NEW id \in OrderId, CancelOrder(id)
      PROVE  RestingOrdersUncrossed'
  <2>1. orders[id] \in 1 .. issued
    BY <1>6 DEF BookInv, TypeOK, CancelOrder, Absent
  <2>2. \A g \in 1 .. issued :
           objects'[g].status = "pending" => objects'[g] = objects[g]
    BY <1>6, <2>1 DEF BookInv, TypeOK, CancelOrder, Put, Object
  <2>3. UNCHANGED <<orders, sweep, marks>> /\ \A i \in OrderId : orders[i] \in 0 .. issued
    BY <1>6 DEF CancelOrder, BookInv, TypeOK
  <2> QED
    BY <2>2, <2>3 DEF RestingOrdersUncrossed, Crossed, Marketable, Absent
<1>7. ASSUME Halt \/ Resume \/ UNCHANGED vars
      PROVE  RestingOrdersUncrossed'
  BY <1>7 DEF Halt, Resume, vars, RestingOrdersUncrossed, Crossed, Marketable
<1>8. ASSUME Restart
      PROVE  RestingOrdersUncrossed'
  BY <1>8 DEF Restart, RestingOrdersUncrossed
<1> QED
  BY <1>1, <1>2, <1>3, <1>4, <1>5, <1>6, <1>7, <1>8 DEF Next

\* Once a sweep has passed it, a resting order's limit is not reached, whatever
\* was placed, modified or superseded while the sweep ran.
THEOREM RestingUncrossed == Spec => []RestingOrdersUncrossed
<1> DEFINE RestInv == BookInv /\ RestingOrdersUncrossed
<1>1. Init => RestInv
  BY InitBookInv DEF Init, Fresh, RestingOrdersUncrossed
<1>2. RestInv /\ [Next]_vars => RestInv'
  BY StepInv, RestingStep
<1>3. RestInv => RestingOrdersUncrossed
  OBVIOUS
<1> QED
  BY <1>1, <1>2, <1>3, PTL DEF Spec

-----------------------------------------------------------------------------
(***************************************************************************)
(* The broker implements its contract.                                     *)
(***************************************************************************)

\* The refinement mapping of `status'.
StatusOf == [h \in 1 .. MaxObjects |-> IF h \in DOMAIN objects THEN objects[h].status ELSE "none"]

\* What an object's storage is to the contract: its status, and no other's.
LEMMA StoreIsStatusChange ==
    ASSUME BookInv, NEW h \in 1 .. MaxObjects, NEW o \in Object, Extends(h), Put(h, o)
    PROVE  StatusOf' = [StatusOf EXCEPT ![h] = o.status]
<1>1. DOMAIN objects = 1 .. issued /\ DOMAIN objects' = 1 .. issued'
  BY DEF BookInv, TypeOK, Extends, Put
<1>2. \A g \in 1 .. issued' : objects'[g] = IF g = h THEN o ELSE objects[g]
  BY <1>1 DEF Extends, Put
<1>3. ASSUME NEW g \in 1 .. MaxObjects
      PROVE  StatusOf'[g] = IF g = h THEN o.status ELSE StatusOf[g]
  BY <1>1, <1>2 DEF Extends, StatusOf
<1> QED
  BY <1>3 DEF StatusOf

\* The order actions of the contract are steps of it.  A handle of the broker is
\* a state expression: a proof that uses this picks its value.
LEMMA ContractOrderStep ==
    ASSUME NEW h \in 1 .. MaxObjects,
           \/ Contract!Accept(h) \/ Contract!Refuse(h)
           \/ Contract!Execute(h) \/ Contract!Withdraw(h)
    PROVE  Contract!Next
BY DEF Contract!Next

\* A fill is an execution or a refusal of the contract.
LEMMA FillIsContractStep ==
    ASSUME BookInv, NEW h \in 1 .. MaxObjects, NEW o \in Object, NEW mark \in Price,
           Extends(h), Fill(h, o, mark), halted' = halted,
           cash' \in Nat,
           StatusOf[h] = "pending" \/ (StatusOf[h] = "none" /\ ~halted)
    PROVE  Contract!Next
<1>1. PICK d \in Object : /\ d.status \in {"filled", "rejected"}
                          /\ Store(h, d)
                          /\ d.status = "rejected" => cash' = cash
  BY FillDecides
<1>2. StatusOf' = [StatusOf EXCEPT ![h] = d.status]
  BY <1>1, StoreIsStatusChange DEF Store
<1>3. CASE d.status = "filled"
  <2>1. Contract!Execute(h)
    BY <1>2, <1>3 DEF Contract!Execute, StatusOf
  <2> QED
    BY <2>1, ContractOrderStep
<1>4. CASE d.status = "rejected"
  <2>1. Contract!Refuse(h)
    BY <1>1, <1>2, <1>4 DEF Contract!Refuse, StatusOf
  <2> QED
    BY <2>1, ContractOrderStep
<1> QED
  BY <1>1, <1>3, <1>4

LEMMA ContractInit == Init => Contract!Init
<1> SUFFICES ASSUME Init PROVE Contract!Init
  OBVIOUS
<1>1. DOMAIN objects = {}
  BY InitBookInv DEF Init, BookInv, TypeOK
<1> QED
  BY <1>1 DEF Contract!Init, Init, Fresh

LEMMA ContractStep ==
    BookInv /\ cash' \in Nat /\ [Next]_vars => [Contract!Next]_(Contract!vars)
<1> SUFFICES ASSUME BookInv, cash' \in Nat, [Next]_vars
             PROVE  Contract!Next \/ UNCHANGED <<StatusOf, halted, cash>>
  BY DEF Contract!vars, StatusOf
<1>0. issued \in Nat /\ issued <= MaxObjects /\ MaxObjects \in Nat /\ DOMAIN objects = 1 .. issued
  BY SizesAssumption DEF BookInv, TypeOK
<1>1. ASSUME NEW order \in Orders, PlaceOrder(order)
      PROVE  Contract!Next
  <2> DEFINE h == issued + 1
             o == NewObject(order)
  <2>1. Extends(h) /\ h \in 1 .. MaxObjects /\ h \notin DOMAIN objects /\ halted' = halted
    BY <1>0, <1>1 DEF PlaceOrder, Extends
  <2>2. o \in Object /\ o.status = "pending"
    BY NewObjectType
  <2>3. StatusOf[h] = "none"
    BY <2>1 DEF StatusOf
  <2>4. CASE Refused(o) /\ Reject(h, o)
    <3>1. /\ [o EXCEPT !.status = "rejected"] \in Object
          /\ [o EXCEPT !.status = "rejected"].status = "rejected"
      BY <2>2 DEF Object, Status
    <3>2. StatusOf' = [StatusOf EXCEPT ![h] = "rejected"] /\ cash' = cash
      BY <2>1, <2>4, <3>1, StoreIsStatusChange DEF Reject, Store
    <3>3. PICK g \in 1 .. MaxObjects : g = h
      BY <2>1
    <3>4. Contract!Refuse(g)
      BY <2>1, <2>3, <3>2, <3>3 DEF Contract!Refuse, StatusOf
    <3> QED
      BY <3>4, ContractOrderStep
  <2>5. CASE ~Refused(o) /\ Store(h, o) /\ UNCHANGED <<cash, positions>>
    <3>1. StatusOf' = [StatusOf EXCEPT ![h] = "pending"]
      BY <2>1, <2>2, <2>5, StoreIsStatusChange DEF Store
    <3>2. PICK g \in 1 .. MaxObjects : g = h
      BY <2>1
    <3>3. Contract!Accept(g)
      BY <2>1, <2>3, <2>5, <3>1, <3>2 DEF Contract!Accept, StatusOf, Refused
    <3> QED
      BY <3>3, ContractOrderStep
  <2>6. CASE ~Refused(o) /\ Fill(h, o, marks[o.symbol])
    <3>1. marks[o.symbol] \in Price
      BY <2>2, <2>6 DEF Refused, BookInv, TypeOK, Object
    <3> QED
      BY <2>1, <2>2, <2>3, <2>6, <3>1, FillIsContractStep DEF Refused
  <2> QED
    BY <1>1, <2>4, <2>5, <2>6 DEF PlaceOrder
<1>2. ASSUME \/ \E s \in Symbol, p \in Price : SetMark(s, p)
             \/ \E prices \in [Symbol -> Price] : UpdateMarks(prices)
             \/ UNCHANGED vars
      PROVE  UNCHANGED <<StatusOf, halted, cash>>
  BY <1>2 DEF SetMark, UpdateMarks, vars, StatusOf
<1>3. ASSUME ProcessPending
      PROVE  Contract!Next \/ UNCHANGED <<StatusOf, halted, cash>>
  <2> DEFINE h == Head(sweep)
             o == objects[h]
  <2>1. h \in 1 .. issued
    BY <1>3, HeadTailProperties DEF BookInv, TypeOK, ProcessPending
  <2>2. o \in Object /\ Extends(h) /\ h \in 1 .. MaxObjects /\ halted' = halted
    BY <1>0, <1>3, <2>1 DEF BookInv, TypeOK, Extends, ProcessPending
  <2>3. CASE o.status = "pending" /\ Crossed(o) /\ Fill(h, o, marks[o.symbol])
    <3>1. marks[o.symbol] \in Price
      BY <2>2, <2>3 DEF Crossed, BookInv, TypeOK, Object
    <3>2. StatusOf[h] = "pending"
      BY <1>0, <2>1, <2>2, <2>3 DEF StatusOf
    <3> QED
      BY <2>2, <2>3, <3>1, <3>2, FillIsContractStep
  <2>4. CASE UNCHANGED <<cash, objects>>
    BY <2>2, <2>4 DEF StatusOf
  <2> QED
    BY <1>3, <2>3, <2>4 DEF ProcessPending
<1>4. ASSUME NEW id \in OrderId, NEW q \in Qty, NEW limit \in Price \cup {NoLimit},
             ModifyOrder(id, q, limit)
      PROVE  Contract!Next \/ UNCHANGED <<StatusOf, halted, cash>>
  <2> DEFINE h == orders[id]
             o == [objects[h] EXCEPT !.quantity = q, !.limit_price = limit]
  <2>1. h \in 1 .. issued /\ h \in 1 .. MaxObjects /\ halted' = halted
    BY <1>0, <1>4 DEF BookInv, TypeOK, ModifyOrder, Absent
  <2>2. objects[h] \in Object /\ objects[h].status = "pending"
    BY <1>4, <2>1 DEF BookInv, TypeOK, ModifyOrder
  <2>3. o \in Object /\ o.status = "pending"
    BY <2>2 DEF Object
  <2>4. Extends(h) /\ StatusOf[h] = "pending"
    BY <1>0, <1>4, <2>1, <2>2 DEF Extends, ModifyOrder, StatusOf
  <2>5. CASE Crossed(o) /\ Fill(h, o, marks[o.symbol])
    <3>1. marks[o.symbol] \in Price
      BY <2>3, <2>5 DEF Crossed, BookInv, TypeOK, Object
    <3> QED
      BY <2>1, <2>3, <2>4, <2>5, <3>1, FillIsContractStep
  <2>6. CASE Store(h, o) /\ UNCHANGED <<cash, positions>>
    <3>1. StatusOf' = [StatusOf EXCEPT ![h] = "pending"]
      BY <2>1, <2>3, <2>4, <2>6, StoreIsStatusChange DEF Store
    <3>2. StatusOf' = StatusOf
      BY <2>4, <3>1 DEF StatusOf
    <3> QED
      BY <2>1, <2>6, <3>2
  <2> QED
    BY <1>4, <2>5, <2>6 DEF ModifyOrder
<1>5. ASSUME NEW id \in OrderId, CancelOrder(id)
      PROVE  Contract!Next
  <2> DEFINE h == orders[id]
             o == [objects[h] EXCEPT !.status = "cancelled"]
  <2>1. h \in 1 .. issued /\ h \in 1 .. MaxObjects
    BY <1>0, <1>5 DEF BookInv, TypeOK, CancelOrder, Absent
  <2>2. objects[h] \in Object /\ objects[h].status = "pending"
    BY <1>5, <2>1 DEF BookInv, TypeOK, CancelOrder
  <2>3. o \in Object /\ o.status = "cancelled"
    BY <2>2 DEF Object, Status
  <2>4. Extends(h) /\ Put(h, o) /\ UNCHANGED <<halted, cash>>
    BY <1>0, <1>5, <2>1 DEF Extends, CancelOrder
  <2>5. StatusOf' = [StatusOf EXCEPT ![h] = "cancelled"] /\ StatusOf[h] = "pending"
    BY <1>0, <2>1, <2>2, <2>3, <2>4, StoreIsStatusChange DEF StatusOf
  <2>6. PICK g \in 1 .. MaxObjects : g = h
    BY <2>1
  <2>7. Contract!Withdraw(g)
    BY <2>4, <2>5, <2>6 DEF Contract!Withdraw, StatusOf
  <2> QED
    BY <2>7, ContractOrderStep
<1>6. ASSUME Halt \/ Resume
      PROVE  Contract!Next
  <2>1. Contract!Switch
    BY <1>6 DEF Halt, Resume, Contract!Switch
  <2> QED
    BY <2>1 DEF Contract!Next
<1>7. ASSUME Restart
      PROVE  Contract!Next
  <2>1. Contract!NewSession
    BY <1>7 DEF Restart, Contract!NewSession
  <2> QED
    BY <2>1 DEF Contract!Next
<1> QED
  BY <1>1, <1>2, <1>3, <1>4, <1>5, <1>6, <1>7 DEF Next

\* The broker implements its contract: an order object is decided once, a halted
\* broker executes nothing that was not resting already, and cash moves only with
\* an execution or a new session and stays covered.
THEOREM ContractImplemented == Spec => ImplementsContract
<1> DEFINE CashInv == BookInv /\ CashNonNegative
<1>1. Init => CashInv
  BY InitBookInv, SizesAssumption DEF Init, Fresh, CashNonNegative
<1>2. CashInv /\ [Next]_vars => CashInv'
  BY StepInv DEF CashNonNegative
<1>3. CashInv /\ CashInv' /\ [Next]_vars => [Contract!Next]_(Contract!vars)
  <2>1. CashInv' => cash' \in Nat
    BY DEF BookInv, TypeOK, CashNonNegative
  <2> QED
    BY <2>1, ContractStep
<1>4. Init => Contract!Init
  BY ContractInit
<1> QED
  BY <1>1, <1>2, <1>3, <1>4, PTL DEF Spec, ImplementsContract, Contract!Spec

-----------------------------------------------------------------------------
(***************************************************************************)
(* Order objects over time.                                                *)
(***************************************************************************)

\* No object disappears, comes to belong to another order or changes its type,
\* and a decided object stays as it was decided.
ObjectsKept ==
    \A h \in DOMAIN objects :
        /\ h \in DOMAIN objects' /\ objects'[h].id = objects[h].id
        /\ objects'[h].order_type = objects[h].order_type
        /\ objects[h].status # "pending" => objects'[h].status = objects[h].status

\* What an action may store: a new object, or a pending one of the same order.
Replaces(h, o) ==
    h \in DOMAIN objects =>
        /\ objects[h].id = o.id /\ objects[h].order_type = o.order_type
        /\ objects[h].status = "pending"

LEMMA StoreKeepsObjects ==
    ASSUME BookInv, NEW h, NEW o \in Object, Put(h, o), Replaces(h, o)
    PROVE  ObjectsKept
BY DEF BookInv, TypeOK, Put, Replaces, ObjectsKept

\* A placement creates an object of its order and type and touches no other; a
\* market order is decided at once.
LEMMA PlaceOrderKeepsObjects ==
    ASSUME BookInv, NEW order \in Orders, PlaceOrder(order)
    PROVE  /\ ObjectsKept
           /\ DOMAIN objects' = DOMAIN objects \cup {issued'}
           /\ objects'[issued'].id = order.id
           /\ objects'[issued'].order_type = order.order_type
           /\ order.order_type = "market" => objects'[issued'].status # "pending"
<1> DEFINE h == issued + 1
           o == NewObject(order)
           Made(d) == /\ d.id = o.id /\ d.order_type = o.order_type
                      /\ d.order_type = "market" => d.status # "pending"
                      /\ Store(h, d)
<1>1. issued \in Nat /\ issued' = h /\ h \notin DOMAIN objects /\ Extends(h)
  BY SizesAssumption DEF BookInv, TypeOK, PlaceOrder, Extends
<1>2. o \in Object /\ o.id = order.id /\ o.order_type = order.order_type
  BY NewObjectType DEF NewObject
<1>3. \E d \in Object : Made(d)
  <2>1. CASE Refused(o) /\ Reject(h, o)
    <3> DEFINE d == [o EXCEPT !.status = "rejected"]
    <3>1. d \in Object /\ d.id = o.id /\ d.order_type = o.order_type /\ d.status = "rejected"
      BY <1>2 DEF Object, Status
    <3> QED
      BY <2>1, <3>1 DEF Reject
  <2>2. CASE Rests(o) /\ Store(h, o)
    BY <1>2, <2>2 DEF Rests
  <2>3. CASE ~Refused(o) /\ Fill(h, o, marks[o.symbol])
    <3>1. marks[o.symbol] \in Price
      BY <1>2, <2>3 DEF Refused, BookInv, TypeOK, Object
    <3> QED
      BY <1>1, <1>2, <2>3, <3>1, FillDecides
  <2> QED
    BY <2>1, <2>2, <2>3 DEF PlaceOrder
<1>4. PICK d \in Object : Made(d)
  BY <1>3
<1>5. Put(h, d) /\ Replaces(h, d)
  BY <1>1, <1>4 DEF Store, Replaces
<1>6. DOMAIN objects' = DOMAIN objects \cup {h} /\ objects'[h] = d
  BY <1>5 DEF Put
<1> QED
  BY <1>1, <1>2, <1>4, <1>5, <1>6, StoreKeepsObjects

\* An iteration of the sweep decides an object that is pending when it is looked
\* at, not when the snapshot was taken, and creates none.
LEMMA ProcessPendingKeepsObjects ==
    BookInv /\ ProcessPending => ObjectsKept /\ DOMAIN objects' = DOMAIN objects
<1> SUFFICES ASSUME BookInv, ProcessPending
             PROVE  ObjectsKept /\ DOMAIN objects' = DOMAIN objects
  OBVIOUS
<1> DEFINE h == Head(sweep)
           o == objects[h]
<1>1. issued \in Nat /\ h \in 1 .. issued /\ issued' = issued
  BY HeadTailProperties, SizesAssumption DEF BookInv, TypeOK, ProcessPending
<1>2. o \in Object /\ Extends(h) /\ h \in DOMAIN objects
  BY <1>1 DEF BookInv, TypeOK, Extends
<1>3. CASE o.status = "pending" /\ Crossed(o) /\ Fill(h, o, marks[o.symbol])
  <2>1. marks[o.symbol] \in Price
    BY <1>2, <1>3 DEF Crossed, BookInv, TypeOK, Object
  <2>2. PICK d \in Object : d.id = o.id /\ d.order_type = o.order_type /\ Store(h, d)
    BY <1>2, <1>3, <2>1, FillDecides
  <2>3. Put(h, d) /\ Replaces(h, d)
    BY <1>3, <2>2 DEF Store, Replaces
  <2>4. DOMAIN objects' = DOMAIN objects
    BY <1>2, <2>3 DEF Put
  <2> QED
    BY <2>3, <2>4, StoreKeepsObjects
<1>4. CASE UNCHANGED <<cash, positions, objects, orders, keys>>
  BY <1>4 DEF ObjectsKept
<1> QED
  BY <1>3, <1>4 DEF ProcessPending

-----------------------------------------------------------------------------
(***************************************************************************)
(* The book is the sum of its fills.  BookMatchesFills is inductive with   *)
(* two additions.  FilledAtMark: a filled object shows a price at which    *)
(* _fill fills, so that its costs are those CostAssumption speaks of.      *)
(* OwnObjects: the dictionary and the sweep hold objects of this process   *)
(* only, so that a fill adds to the sum over this process's fills.         *)
(***************************************************************************)

\* What the fill of object o takes from the account, and adds to the book.
PaidFor(o) ==
    LET gross == o.fill_price * o.quantity
        cost == Cost(o.side, o.fill_price, o.quantity)
    IN  IF o.side = "buy" THEN gross + cost ELSE cost - gross

BookedFor(s, o) == IF o.symbol = s THEN SignedQty(o) ELSE 0

Payments == [h \in DOMAIN objects |-> PaidFor(objects[h])]

Shares(s) == [h \in DOMAIN objects |-> BookedFor(s, objects[h])]

Balanced ==
    /\ cash = InitialCash - SumOf(Payments, Filled)
    /\ \A s \in Symbol : positions[s] = SumOf(Shares(s), Filled)

AtMark(o) == o.status = "filled" => \E m \in Price : o.fill_price = FillPrice(o, m)

FilledAtMark == \A h \in DOMAIN objects : AtMark(objects[h])

OwnObjects ==
    /\ \A id \in OrderId : orders[id] # Absent => orders[id] > boot
    /\ \A k \in DOMAIN sweep : sweep[k] > boot

MoneyInv == BookInv /\ OwnObjects /\ FilledAtMark /\ Balanced

LEMMA PaidType ==
    ASSUME NEW o \in Object, o.status = "filled", AtMark(o)
    PROVE  PaidFor(o) \in Int
<1>1. PICK m \in Price : o.fill_price = FillPrice(o, m)
  BY DEF AtMark
<1>2. /\ o.fill_price = IF o.side = "buy" THEN m + Impact(m) ELSE m - Impact(m)
      /\ o.fill_price \in Nat
  BY <1>1, FillAmounts DEF FillPrice
<1>3. o.quantity \in Qty /\ o.quantity \in Nat /\ o.side \in {"buy", "sell"}
  BY SizesAssumption DEF Object
<1>4. Cost(o.side, o.fill_price, o.quantity) \in 0 .. o.fill_price * o.quantity
  BY <1>2, <1>3, CostAssumption
<1>5. o.fill_price * o.quantity \in Int
  BY <1>2, <1>3
<1> QED
  BY <1>4, <1>5 DEF PaidFor

LEMMA BookedType == ASSUME NEW o \in Object, NEW s PROVE BookedFor(s, o) \in Int
<1>1. o.quantity \in Qty /\ o.quantity \in Nat
  BY SizesAssumption DEF Object
<1> QED
  BY <1>1 DEF BookedFor, SignedQty

\* The fills of a process are finitely many objects.
LEMMA FilledIsFinite ==
    ASSUME BookInv PROVE IsFiniteSet(Filled) /\ Filled \subseteq DOMAIN objects
<1>1. boot + 1 \in Int /\ issued \in Int /\ boot \in Nat
  BY SizesAssumption DEF BookInv, TypeOK
<1>2. Filled \subseteq (boot + 1) .. issued
  BY DEF Filled
<1>3. IsFiniteSet((boot + 1) .. issued)
  BY <1>1, FS_Interval
<1>4. (boot + 1) .. issued \subseteq DOMAIN objects
  BY <1>1 DEF BookInv, TypeOK
<1> QED
  BY <1>2, <1>3, <1>4, FS_Subset

\* Nothing was filled: the sums stay.
LEMMA BooksKept ==
    ASSUME MoneyInv, UNCHANGED <<cash, positions>>, Filled' = Filled,
           \A h \in Filled : h \in DOMAIN objects' /\ objects'[h] = objects[h]
    PROVE  Balanced'
<1>1. IsFiniteSet(Filled) /\ Filled \subseteq DOMAIN objects
  BY FilledIsFinite DEF MoneyInv
<1>2. SumOf(Payments', Filled) = SumOf(Payments, Filled)
  <2>1. \A h \in Filled : Payments'[h] = Payments[h]
    BY <1>1 DEF Payments
  <2> QED
    BY <1>1, <2>1, SumSame
<1>3. ASSUME NEW s \in Symbol PROVE SumOf(Shares(s)', Filled) = SumOf(Shares(s), Filled)
  <2>1. \A h \in Filled : Shares(s)'[h] = Shares(s)[h]
    BY <1>1 DEF Shares
  <2> QED
    BY <1>1, <2>1, SumSame
<1> QED
  BY <1>2, <1>3 DEF MoneyInv, Balanced

\* One object was filled: the sums grow by what was booked for it.
LEMMA BooksGrow ==
    ASSUME MoneyInv, NEW h, NEW d \in Object, d.status = "filled", AtMark(d),
           h \notin Filled, Filled' = Filled \cup {h},
           h \in DOMAIN objects', objects'[h] = d,
           \A g \in Filled : g \in DOMAIN objects' /\ objects'[g] = objects[g],
           cash' = cash - PaidFor(d),
           \A s \in Symbol : positions'[s] = positions[s] + BookedFor(s, d)
    PROVE  Balanced'
<1>1. IsFiniteSet(Filled) /\ Filled \subseteq DOMAIN objects
  BY FilledIsFinite DEF MoneyInv
<1>2. \A g \in Filled : objects[g] \in Object /\ objects[g].status = "filled" /\ AtMark(objects[g])
  BY <1>1 DEF MoneyInv, BookInv, TypeOK, FilledAtMark, Filled
<1>3. SumOf(Payments', Filled') = SumOf(Payments, Filled) + PaidFor(d)
  <2>1. \A g \in Filled : Payments[g] \in Int /\ Payments'[g] = Payments[g]
    BY <1>1, <1>2, PaidType DEF Payments
  <2>2. Payments'[h] = PaidFor(d) /\ PaidFor(d) \in Int
    BY PaidType DEF Payments
  <2>3. SumOf(Payments', Filled') = SumOf(Payments, Filled) + Payments'[h]
    BY <1>1, <2>1, <2>2, SumGrows, SMT
  <2> QED
    BY <2>2, <2>3
<1>4. ASSUME NEW s \in Symbol
      PROVE  SumOf(Shares(s)', Filled') = SumOf(Shares(s), Filled) + BookedFor(s, d)
  <2>1. PICK old, now : old = Shares(s) /\ now = Shares(s)'
    OBVIOUS
  <2>2. \A g \in Filled : old[g] \in Int /\ now[g] = old[g]
    BY <1>1, <1>2, <2>1, BookedType DEF Shares
  <2>3. now[h] = BookedFor(s, d) /\ BookedFor(s, d) \in Int
    BY <2>1, BookedType DEF Shares
  <2>4. /\ IsFiniteSet(Filled) /\ h \notin Filled /\ Filled' = Filled \cup {h}
        /\ now[h] \in Int
    BY <1>1, <2>3
  <2>5. SumOf(now, Filled') = SumOf(old, Filled) + now[h]
    BY ONLY <2>2, <2>4, SumGrows, SMT
  <2> QED
    BY <2>1, <2>3, <2>5
<1>5. cash = InitialCash - SumOf(Payments, Filled) /\ PaidFor(d) \in Int
  BY PaidType DEF MoneyInv, Balanced
<1>6. SumOf(Payments, Filled) \in Int
  <2>1. \A g \in Filled : Payments[g] \in Int
    BY <1>1, <1>2, PaidType DEF Payments
  <2> QED
    BY <1>1, <2>1, SumType
<1>7. cash' = InitialCash - SumOf(Payments', Filled')
  <2>1. InitialCash \in Int
    BY SizesAssumption
  <2> QED
    BY <1>3, <1>5, <1>6, <2>1
<1>8. \A s \in Symbol : positions'[s] = SumOf(Shares(s)', Filled')
  BY <1>4 DEF MoneyInv, Balanced
<1> QED
  BY <1>7, <1>8 DEF Balanced

\* Storing an object of this process that is not filled, over one that was not.
LEMMA PutUnfilled ==
    ASSUME MoneyInv, NEW h, NEW o \in Object, Extends(h), Put(h, o), o.status # "filled",
           h \in DOMAIN objects => objects[h].status # "filled",
           UNCHANGED <<cash, positions, boot>>
    PROVE  Balanced' /\ FilledAtMark'
<1>1. /\ DOMAIN objects = 1 .. issued /\ DOMAIN objects' = 1 .. issued' /\ boot \in Nat
      /\ \A g \in DOMAIN objects : g # h => objects'[g] = objects[g]
      /\ objects'[h] = o /\ h \in DOMAIN objects'
      /\ DOMAIN objects' = DOMAIN objects \cup {h}
  BY SizesAssumption DEF MoneyInv, BookInv, TypeOK, Put, Extends
<1>2. Filled' = Filled
  <2>1. issued \in Nat /\ issued' \in Nat
    BY SizesAssumption DEF MoneyInv, BookInv, TypeOK, Extends
  <2>2. h \notin Filled
    BY <1>1, <2>1 DEF Filled
  <2>3. \A g : g # h => (g \in Filled' <=> g \in Filled)
    BY <1>1, <2>1 DEF Filled
  <2>4. h \notin Filled'
    BY <1>1 DEF Filled
  <2> QED
    BY <2>2, <2>3, <2>4
<1>3. \A g \in Filled : g \in DOMAIN objects /\ g # h
  BY <1>1 DEF Filled
<1>4. Balanced'
  BY <1>1, <1>2, <1>3, BooksKept
<1>5. FilledAtMark'
  BY <1>1 DEF MoneyInv, FilledAtMark, AtMark
<1> QED
  BY <1>4, <1>5

\* _fill books what it stores.
LEMMA FillBooks ==
    ASSUME MoneyInv, NEW h, NEW o \in Object, NEW mark \in Price, Extends(h), h > boot,
           h \in DOMAIN objects => objects[h].status # "filled",
           Fill(h, o, mark), UNCHANGED boot
    PROVE  Balanced' /\ FilledAtMark'
<1>1. CASE ~Affordable(o, mark)
  <2> DEFINE d == [o EXCEPT !.status = "rejected"]
  <2>1. d \in Object /\ d.status # "filled"
    BY DEF Object, Status
  <2>2. Put(h, d) /\ UNCHANGED <<cash, positions>>
    BY <1>1 DEF Fill, Reject, Store
  <2> QED
    BY <2>1, <2>2, PutUnfilled
<1>2. CASE Affordable(o, mark)
  <2> DEFINE new == [o EXCEPT !.status = "filled", !.fill_price = FillPrice(o, mark)]
  <2>1. PICK d : d = new
    OBVIOUS
  <2>2. /\ d \in Object /\ d.status = "filled" /\ d.fill_price = FillPrice(o, mark)
        /\ d.side = o.side /\ d.quantity = o.quantity /\ d.symbol = o.symbol
    BY <2>1, FillAmounts DEF Object, Status
  <2>3. /\ Put(h, d)
        /\ cash' = cash + CashFlow(o, mark)
        /\ positions' = [positions EXCEPT ![o.symbol] = @ + SignedQty(o)]
    BY <1>2, <2>1 DEF Fill, Store
  <2>4. AtMark(d)
    BY <2>2 DEF AtMark, FillPrice
  <2>5. PaidFor(d) = -CashFlow(o, mark) /\ CashFlow(o, mark) \in Int
    <3>1. /\ Notional(o, mark) \in Int /\ Charges(o, mark) \in Int
          /\ CashFlow(o, mark) \in Int
      BY FillAmounts
    <3>2. PaidFor(d) = IF o.side = "buy" THEN Notional(o, mark) + Charges(o, mark)
                                         ELSE Charges(o, mark) - Notional(o, mark)
      BY <2>2 DEF PaidFor, Notional, Charges
    <3> QED
      BY <3>1, <3>2 DEF CashFlow
  <2>6. \A s \in Symbol : positions'[s] = positions[s] + BookedFor(s, d)
    BY <2>2, <2>3 DEF BookedFor, SignedQty, MoneyInv, BookInv, TypeOK, Object
  <2>7. /\ DOMAIN objects = 1 .. issued /\ DOMAIN objects' = 1 .. issued' /\ boot \in Nat
        /\ \A g \in DOMAIN objects : g # h => objects'[g] = objects[g]
        /\ objects'[h] = d /\ h \in DOMAIN objects'
        /\ DOMAIN objects' = DOMAIN objects \cup {h}
    BY <2>3, SizesAssumption DEF MoneyInv, BookInv, TypeOK, Put, Extends
  <2>8. h \in Int /\ issued \in Nat /\ issued' \in Nat
    BY SizesAssumption DEF Extends, MoneyInv, BookInv, TypeOK
  <2>9. \A g \in Filled : g \in DOMAIN objects /\ g # h
    BY <2>7, <2>8 DEF Filled
  <2>10. Filled' = Filled \cup {h} /\ h \notin Filled
    <3>1. h \in (boot + 1) .. issued'
      BY <2>7, <2>8
    <3>2. h \in Filled'
      BY <2>2, <2>7, <3>1 DEF Filled
    <3>3. \A g : g # h => (g \in Filled' <=> g \in Filled)
      BY <2>7, <2>8 DEF Filled
    <3> QED
      BY <2>9, <3>2, <3>3
  <2>11. cash' = cash - PaidFor(d)
    BY <2>3, <2>5 DEF MoneyInv, BookInv, TypeOK
  <2>12. Balanced'
    BY <2>2, <2>4, <2>6, <2>7, <2>9, <2>10, <2>11, BooksGrow
  <2>13. FilledAtMark'
    BY <2>4, <2>7 DEF MoneyInv, FilledAtMark
  <2> QED
    BY <2>12, <2>13
<1> QED
  BY <1>1, <1>2

LEMMA StoreKeepsOwn ==
    ASSUME BookInv, OwnObjects, NEW h, NEW o \in Object, h > boot, Store(h, o),
           UNCHANGED boot, \A k \in DOMAIN sweep' : sweep'[k] > boot
    PROVE  OwnObjects'
<1>1. \A id \in OrderId : orders'[id] = IF id = o.id THEN h ELSE orders[id]
  BY DEF Store, BookInv, TypeOK
<1> QED
  BY <1>1 DEF OwnObjects

\* The new marks have every stored object of this process looked at.
LEMMA SweepKeepsOwn ==
    ASSUME BookInv, OwnObjects, StartSweep, UNCHANGED <<orders, boot>>
    PROVE  OwnObjects'
<1>1. keys \in Seq(OrderId) /\ sweep' = [k \in DOMAIN keys |-> orders[keys[k]]]
  BY DEF BookInv, TypeOK, StartSweep
<1>2. ASSUME NEW k \in DOMAIN keys PROVE sweep'[k] > boot
  <2>1. keys[k] \in OrderId
    BY <1>1, ElementOfSeq, LenProperties
  <2>2. orders[keys[k]] # Absent
    BY <2>1 DEF BookInv, KeysAreStored
  <2> QED
    BY <1>1, <2>1, <2>2 DEF OwnObjects
<1> QED
  BY <1>1, <1>2 DEF OwnObjects

LEMMA PlaceOrderMoney ==
    ASSUME MoneyInv, NEW order \in Orders, PlaceOrder(order)
    PROVE  OwnObjects' /\ FilledAtMark' /\ Balanced'
<1> DEFINE h == issued + 1
           o == NewObject(order)
<1>1. /\ issued \in Nat /\ boot \in 0 .. issued /\ issued' = h /\ h \notin DOMAIN objects
      /\ h > boot /\ Extends(h) /\ UNCHANGED <<sweep, boot>> /\ BookInv
  BY SizesAssumption DEF MoneyInv, BookInv, TypeOK, PlaceOrder, Extends
<1>2. o \in Object /\ o.status = "pending"
  BY NewObjectType
<1>3. \A k \in DOMAIN sweep' : sweep'[k] > boot
  BY <1>1 DEF MoneyInv, OwnObjects
<1>4. CASE Reject(h, o)
  <2> DEFINE d == [o EXCEPT !.status = "rejected"]
  <2>1. d \in Object /\ d.status # "filled"
    BY <1>2 DEF Object, Status
  <2>2. Store(h, d) /\ Put(h, d) /\ UNCHANGED <<cash, positions>>
    BY <1>4 DEF Reject, Store
  <2>3. Balanced' /\ FilledAtMark'
    BY <1>1, <2>1, <2>2, PutUnfilled
  <2>4. OwnObjects'
    BY <1>1, <1>3, <2>1, <2>2, StoreKeepsOwn DEF MoneyInv
  <2> QED
    BY <2>3, <2>4
<1>5. CASE Store(h, o) /\ UNCHANGED <<cash, positions>>
  <2>1. Balanced' /\ FilledAtMark'
    BY <1>1, <1>2, <1>5, PutUnfilled DEF Store
  <2>2. OwnObjects'
    BY <1>1, <1>2, <1>3, <1>5, StoreKeepsOwn DEF MoneyInv
  <2> QED
    BY <2>1, <2>2
<1>6. CASE ~Refused(o) /\ Fill(h, o, marks[o.symbol])
  <2>1. marks[o.symbol] \in Price
    BY <1>1, <1>2, <1>6 DEF Refused, BookInv, TypeOK, Object
  <2>2. Balanced' /\ FilledAtMark'
    BY <1>1, <1>2, <1>6, <2>1, FillBooks
  <2>3. PICK d \in Object : Store(h, d)
    BY <1>1, <1>2, <1>6, <2>1, FillDecides
  <2>4. OwnObjects'
    BY <1>1, <1>3, <2>3, StoreKeepsOwn DEF MoneyInv
  <2> QED
    BY <2>2, <2>4
<1> QED
  BY <1>4, <1>5, <1>6 DEF PlaceOrder

LEMMA ProcessPendingMoney ==
    ASSUME MoneyInv, ProcessPending
    PROVE  OwnObjects' /\ FilledAtMark' /\ Balanced'
<1> DEFINE h == Head(sweep)
           o == objects[h]
<1>1. issued \in Nat /\ h \in 1 .. issued /\ issued' = issued /\ UNCHANGED boot /\ BookInv
  BY HeadTailProperties, SizesAssumption DEF MoneyInv, BookInv, TypeOK, ProcessPending
<1>2. h > boot /\ \A k \in DOMAIN sweep' : sweep'[k] > boot
  <2>1. /\ sweep \in Seq(1 .. issued) /\ sweep # << >> /\ sweep' = Tail(sweep)
        /\ \A k \in DOMAIN sweep : sweep[k] > boot
    BY DEF MoneyInv, BookInv, TypeOK, ProcessPending, OwnObjects
  <2>2. h = sweep[1] /\ Len(sweep) \in Nat \ {0} /\ DOMAIN sweep = 1 .. Len(sweep)
    BY <2>1, HeadTailProperties, LenProperties, EmptySeq
  <2>3. /\ DOMAIN sweep' = 1 .. Len(sweep) - 1
        /\ \A k \in 1 .. Len(sweep) - 1 : sweep'[k] = sweep[k + 1]
    BY <2>1, <2>2, HeadTailProperties, LenProperties
  <2> QED
    BY <2>1, <2>2, <2>3
<1>3. o \in Object /\ Extends(h)
  BY <1>1 DEF BookInv, TypeOK, Extends
<1>4. CASE o.status = "pending" /\ Crossed(o) /\ Fill(h, o, marks[o.symbol])
  <2>1. marks[o.symbol] \in Price
    BY <1>1, <1>3, <1>4 DEF Crossed, BookInv, TypeOK, Object
  <2>2. Balanced' /\ FilledAtMark'
    BY <1>1, <1>2, <1>3, <1>4, <2>1, FillBooks
  <2>3. PICK d \in Object : Store(h, d)
    BY <1>1, <1>3, <1>4, <2>1, FillDecides
  <2>4. OwnObjects'
    BY <1>1, <1>2, <2>3, StoreKeepsOwn DEF MoneyInv
  <2> QED
    BY <2>2, <2>4
<1>5. CASE UNCHANGED <<cash, positions, objects, orders, keys>>
  <2>1. Filled' = Filled /\ Filled \subseteq DOMAIN objects
    BY <1>1, <1>5, FilledIsFinite DEF Filled
  <2>2. Balanced'
    BY <1>5, <2>1, BooksKept
  <2>3. FilledAtMark' /\ OwnObjects'
    BY <1>1, <1>2, <1>5 DEF MoneyInv, FilledAtMark, OwnObjects
  <2> QED
    BY <2>2, <2>3
<1> QED
  BY <1>4, <1>5 DEF ProcessPending

LEMMA ModifyOrderMoney ==
    ASSUME MoneyInv, NEW id \in OrderId, NEW q \in Qty, NEW limit \in Price \cup {NoLimit},
           ModifyOrder(id, q, limit)
    PROVE  OwnObjects' /\ FilledAtMark' /\ Balanced'
<1> DEFINE h == orders[id]
           o == [objects[h] EXCEPT !.quantity = q, !.limit_price = limit]
<1>1. /\ issued \in Nat /\ h \in 1 .. issued /\ issued' = issued /\ h > boot
      /\ UNCHANGED <<boot, sweep>> /\ BookInv
  BY SizesAssumption DEF MoneyInv, BookInv, TypeOK, OwnObjects, ModifyOrder, Absent
<1>2. /\ Extends(h) /\ objects[h] \in Object /\ objects[h].status = "pending"
      /\ o \in Object /\ o.status = "pending"
  <2>1. objects[h] \in Object /\ objects[h].status = "pending" /\ Extends(h)
    BY <1>1 DEF BookInv, TypeOK, Extends, ModifyOrder
  <2> QED
    BY <2>1 DEF Object
<1>3. \A k \in DOMAIN sweep' : sweep'[k] > boot
  BY <1>1 DEF MoneyInv, OwnObjects
<1>4. CASE Crossed(o) /\ Fill(h, o, marks[o.symbol])
  <2>1. marks[o.symbol] \in Price
    BY <1>1, <1>2, <1>4 DEF Crossed, BookInv, TypeOK, Object
  <2>2. Balanced' /\ FilledAtMark'
    BY <1>1, <1>2, <1>4, <2>1, FillBooks
  <2>3. PICK d \in Object : Store(h, d)
    BY <1>1, <1>2, <1>4, <2>1, FillDecides
  <2>4. OwnObjects'
    BY <1>1, <1>3, <2>3, StoreKeepsOwn DEF MoneyInv
  <2> QED
    BY <2>2, <2>4
<1>5. CASE Store(h, o) /\ UNCHANGED <<cash, positions>>
  <2>1. Balanced' /\ FilledAtMark'
    BY <1>1, <1>2, <1>5, PutUnfilled DEF Store
  <2>2. OwnObjects'
    BY <1>1, <1>2, <1>3, <1>5, StoreKeepsOwn DEF MoneyInv
  <2> QED
    BY <2>1, <2>2
<1> QED
  BY <1>4, <1>5 DEF ModifyOrder

LEMMA CancelOrderMoney ==
    ASSUME MoneyInv, NEW id \in OrderId, CancelOrder(id)
    PROVE  OwnObjects' /\ FilledAtMark' /\ Balanced'
<1> DEFINE h == orders[id]
           o == [objects[h] EXCEPT !.status = "cancelled"]
<1>1. issued \in Nat /\ h \in 1 .. issued /\ issued' = issued /\ UNCHANGED boot /\ BookInv
  BY SizesAssumption DEF MoneyInv, BookInv, TypeOK, CancelOrder, Absent
<1>2. objects[h] \in Object /\ objects[h].status = "pending" /\ Extends(h)
  BY <1>1 DEF BookInv, TypeOK, Extends, CancelOrder
<1>3. o \in Object /\ o.status # "filled"
  BY <1>2 DEF Object, Status
<1>4. Balanced' /\ FilledAtMark'
  BY <1>1, <1>2, <1>3, PutUnfilled DEF CancelOrder
<1>5. OwnObjects'
  <2>1. UNCHANGED <<orders, sweep, boot>>
    BY DEF CancelOrder
  <2> QED
    BY <2>1 DEF MoneyInv, OwnObjects
<1> QED
  BY <1>4, <1>5

\* A new process starts with the initial cash and no fills of its own.
LEMMA RestartMoney ==
    ASSUME MoneyInv, Restart
    PROVE  OwnObjects' /\ FilledAtMark' /\ Balanced'
<1>1. /\ issued \in Nat /\ boot' = issued /\ issued' = issued /\ UNCHANGED objects
      /\ InitialCash \in Int
  BY SizesAssumption DEF MoneyInv, BookInv, TypeOK, Restart
<1>2. Filled' = {}
  BY <1>1 DEF Filled
<1>3. \A F : SumOf(F, Filled') = 0
  BY <1>2, SumEmpty
<1>4. cash' = InitialCash /\ \A s \in Symbol : positions'[s] = 0
  BY DEF Restart
<1>5. Balanced'
  <2>1. SumOf(Payments', Filled') = 0 /\ \A s \in Symbol : SumOf(Shares(s)', Filled') = 0
    BY <1>3
  <2> QED
    BY <1>1, <1>4, <2>1 DEF Balanced
<1>6. OwnObjects'
  BY DEF Restart, OwnObjects, Absent
<1>7. FilledAtMark'
  BY <1>1 DEF MoneyInv, FilledAtMark
<1> QED
  BY <1>5, <1>6, <1>7

LEMMA MoneyStep == MoneyInv /\ [Next]_vars => MoneyInv'
<1> SUFFICES ASSUME MoneyInv, [Next]_vars PROVE MoneyInv'
  OBVIOUS
<1>0. BookInv /\ BookInv'
  BY StepInv DEF MoneyInv
<1> SUFFICES OwnObjects' /\ FilledAtMark' /\ Balanced'
  BY <1>0 DEF MoneyInv
<1>1. ASSUME UNCHANGED <<cash, positions, objects, issued, boot>>
      PROVE  FilledAtMark' /\ Balanced'
  <2>1. Filled' = Filled /\ Filled \subseteq DOMAIN objects
    BY <1>0, <1>1, FilledIsFinite DEF Filled
  <2>2. Balanced'
    BY <1>1, <2>1, BooksKept
  <2>3. FilledAtMark'
    BY <1>1 DEF MoneyInv, FilledAtMark
  <2> QED
    BY <2>2, <2>3
<1>2. ASSUME \/ \E s \in Symbol, p \in Price : SetMark(s, p)
             \/ \E prices \in [Symbol -> Price] : UpdateMarks(prices)
      PROVE  OwnObjects' /\ FilledAtMark' /\ Balanced'
  <2>1. StartSweep /\ UNCHANGED <<cash, positions, objects, issued, boot, orders>>
    BY <1>2 DEF SetMark, UpdateMarks
  <2> QED
    BY <1>0, <1>1, <2>1, SweepKeepsOwn DEF MoneyInv
<1>3. ASSUME Halt \/ Resume \/ UNCHANGED vars
      PROVE  OwnObjects' /\ FilledAtMark' /\ Balanced'
  <2>1. UNCHANGED <<cash, positions, objects, issued, boot, orders, sweep>>
    BY <1>3 DEF Halt, Resume, vars
  <2>2. OwnObjects'
    BY <2>1 DEF MoneyInv, OwnObjects
  <2> QED
    BY <1>1, <2>1, <2>2
<1> QED
  BY <1>2, <1>3, PlaceOrderMoney, ProcessPendingMoney, ModifyOrderMoney, CancelOrderMoney,
     RestartMoney DEF Next

-----------------------------------------------------------------------------
(***************************************************************************)
(* The sums of BookMatchesFills are those of Balanced.                     *)
(***************************************************************************)

LEMMA PaidIsSum == ASSUME BookInv PROVE MapThenSumSet(Paid, Filled) = SumOf(Payments, Filled)
<1> DEFINE Is(i) == i = [T \in SUBSET Filled |->
                           IF T = {} THEN 0 ELSE Paid(Pick(T)) + i[T \ {Pick(T)}]]
           it == CHOOSE i : Is(i)
<1>1. IsFiniteSet(Filled) /\ Filled \subseteq DOMAIN objects
  BY FilledIsFinite
<1>2. ASSUME NEW i PROVE IsSum(i, Payments, Filled) <=> Is(i)
  <2>1. \A T \in SUBSET Filled : T # {} => Payments[Pick(T)] = Paid(Pick(T))
    BY <1>1, PickIn DEF Payments, Paid, PaidFor
  <2> QED
    BY <2>1 DEF IsSum
<1>3. Is(it)
  <2>1. PICK i : Is(i)
    BY <1>1, <1>2, SumsExist
  <2> HIDE DEF Is
  <2> QED
    BY <2>1, Zenon
<1>4. MapThenSumSet(Paid, Filled) = it[Filled]
  BY DEF MapThenSumSet, MapThenFoldSet, Pick
<1>5. IsSum(it, Payments, Filled)
  BY <1>2, <1>3
<1>6. it[Filled] = SumOf(Payments, Filled)
  <2> HIDE DEF it
  <2> QED
    BY <1>1, <1>5, SumIs
<1> QED
  BY <1>4, <1>6

LEMMA BookedIsSum ==
    ASSUME BookInv, NEW s \in Symbol
    PROVE  MapThenSumSet(LAMBDA h : Booked(s, h), Filled) = SumOf(Shares(s), Filled)
<1> DEFINE Is(i) == i = [T \in SUBSET Filled |->
                           IF T = {} THEN 0 ELSE Booked(s, Pick(T)) + i[T \ {Pick(T)}]]
           it == CHOOSE i : Is(i)
<1>1. IsFiniteSet(Filled) /\ Filled \subseteq DOMAIN objects
  BY FilledIsFinite
<1>2. ASSUME NEW i PROVE IsSum(i, Shares(s), Filled) <=> Is(i)
  <2>1. \A T \in SUBSET Filled : T # {} => Shares(s)[Pick(T)] = Booked(s, Pick(T))
    BY <1>1, PickIn DEF Shares, Booked, BookedFor
  <2> QED
    BY <2>1 DEF IsSum
<1>3. Is(it)
  <2>1. PICK i : Is(i)
    BY <1>1, <1>2, SumsExist
  <2> HIDE DEF Is
  <2> QED
    BY <2>1, Zenon
<1>4. MapThenSumSet(LAMBDA h : Booked(s, h), Filled) = it[Filled]
  BY DEF MapThenSumSet, MapThenFoldSet, Pick
<1>5. IsSum(it, Shares(s), Filled)
  BY <1>2, <1>3
<1>6. it[Filled] = SumOf(Shares(s), Filled)
  <2> HIDE DEF it
  <2> QED
    BY <1>1, <1>5, SumIs
<1> QED
  BY <1>4, <1>6

\* Conservation: cash and shares are exactly the sum of the fills this process
\* shows.  However placements, modifications, cancellations, partial sweeps and
\* restarts interleave, each filled object was booked once, at the price and
\* quantity it shows, and nothing else was booked.
THEOREM BooksBalance == Spec => []BookMatchesFills
<1>1. Init => MoneyInv
  <2> SUFFICES ASSUME Init PROVE MoneyInv
    OBVIOUS
  <2>1. BookInv /\ issued = 0 /\ boot = 0 /\ sweep = << >> /\ InitialCash \in Int
    BY InitBookInv, SizesAssumption DEF Init, Fresh
  <2>2. DOMAIN objects = {} /\ Filled = {}
    BY <2>1 DEF BookInv, TypeOK, Filled
  <2>3. \A F : SumOf(F, Filled) = 0
    BY <2>2, SumEmpty
  <2>4. Balanced
    <3>1. SumOf(Payments, Filled) = 0 /\ \A s \in Symbol : SumOf(Shares(s), Filled) = 0
      BY <2>3
    <3> QED
      BY <2>1, <3>1 DEF Balanced, Init, Fresh
  <2>5. OwnObjects
    BY <2>1 DEF OwnObjects, Init, Fresh, Absent
  <2> QED
    BY <2>1, <2>2, <2>4, <2>5 DEF MoneyInv, FilledAtMark
<1>2. MoneyInv /\ [Next]_vars => MoneyInv'
  BY MoneyStep
<1>3. MoneyInv => BookMatchesFills
  BY PaidIsSum, BookedIsSum DEF MoneyInv, Balanced, BookMatchesFills
<1> QED
  BY <1>1, <1>2, <1>3, PTL DEF Spec
=============================================================================
