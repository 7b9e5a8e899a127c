-------------------------- MODULE OrderPath_proofs --------------------------
(***************************************************************************)
(* Proofs about OrderPath, for every set of threads, orders and prices and *)
(* with or without failures and restarts.                                  *)
(*                                                                         *)
(* What the tables claim stays true because the broker's objects only      *)
(* change in one direction (ObjectsKept, proved for the broker): an object *)
(* that a row or an event names keeps its order, and a decision is final.  *)
(* ThreadOK says what a handler between two of its steps knows, and        *)
(* DecisionInv what makes a commit follow the object it names.             *)
(***************************************************************************)
EXTENDS OrderPath, TLAPS

BP == INSTANCE PaperBroker_proofs

Decided == {"filled", "rejected", "cancelled"}

RowsOK ==
    \A id \in DOMAIN rows :
        rows[id].order \in Orders /\ rows[id].order.id = id

TypesOK ==
    /\ pc \in [Thread -> {"idle", "place", "load", "assign", "save", "audit", "commit", "halt",
                          "resume"}]
    /\ DOMAIN target = Thread /\ DOMAIN result = Thread
    /\ DOMAIN saved = Thread /\ DOMAIN logged = Thread

HasResult == {"load", "assign", "save", "audit", "commit"}

\* A handler works on a row that exists and an object of that row's order; a
\* decision it is about to commit was taken when it looked, and stays so.
ThreadOK(t) ==
    /\ pc[t] \in {"place"} \cup HasResult => target[t] \in DOMAIN rows
    /\ pc[t] \in HasResult =>
          result[t] \in DOMAIN objects /\ objects[result[t]].id = target[t]
    /\ pc[t] \in {"save", "audit", "commit"} =>
          \/ saved[t] \in {Same, "pending"}
          \/ saved[t] \in Decided /\ objects[result[t]].status = saved[t]
    /\ pc[t] = "commit" => logged[t] \in {"pending", objects[result[t]].status}

EventOK(e) ==
    e.handle # 0 =>
        /\ e.handle \in DOMAIN objects
        /\ objects[e.handle].id = e.id
        /\ e.what \in {"pending", objects[e.handle].status}

TablesInv ==
    /\ RowsOK
    /\ FilledRowWasExecuted
    /\ \A e \in audit : EventOK(e)
    /\ RowObjectIsAudited

PathInv == BP!BookInv /\ TypesOK /\ TablesInv /\ \A t \in Thread : ThreadOK(t)

-----------------------------------------------------------------------------
(***************************************************************************)
(* The broker's lemmas, about the broker of the order path.                *)
(***************************************************************************)

LEMMA BrokerInit == Broker!Init => BP!Init /\ BP!BookInv
BY BrokerAssumption, BP!InitBookInv
   DEF BP!OrderRec, Broker!OrderRec, BP!Init, Broker!Init, BP!Fresh, Broker!Fresh, BP!NoLimit,
       Broker!NoLimit, BP!NoMark, Broker!NoMark, BP!Absent, Broker!Absent

LEMMA BookKept == BP!BookInv /\ [BP!Next]_(BP!vars) => BP!BookInv'
BY BrokerAssumption, BP!StepInv DEF BP!OrderRec, Broker!OrderRec, BP!NoLimit, Broker!NoLimit

LEMMA PlaceOrderStep ==
    ASSUME BP!BookInv, NEW order \in Orders, Broker!PlaceOrder(order)
    PROVE  /\ BP!Next /\ BP!BookInv' /\ BP!ObjectsKept
           /\ DOMAIN objects' = DOMAIN objects \cup {issued'}
           /\ issued' \notin DOMAIN objects /\ 0 \notin DOMAIN objects'
           /\ objects'[issued'].id = order.id
           /\ objects'[issued'].order_type = order.order_type
           /\ order.order_type = "market" => objects'[issued'].status # "pending"
<1>1. BP!PlaceOrder(order)
  BY DEF Broker!PlaceOrder, BP!PlaceOrder, Broker!NewObject, BP!NewObject, Broker!Refused,
         BP!Refused, Broker!Rests, BP!Rests, Broker!Marketable, BP!Marketable, Broker!NoLimit,
         BP!NoLimit, Broker!NoMark, BP!NoMark, Broker!Store, BP!Store, Broker!Put, BP!Put,
         Broker!Reject, BP!Reject, Broker!Fill, BP!Fill, Broker!Affordable, BP!Affordable,
         Broker!Notional, BP!Notional, Broker!Charges, BP!Charges, Broker!FillPrice,
         BP!FillPrice, Broker!CashFlow, BP!CashFlow, Broker!SignedQty, BP!SignedQty,
         Broker!Absent, BP!Absent
<1>2. BP!Next
  BY <1>1 DEF BP!Next
<1>3. issued' \notin DOMAIN objects /\ 0 \notin DOMAIN objects'
  <2>1. /\ issued \in 0 .. MaxObjects /\ issued' = issued + 1 /\ MaxObjects \in Nat
        /\ DOMAIN objects = 1 .. issued /\ DOMAIN objects' = 1 .. issued'
    BY <1>1, <1>2, BookKept, BrokerAssumption DEF BP!BookInv, BP!TypeOK, BP!PlaceOrder
  <2>2. QED
    BY <2>1
<1>4. QED
  BY <1>1, <1>2, <1>3, BookKept, BrokerAssumption, BP!PlaceOrderKeepsObjects
     DEF BP!OrderRec, Broker!OrderRec, BP!NoLimit, Broker!NoLimit

LEMMA SweepStep ==
    ASSUME BP!BookInv, Broker!ProcessPending
    PROVE  BP!Next /\ BP!BookInv' /\ BP!ObjectsKept /\ DOMAIN objects' = DOMAIN objects
<1>1. BP!ProcessPending
  BY DEF Broker!ProcessPending, BP!ProcessPending, Broker!Crossed, BP!Crossed,
         Broker!Marketable, BP!Marketable, Broker!NoLimit,
         BP!NoLimit, Broker!NoMark, BP!NoMark, Broker!Store, BP!Store, Broker!Put, BP!Put,
         Broker!Reject, BP!Reject, Broker!Fill, BP!Fill, Broker!Affordable, BP!Affordable,
         Broker!Notional, BP!Notional, Broker!Charges, BP!Charges, Broker!FillPrice,
         BP!FillPrice, Broker!CashFlow, BP!CashFlow, Broker!SignedQty, BP!SignedQty,
         Broker!Absent, BP!Absent
<1>2. BP!Next
  BY <1>1 DEF BP!Next
<1>3. QED
  BY <1>1, <1>2, BookKept, BrokerAssumption, BP!ProcessPendingKeepsObjects
     DEF BP!OrderRec, Broker!OrderRec, BP!NoLimit, Broker!NoLimit

\* The other methods change no object.
LEMMA QuietStep ==
    ASSUME BP!BookInv,
           \/ \E s \in Symbol, p \in Price : Broker!SetMark(s, p)
           \/ Broker!Halt \/ Broker!Resume \/ Broker!Restart
    PROVE  BP!Next /\ BP!BookInv' /\ UNCHANGED <<objects, issued>>
<1>1. BP!Next
  BY DEF BP!Next, Broker!SetMark, BP!SetMark, Broker!StartSweep, BP!StartSweep, Broker!Halt,
         BP!Halt, Broker!Resume, BP!Resume, Broker!Restart, BP!Restart, Broker!NoMark,
         BP!NoMark, Broker!Absent, BP!Absent
<1>2. UNCHANGED <<objects, issued>>
  BY DEF Broker!SetMark, Broker!Halt, Broker!Resume, Broker!Restart
<1>3. QED
  BY <1>1, <1>2, BookKept

LEMMA StutterStep ==
    ASSUME BP!BookInv, UNCHANGED brokerVars
    PROVE  UNCHANGED BP!vars /\ BP!BookInv' /\ UNCHANGED <<objects, issued>>
<1>1. UNCHANGED BP!vars
  BY DEF brokerVars, BP!vars
<1>2. QED
  BY <1>1, BookKept DEF brokerVars

LEMMA SameObjects == UNCHANGED objects => BP!ObjectsKept
BY DEF BP!ObjectsKept
-----------------------------------------------------------------------------
(***************************************************************************)
(* What the tables claim and what the handlers know stays true while the   *)
(* broker's objects change.                                                *)
(***************************************************************************)

LEMMA TablesKept ==
    ASSUME TablesInv, BP!ObjectsKept, UNCHANGED <<rows, audit>>
    PROVE  TablesInv'
<1>1. RowsOK' /\ RowObjectIsAudited'
  BY DEF TablesInv, RowsOK, RowObjectIsAudited
<1>2. FilledRowWasExecuted'
  BY DEF TablesInv, FilledRowWasExecuted, BP!ObjectsKept
<1>3. \A e \in audit : EventOK(e)'
  BY DEF TablesInv, EventOK, BP!ObjectsKept
<1>4. QED
  BY <1>1, <1>2, <1>3 DEF TablesInv

LEMMA ThreadKept ==
    ASSUME NEW t \in Thread, ThreadOK(t), BP!ObjectsKept, DOMAIN rows \subseteq DOMAIN rows',
           pc'[t] = pc[t], target'[t] = target[t], result'[t] = result[t],
           saved'[t] = saved[t], logged'[t] = logged[t]
    PROVE  ThreadOK(t)'
BY DEF ThreadOK, HasResult, BP!ObjectsKept, Decided

LEMMA IdleThreadOK ==
    ASSUME NEW t \in Thread, pc'[t] \in {"idle", "halt", "resume"}
    PROVE  ThreadOK(t)'
BY DEF ThreadOK, HasResult

\* The other threads when thread t has moved.
LEMMA OthersKept ==
    ASSUME PathInv, NEW t \in Thread, BP!ObjectsKept, DOMAIN rows \subseteq DOMAIN rows',
           \A u \in Thread \ {t} :
              /\ pc'[u] = pc[u] /\ target'[u] = target[u] /\ result'[u] = result[u]
              /\ saved'[u] = saved[u] /\ logged'[u] = logged[u],
           ThreadOK(t)'
    PROVE  \A u \in Thread : ThreadOK(u)'
BY ThreadKept DEF PathInv

LEMMA InitPath == Init => PathInv
<1> SUFFICES ASSUME Init PROVE PathInv
  OBVIOUS
<1>1. BP!BookInv
  BY BrokerInit DEF Init
<1>2. DOMAIN rows = {} /\ audit = {}
  BY DEF Init
<1>3. TypesOK /\ \A t \in Thread : pc[t] = "idle"
  BY DEF Init, TypesOK
<1>4. TablesInv
  BY <1>2 DEF TablesInv, RowsOK, FilledRowWasExecuted, RowObjectIsAudited
<1>5. \A t \in Thread : ThreadOK(t)
  BY <1>3 DEF ThreadOK, HasResult
<1>6. QED
  BY <1>1, <1>3, <1>4, <1>5 DEF PathInv

-----------------------------------------------------------------------------
(***************************************************************************)
(* One lemma per action.                                                   *)
(***************************************************************************)

LEMMA ProposeOrderInv ==
    ASSUME PathInv, NEW order \in Orders, ProposeOrder(order) PROVE PathInv'
<1>1. BP!BookInv' /\ UNCHANGED objects /\ BP!ObjectsKept
  BY StutterStep, SameObjects DEF PathInv, ProposeOrder
<1>2. UNCHANGED threadVars /\ TypesOK'
  BY DEF ProposeOrder, threadVars, PathInv, TypesOK
<1>3. DOMAIN rows' = DOMAIN rows \cup {order.id} /\ order.id \notin DOMAIN rows
      /\ \A id \in DOMAIN rows : rows'[id] = rows[id]
  BY DEF ProposeOrder
<1>4. rows'[order.id] = [order |-> order, status |-> "pending", handle |-> 0]
  BY DEF ProposeOrder
<1>5. audit' = audit \cup {Event(order.id, "proposed", 0)}
  BY DEF ProposeOrder, AppendAudit
<1>6. TablesInv'
  <2>1. RowsOK'
    BY <1>3, <1>4 DEF PathInv, TablesInv, RowsOK
  <2>2. FilledRowWasExecuted'
    BY <1>1, <1>3, <1>4 DEF PathInv, TablesInv, FilledRowWasExecuted
  <2>3. \A e \in audit' : EventOK(e)'
    BY <1>1, <1>5 DEF PathInv, TablesInv, EventOK, Event
  <2>4. RowObjectIsAudited'
    BY <1>3, <1>4, <1>5 DEF PathInv, TablesInv, RowObjectIsAudited
  <2>5. QED
    BY <2>1, <2>2, <2>3, <2>4 DEF TablesInv
<1>7. \A t \in Thread : ThreadOK(t)'
  BY <1>1, <1>2, <1>3, ThreadKept DEF PathInv, threadVars
<1>8. QED
  BY <1>1, <1>2, <1>6, <1>7 DEF PathInv

LEMMA ApproveReadInv ==
    ASSUME PathInv, NEW t \in Thread, NEW id \in OrderId, ApproveRead(t, id) PROVE PathInv'
<1>1. BP!BookInv' /\ UNCHANGED objects /\ BP!ObjectsKept /\ UNCHANGED <<rows, audit>>
  BY StutterStep, SameObjects DEF PathInv, ApproveRead
<1>2. TablesInv'
  BY <1>1, TablesKept DEF PathInv
<1>3. TypesOK'
  BY DEF PathInv, TypesOK, ApproveRead
<1>4. ThreadOK(t)'
  BY DEF PathInv, TypesOK, ApproveRead, ThreadOK, HasResult
<1>5. \A u \in Thread : ThreadOK(u)'
  BY <1>1, <1>4, OthersKept DEF PathInv, TypesOK, ApproveRead
<1>6. QED
  BY <1>1, <1>2, <1>3, <1>5 DEF PathInv

LEMMA ApprovePlaceInv ==
    ASSUME PathInv, NEW t \in Thread, ApprovePlace(t) PROVE PathInv'
<1>1. target[t] \in DOMAIN rows
  BY DEF PathInv, ThreadOK, HasResult, ApprovePlace
<1>2. rows[target[t]].order \in Orders /\ rows[target[t]].order.id = target[t]
  BY <1>1 DEF PathInv, TablesInv, RowsOK
<1>3. /\ BP!BookInv' /\ BP!ObjectsKept
      /\ issued' \in DOMAIN objects' /\ objects'[issued'].id = target[t]
  BY <1>2, PlaceOrderStep DEF PathInv, ApprovePlace
<1>4. TablesInv'
  BY <1>3, TablesKept DEF PathInv, ApprovePlace
<1>5. TypesOK' /\ pc'[t] = "load" /\ result'[t] = issued' /\ UNCHANGED <<rows, target>>
  BY DEF PathInv, TypesOK, ApprovePlace
<1>6. ThreadOK(t)'
  BY <1>1, <1>3, <1>5 DEF ThreadOK, HasResult
<1>7. \A u \in Thread : ThreadOK(u)'
  BY <1>3, <1>6, OthersKept DEF PathInv, TypesOK, ApprovePlace
<1>8. QED
  BY <1>3, <1>4, <1>5, <1>7 DEF PathInv

LEMMA ApproveLoadInv ==
    ASSUME PathInv, NEW t \in Thread, ApproveLoad(t) PROVE PathInv'
<1>1. BP!BookInv' /\ UNCHANGED objects /\ BP!ObjectsKept /\ UNCHANGED <<rows, audit>>
  BY StutterStep, SameObjects DEF PathInv, ApproveLoad
<1>2. TablesInv'
  BY <1>1, TablesKept DEF PathInv
<1>3. TypesOK' /\ pc'[t] = "assign" /\ pc[t] = "load" /\ UNCHANGED <<rows, target, result>>
  BY DEF PathInv, TypesOK, ApproveLoad
<1>4. ThreadOK(t)'
  BY <1>1, <1>3 DEF PathInv, ThreadOK, HasResult
<1>5. \A u \in Thread : ThreadOK(u)'
  BY <1>1, <1>4, OthersKept DEF PathInv, TypesOK, ApproveLoad
<1>6. QED
  BY <1>1, <1>2, <1>3, <1>5 DEF PathInv

\* The broker's object is decided or rests.
LEMMA StatusOfObject ==
    ASSUME PathInv, NEW h \in DOMAIN objects
    PROVE  objects[h].status \in Decided \cup {"pending"}
BY DEF PathInv, BP!BookInv, BP!TypeOK, BP!Object, BP!Status, Decided

LEMMA ApproveAssignInv ==
    ASSUME PathInv, NEW t \in Thread, ApproveAssign(t) PROVE PathInv'
<1>1. BP!BookInv' /\ UNCHANGED objects /\ BP!ObjectsKept /\ UNCHANGED <<rows, audit>>
  BY StutterStep, SameObjects DEF PathInv, ApproveAssign
<1>2. TablesInv'
  BY <1>1, TablesKept DEF PathInv
<1>3. /\ TypesOK' /\ pc[t] = "assign" /\ pc'[t] = "save" /\ saved'[t] = Written(t)
      /\ UNCHANGED <<rows, target, result>>
  BY DEF PathInv, TypesOK, ApproveAssign
<1>4. ThreadOK(t)'
  <2>1. Written(t) \in {Same, objects[result[t]].status}
    BY DEF Written
  <2>2. result[t] \in DOMAIN objects
    BY <1>3 DEF PathInv, ThreadOK, HasResult
  <2>3. objects[result[t]].status \in Decided \cup {"pending"}
    BY <2>2, StatusOfObject
  <2>4. QED
    BY <1>1, <1>3, <2>1, <2>3 DEF PathInv, ThreadOK, HasResult
<1>5. \A u \in Thread : ThreadOK(u)'
  BY <1>1, <1>4, OthersKept DEF PathInv, TypesOK, ApproveAssign
<1>6. QED
  BY <1>1, <1>2, <1>3, <1>5 DEF PathInv

LEMMA ApproveSaveInv ==
    ASSUME PathInv, NEW t \in Thread, ApproveSave(t) PROVE PathInv'
<1>1. BP!BookInv' /\ UNCHANGED objects /\ BP!ObjectsKept /\ UNCHANGED <<rows, audit>>
  BY StutterStep, SameObjects DEF PathInv, ApproveSave
<1>2. TablesInv'
  BY <1>1, TablesKept DEF PathInv
<1>3. /\ TypesOK' /\ pc[t] = "save" /\ pc'[t] = "audit"
      /\ UNCHANGED <<rows, target, result, saved>>
  BY DEF PathInv, TypesOK, ApproveSave
<1>4. ThreadOK(t)'
  BY <1>1, <1>3 DEF PathInv, ThreadOK, HasResult
<1>5. \A u \in Thread : ThreadOK(u)'
  BY <1>1, <1>4, OthersKept DEF PathInv, TypesOK, ApproveSave
<1>6. QED
  BY <1>1, <1>2, <1>3, <1>5 DEF PathInv

LEMMA ApproveAuditInv ==
    ASSUME PathInv, NEW t \in Thread, ApproveAudit(t) PROVE PathInv'
<1>1. BP!BookInv' /\ UNCHANGED objects /\ BP!ObjectsKept /\ UNCHANGED <<rows, audit>>
  BY StutterStep, SameObjects DEF PathInv, ApproveAudit
<1>2. TablesInv'
  BY <1>1, TablesKept DEF PathInv
<1>3. TypesOK'
  BY DEF PathInv, TypesOK, ApproveAudit
<1>4. ThreadOK(t)'
  <2>1. /\ pc[t] = "audit" /\ pc'[t] = "commit" /\ logged'[t] = objects[result[t]].status
        /\ UNCHANGED <<rows, target, result, saved, objects>>
    BY <1>1 DEF PathInv, TypesOK, ApproveAudit
  <2>2. QED
    BY <2>1 DEF PathInv, ThreadOK, HasResult
<1>5. \A u \in Thread : ThreadOK(u)'
  BY <1>1, <1>4, OthersKept DEF PathInv, TypesOK, ApproveAudit
<1>6. QED
  BY <1>1, <1>2, <1>3, <1>5 DEF PathInv

\* What Done leaves of a thread, and of the others.
LEMMA DoneFacts ==
    ASSUME TypesOK, NEW t \in Thread, Done(t)
    PROVE  /\ TypesOK' /\ pc'[t] = "idle"
           /\ \A u \in Thread \ {t} :
                 /\ pc'[u] = pc[u] /\ target'[u] = target[u] /\ result'[u] = result[u]
                 /\ saved'[u] = saved[u] /\ logged'[u] = logged[u]
BY DEF TypesOK, Done

\* The commit writes what the handler knows of its object.
LEMMA ApproveCommitInv ==
    ASSUME PathInv, NEW t \in Thread, ApproveCommit(t) PROVE PathInv'
<1> PICK id, h : id = target[t] /\ h = result[t]
  OBVIOUS
<1> PICK what : what = logged[t]
  OBVIOUS
<1>1. BP!BookInv' /\ UNCHANGED objects /\ BP!ObjectsKept
  BY StutterStep, SameObjects DEF PathInv, ApproveCommit
<1>2. /\ id \in DOMAIN rows /\ h \in DOMAIN objects /\ objects[h].id = id
      /\ \/ saved[t] \in {Same, "pending"}
         \/ saved[t] \in Decided /\ objects[h].status = saved[t]
      /\ what \in {"pending", objects[h].status}
  BY DEF PathInv, ThreadOK, HasResult, ApproveCommit
<1>3. /\ DOMAIN rows' = DOMAIN rows
      /\ \A i \in DOMAIN rows : rows'[i].order = rows[i].order
      /\ \A i \in DOMAIN rows : i # id => rows'[i] = rows[i]
      /\ rows'[id].handle = h
      /\ rows'[id].status = IF saved[t] = Same THEN rows[id].status ELSE saved[t]
  BY <1>2 DEF ApproveCommit, SavedRow
<1>4. audit' = audit \cup {Event(id, what, h)}
  BY DEF ApproveCommit, AppendAudit
<1>5. /\ TypesOK' /\ pc'[t] = "idle"
      /\ \A u \in Thread \ {t} :
            /\ pc'[u] = pc[u] /\ target'[u] = target[u] /\ result'[u] = result[u]
            /\ saved'[u] = saved[u] /\ logged'[u] = logged[u]
  BY DoneFacts DEF PathInv, ApproveCommit
<1>6. TablesInv'
  <2>1. RowsOK'
    BY <1>3 DEF PathInv, TablesInv, RowsOK
  <2>2. FilledRowWasExecuted'
    BY <1>1, <1>2, <1>3 DEF PathInv, TablesInv, FilledRowWasExecuted, Same
  <2>3. \A e \in audit' : EventOK(e)'
    <3>1. EventOK(Event(id, what, h))'
      BY <1>1, <1>2 DEF EventOK, Event
    <3>2. ASSUME NEW e \in audit PROVE EventOK(e)'
      BY <1>1 DEF PathInv, TablesInv, EventOK
    <3>3. QED
      BY <1>4, <3>1, <3>2
  <2>4. RowObjectIsAudited'
    <3>1. Event(id, what, h).id = id /\ Event(id, what, h).handle = h
      BY DEF Event
    <3>2. QED
      BY <1>3, <1>4, <3>1 DEF PathInv, TablesInv, RowObjectIsAudited
  <2>5. QED
    BY <2>1, <2>2, <2>3, <2>4 DEF TablesInv
<1>7. \A u \in Thread : ThreadOK(u)'
  BY <1>1, <1>3, <1>5, IdleThreadOK, OthersKept
<1>8. QED
  BY <1>1, <1>5, <1>6, <1>7 DEF PathInv

\* A session that ends without effect on the rows, also one that logs a switch.
LEMMA SessionEndsInv ==
    ASSUME PathInv, NEW t \in Thread, ApproveFails(t) \/ SwitchCommit(t) \/ SwitchFails(t)
    PROVE  PathInv'
<1>1. BP!BookInv' /\ UNCHANGED objects /\ BP!ObjectsKept
  BY StutterStep, SameObjects DEF PathInv, ApproveFails, SwitchCommit, SwitchFails
<1>2. UNCHANGED rows /\ (UNCHANGED audit \/ audit' = audit \cup {Event(System, pc[t], 0)})
  BY DEF ApproveFails, SwitchCommit, SwitchFails, AppendAudit
<1>3. /\ TypesOK' /\ pc'[t] = "idle"
      /\ \A u \in Thread \ {t} :
            /\ pc'[u] = pc[u] /\ target'[u] = target[u] /\ result'[u] = result[u]
            /\ saved'[u] = saved[u] /\ logged'[u] = logged[u]
  BY DoneFacts DEF PathInv, ApproveFails, SwitchCommit, SwitchFails
<1>4. TablesInv'
  <2>1. RowsOK' /\ FilledRowWasExecuted' /\ RowObjectIsAudited'
    BY <1>1, <1>2 DEF PathInv, TablesInv, RowsOK, FilledRowWasExecuted, RowObjectIsAudited
  <2>2. \A e \in audit' : EventOK(e)'
    BY <1>1, <1>2 DEF PathInv, TablesInv, EventOK, Event
  <2>3. QED
    BY <2>1, <2>2 DEF TablesInv
<1>5. \A u \in Thread : ThreadOK(u)'
  BY <1>1, <1>2, <1>3, IdleThreadOK, OthersKept
<1>6. QED
  BY <1>1, <1>3, <1>4, <1>5 DEF PathInv

LEMMA SwitchInv ==
    ASSUME PathInv, NEW t \in Thread, HaltTrading(t) \/ ResumeTrading(t) PROVE PathInv'
<1>1. BP!BookInv' /\ UNCHANGED objects /\ BP!ObjectsKept
  BY QuietStep, SameObjects DEF PathInv, HaltTrading, ResumeTrading
<1>2. UNCHANGED <<rows, audit, target, result, saved, logged>>
  BY DEF HaltTrading, ResumeTrading
<1>3. TypesOK' /\ pc'[t] \in {"halt", "resume"} /\ \A u \in Thread \ {t} : pc'[u] = pc[u]
  BY <1>2 DEF PathInv, TypesOK, HaltTrading, ResumeTrading
<1>4. TablesInv'
  BY <1>1, <1>2, TablesKept DEF PathInv
<1>5. \A u \in Thread : ThreadOK(u)'
  BY <1>1, <1>2, <1>3, IdleThreadOK, OthersKept
<1>6. QED
  BY <1>1, <1>3, <1>4, <1>5 DEF PathInv

\* The mark feed: marks arrive, or the sweep goes on.
LEMMA FeedInv ==
    ASSUME PathInv, (\E s \in Symbol, p \in Price : MarksArrive(s, p)) \/ PendingVisited
    PROVE  PathInv'
<1>1. BP!BookInv' /\ BP!ObjectsKept
  BY QuietStep, SweepStep, SameObjects DEF PathInv, MarksArrive, PendingVisited
<1>2. UNCHANGED <<rows, audit, threadVars>>
  BY DEF MarksArrive, PendingVisited
<1>3. TablesInv' /\ TypesOK'
  BY <1>1, <1>2, TablesKept DEF PathInv, TypesOK, threadVars
<1>4. \A t \in Thread : ThreadOK(t)'
  BY <1>1, <1>2, ThreadKept DEF PathInv, threadVars
<1>5. QED
  BY <1>1, <1>3, <1>4 DEF PathInv

LEMMA ProcessRestartsInv == ASSUME PathInv, ProcessRestarts PROVE PathInv'
<1>1. BP!BookInv' /\ UNCHANGED objects /\ BP!ObjectsKept
  BY QuietStep, SameObjects DEF PathInv, ProcessRestarts
<1>2. TablesInv'
  BY <1>1, TablesKept DEF PathInv, ProcessRestarts
<1>3. TypesOK' /\ \A t \in Thread : pc'[t] = "idle"
  BY DEF PathInv, TypesOK, ProcessRestarts
<1>4. \A t \in Thread : ThreadOK(t)'
  BY <1>3, IdleThreadOK
<1>5. QED
  BY <1>1, <1>2, <1>3, <1>4 DEF PathInv

LEMMA StepPath == PathInv /\ [Next]_vars => PathInv'
<1> SUFFICES ASSUME PathInv, [Next]_vars PROVE PathInv'
  OBVIOUS
<1>1. CASE \E order \in Orders : ProposeOrder(order)
  BY <1>1, ProposeOrderInv
<1>2. CASE \E t \in Thread, id \in OrderId : ApproveRead(t, id)
  BY <1>2, ApproveReadInv
<1>3. ASSUME NEW t \in Thread, Handler(t) PROVE PathInv'
  BY <1>3, ApprovePlaceInv, ApproveLoadInv, ApproveAssignInv, ApproveSaveInv, ApproveAuditInv,
     ApproveCommitInv, SessionEndsInv
     DEF Handler
<1>4. ASSUME NEW t \in Thread, ApproveFails(t) \/ SwitchFails(t) PROVE PathInv'
  BY <1>4, SessionEndsInv
<1>5. ASSUME NEW t \in Thread, HaltTrading(t) \/ ResumeTrading(t) PROVE PathInv'
  BY <1>5, SwitchInv
<1>6. CASE (\E s \in Symbol, p \in Price : MarksArrive(s, p)) \/ PendingVisited
  BY <1>6, FeedInv
<1>7. CASE ProcessRestarts
  BY <1>7, ProcessRestartsInv
<1>8. CASE UNCHANGED vars
  <2>1. BP!BookInv' /\ BP!ObjectsKept /\ UNCHANGED <<rows, audit, threadVars>>
    BY <1>8, StutterStep, SameObjects DEF PathInv, vars
  <2>2. TablesInv' /\ TypesOK'
    BY <2>1, TablesKept DEF PathInv, TypesOK, threadVars
  <2>3. \A t \in Thread : ThreadOK(t)'
    BY <2>1, ThreadKept DEF PathInv, threadVars
  <2>4. QED
    BY <2>1, <2>2, <2>3 DEF PathInv
<1>9. QED
  BY <1>1, <1>2, <1>3, <1>4, <1>5, <1>6, <1>7, <1>8 DEF Next

LEMMA PathInvariant == Spec => []PathInv
BY InitPath, StepPath, PTL DEF Spec

-----------------------------------------------------------------------------
(***************************************************************************)
(* What a commit may do to a decided row.  Three facts about the requests  *)
(* under way are needed: an object is of the kind of its row's order, and  *)
(* only a limit order's object rests; a request that will write "pending"  *)
(* works on a limit order; and no row and no other request has the object  *)
(* a request has placed.                                                   *)
(***************************************************************************)

OfItsRow(h) ==
    LET id == objects[h].id IN
    /\ id \in DOMAIN rows
    /\ objects[h].order_type = rows[id].order.order_type
    /\ objects[h].status = "pending" => objects[h].order_type = "limit"

WritesPending(t) == pc[t] \in {"save", "audit", "commit"} /\ saved[t] = "pending"

OwnObject(t) ==
    pc[t] \in HasResult =>
        /\ WritesPending(t) => rows[target[t]].order.order_type = "limit"
        /\ \A id \in DOMAIN rows : rows[id].handle # result[t]
        /\ \A u \in Thread \ {t} : pc[u] \in HasResult => result[u] # result[t]

DecisionInv ==
    /\ PathInv
    /\ \A h \in DOMAIN objects : OfItsRow(h)
    /\ \A t \in Thread : OwnObject(t)

\* The rows there were keep their orders.
RowsKept ==
    \A id \in DOMAIN rows : id \in DOMAIN rows' /\ rows'[id].order = rows[id].order

LEMMA ObjectsOfRowsKept ==
    ASSUME DecisionInv, BP!ObjectsKept, RowsKept, NEW h \in DOMAIN objects,
           objects'[h].status = "pending" => objects[h].status = "pending"
    PROVE  OfItsRow(h)'
BY DEF DecisionInv, OfItsRow, BP!ObjectsKept, RowsKept

\* A status that is no longer pending does not become so.
LEMMA NeverPendingAgain ==
    ASSUME PathInv, PathInv', BP!ObjectsKept, NEW h \in DOMAIN objects
    PROVE  objects'[h].status = "pending" => objects[h].status = "pending"
BY DEF BP!ObjectsKept

\* A step that places nothing: requests come to an end or go on with what they
\* have, and a row takes no object a request still has.
LEMMA DecisionKept ==
    ASSUME DecisionInv, PathInv', BP!ObjectsKept, DOMAIN objects' = DOMAIN objects, RowsKept,
           \A t \in Thread : pc'[t] \in HasResult =>
               /\ pc[t] \in HasResult
               /\ target'[t] = target[t] /\ result'[t] = result[t]
               /\ WritesPending(t)' =>
                     WritesPending(t) \/ rows[target[t]].order.order_type = "limit"
               /\ \A id \in DOMAIN rows' : rows'[id].handle # result[t]
    PROVE  DecisionInv'
<1>1. \A h \in DOMAIN objects' : OfItsRow(h)'
  BY ObjectsOfRowsKept, NeverPendingAgain DEF DecisionInv
<1>2. ASSUME NEW t \in Thread PROVE OwnObject(t)'
  <2> SUFFICES ASSUME pc'[t] \in HasResult
               PROVE  /\ WritesPending(t)' => rows'[target'[t]].order.order_type = "limit"
                      /\ \A id \in DOMAIN rows' : rows'[id].handle # result'[t]
                      /\ \A u \in Thread \ {t} : pc'[u] \in HasResult => result'[u] # result'[t]
    BY DEF OwnObject, HasResult
  <2>1. target[t] \in DOMAIN rows /\ pc[t] \in HasResult
    BY DEF DecisionInv, PathInv, ThreadOK, HasResult
  <2>2. QED
    BY <2>1 DEF DecisionInv, OwnObject, RowsKept, HasResult
<1>3. QED
  BY <1>1, <1>2 DEF DecisionInv

\* The steps of a request that change no row.
LEMMA RequestDecision ==
    ASSUME DecisionInv, PathInv', NEW t \in Thread,
           \/ \E id \in OrderId : ApproveRead(t, id)
           \/ ApproveLoad(t) \/ ApproveAssign(t) \/ ApproveSave(t) \/ ApproveAudit(t)
           \/ ApproveFails(t) \/ SwitchCommit(t) \/ SwitchFails(t)
           \/ HaltTrading(t) \/ ResumeTrading(t)
    PROVE  DecisionInv'
<1>1. UNCHANGED objects /\ BP!ObjectsKept
  BY StutterStep, QuietStep, SameObjects
     DEF DecisionInv, PathInv, ApproveRead, ApproveLoad, ApproveAssign, ApproveSave,
         ApproveAudit, ApproveFails, SwitchCommit, SwitchFails, HaltTrading, ResumeTrading
<1>2. UNCHANGED rows /\ RowsKept
  BY DEF ApproveRead, ApproveLoad, ApproveAssign, ApproveSave, ApproveAudit, ApproveFails,
         SwitchCommit, SwitchFails, HaltTrading, ResumeTrading, RowsKept
<1>3. TypesOK
  BY DEF DecisionInv, PathInv
<1>4. \A u \in Thread \ {t} :
         pc'[u] = pc[u] /\ target'[u] = target[u] /\ result'[u] = result[u] /\ saved'[u] = saved[u]
  BY <1>3 DEF TypesOK, ApproveRead, ApproveLoad, ApproveAssign, ApproveSave, ApproveAudit,
              ApproveFails, SwitchCommit, SwitchFails, HaltTrading, ResumeTrading, Done
<1>5. pc'[t] \in HasResult =>
         pc[t] \in HasResult /\ target'[t] = target[t] /\ result'[t] = result[t]
  BY <1>3 DEF TypesOK, ApproveRead, ApproveLoad, ApproveAssign, ApproveSave, ApproveAudit,
              ApproveFails, SwitchCommit, SwitchFails, HaltTrading, ResumeTrading, Done, HasResult
<1>6. pc'[t] \in HasResult /\ WritesPending(t)' =>
         WritesPending(t) \/ rows[target[t]].order.order_type = "limit"
  <2>1. CASE ApproveAssign(t)
    <3>1. result[t] \in DOMAIN objects /\ objects[result[t]].id = target[t]
      BY <2>1 DEF DecisionInv, PathInv, ThreadOK, HasResult, ApproveAssign
    <3>2. saved'[t] = Written(t)
      BY <1>3, <2>1 DEF TypesOK, ApproveAssign
    <3>3. saved'[t] = "pending" => objects[result[t]].status = "pending"
      BY <3>2 DEF Written, Same
    <3>4. QED
      BY <3>1, <3>3 DEF DecisionInv, OfItsRow, WritesPending
  <2>2. CASE ~ApproveAssign(t)
    BY <1>3, <2>2 DEF TypesOK, ApproveRead, ApproveLoad, ApproveSave, ApproveAudit,
              ApproveFails, SwitchCommit, SwitchFails, HaltTrading, ResumeTrading, Done,
              HasResult, WritesPending
  <2>3. QED
    BY <2>1, <2>2
<1>7. \A u \in Thread : pc'[u] \in HasResult =>
         \A id \in DOMAIN rows' : rows'[id].handle # result[u]
  BY <1>2, <1>4, <1>5 DEF DecisionInv, OwnObject
<1>8. \A u \in Thread \ {t} : WritesPending(u)' => WritesPending(u)
  BY <1>4 DEF WritesPending
<1>9. QED
  BY <1>1, <1>2, <1>4, <1>5, <1>6, <1>7, <1>8, DecisionKept

\* The object a request places is new to every row and to every request.
LEMMA PlaceDecision ==
    ASSUME DecisionInv, PathInv', NEW t \in Thread, ApprovePlace(t) PROVE DecisionInv'
<1>1. PICK id, new : id = target[t] /\ new = issued'
  OBVIOUS
<1>2. id \in DOMAIN rows /\ rows[id].order \in Orders /\ rows[id].order.id = id
  BY <1>1 DEF DecisionInv, PathInv, TablesInv, RowsOK, ThreadOK, HasResult, ApprovePlace
<1>3. PICK order \in Orders : order = rows[id].order
  BY <1>2
<1>4. order.order_type \in {"market", "limit"}
  BY BrokerAssumption DEF Broker!OrderRec
<1>5. /\ BP!ObjectsKept
      /\ DOMAIN objects' = DOMAIN objects \cup {new}
      /\ new \notin DOMAIN objects /\ 0 \notin DOMAIN objects'
      /\ objects'[new].id = id /\ objects'[new].order_type = order.order_type
      /\ order.order_type = "market" => objects'[new].status # "pending"
  BY <1>1, <1>2, <1>3, PlaceOrderStep DEF DecisionInv, PathInv, ApprovePlace
<1>6. /\ pc[t] = "place" /\ pc'[t] = "load" /\ result'[t] = new
      /\ UNCHANGED <<rows, target, saved>>
      /\ \A u \in Thread \ {t} : pc'[u] = pc[u] /\ result'[u] = result[u]
  BY <1>1 DEF DecisionInv, PathInv, TypesOK, ApprovePlace
<1>7. \A h \in DOMAIN objects' : OfItsRow(h)'
  <2>1. OfItsRow(new)'
    BY <1>2, <1>3, <1>4, <1>5, <1>6 DEF OfItsRow
  <2>2. RowsKept
    BY <1>6 DEF RowsKept
  <2>3. \A h \in DOMAIN objects : OfItsRow(h)'
    BY <1>5, <2>2, ObjectsOfRowsKept, NeverPendingAgain DEF DecisionInv
  <2>4. QED
    BY <1>5, <2>1, <2>3
<1>8. \A i \in DOMAIN rows : rows[i].handle # new
  <2>1. \A i \in DOMAIN rows : rows[i].handle # 0 => rows[i].handle \in DOMAIN objects
    BY DEF DecisionInv, PathInv, TablesInv, RowObjectIsAudited, EventOK
  <2>2. QED
    BY <1>5, <2>1
<1>9. \A u \in Thread \ {t} : pc[u] \in HasResult => result[u] # new
  BY <1>5 DEF DecisionInv, PathInv, ThreadOK
<1>10. \A u \in Thread : OwnObject(u)'
  BY <1>6, <1>8, <1>9 DEF DecisionInv, OwnObject, WritesPending, HasResult
<1>11. QED
  BY <1>7, <1>10 DEF DecisionInv

\* The commit hands the object to its row.
LEMMA CommitDecision ==
    ASSUME DecisionInv, PathInv', NEW t \in Thread, ApproveCommit(t) PROVE DecisionInv'
<1>1. UNCHANGED objects /\ BP!ObjectsKept
  BY StutterStep, SameObjects DEF DecisionInv, PathInv, ApproveCommit
<1>2. pc[t] = "commit" /\ target[t] \in DOMAIN rows
  BY DEF DecisionInv, PathInv, ThreadOK, HasResult, ApproveCommit
<1>3. /\ RowsKept /\ DOMAIN rows' = DOMAIN rows
      /\ \A id \in DOMAIN rows : rows'[id].handle \in {rows[id].handle, result[t]}
  BY <1>2 DEF ApproveCommit, SavedRow, RowsKept
<1>4. /\ pc'[t] = "idle"
      /\ \A u \in Thread \ {t} :
            /\ pc'[u] = pc[u] /\ target'[u] = target[u] /\ result'[u] = result[u]
            /\ saved'[u] = saved[u]
  BY DoneFacts DEF DecisionInv, PathInv, ApproveCommit
<1>5. \A u \in Thread \ {t} : pc[u] \in HasResult =>
         result[u] # result[t] /\ \A id \in DOMAIN rows : rows[id].handle # result[u]
  BY <1>2 DEF DecisionInv, OwnObject, HasResult
<1>6. pc'[t] \notin HasResult /\ \A u \in Thread \ {t} : WritesPending(u)' => WritesPending(u)
  BY <1>4 DEF WritesPending, HasResult
<1>7. QED
  BY <1>1, <1>3, <1>4, <1>5, <1>6, DecisionKept

LEMMA DecisionStep == DecisionInv /\ [Next]_vars => DecisionInv'
<1> SUFFICES ASSUME DecisionInv, [Next]_vars PROVE DecisionInv'
  OBVIOUS
<1>1. PathInv'
  BY StepPath DEF DecisionInv
<1>2. ASSUME NEW order \in Orders, ProposeOrder(order) PROVE DecisionInv'
  <2>1. UNCHANGED objects /\ BP!ObjectsKept /\ UNCHANGED threadVars
    BY <1>2, StutterStep, SameObjects DEF DecisionInv, PathInv, ProposeOrder
  <2>2. /\ RowsKept
        /\ \A id \in DOMAIN rows' :
              \/ id \in DOMAIN rows /\ rows'[id] = rows[id]
              \/ rows'[id].handle = 0
    BY <1>2 DEF ProposeOrder, RowsKept
  <2>3. 0 \notin DOMAIN objects
    BY BrokerAssumption DEF DecisionInv, PathInv, BP!BookInv, BP!TypeOK
  <2>4. \A t \in Thread : pc[t] \in HasResult =>
           \A id \in DOMAIN rows' : rows'[id].handle # result[t]
    BY <2>2, <2>3 DEF DecisionInv, OwnObject, PathInv, ThreadOK
  <2>5. QED
    BY <1>1, <2>1, <2>2, <2>4, DecisionKept DEF threadVars, WritesPending
<1>3. CASE (\E s \in Symbol, p \in Price : MarksArrive(s, p)) \/ PendingVisited
  <2>1. BP!ObjectsKept /\ DOMAIN objects' = DOMAIN objects
    BY <1>3, QuietStep, SweepStep, SameObjects
       DEF DecisionInv, PathInv, MarksArrive, PendingVisited
  <2>2. UNCHANGED <<rows, threadVars>> /\ RowsKept
    BY <1>3 DEF MarksArrive, PendingVisited, RowsKept
  <2>3. QED
    BY <1>1, <2>1, <2>2, DecisionKept DEF threadVars, WritesPending, DecisionInv, OwnObject
<1>4. CASE ProcessRestarts
  <2>1. UNCHANGED objects /\ BP!ObjectsKept
    BY <1>4, QuietStep, SameObjects DEF DecisionInv, PathInv, ProcessRestarts
  <2>2. RowsKept /\ \A t \in Thread : pc'[t] \notin HasResult
    BY <1>4 DEF ProcessRestarts, RowsKept, HasResult
  <2>3. QED
    BY <1>1, <2>1, <2>2, DecisionKept
<1>5. CASE UNCHANGED vars
  <2>1. BP!ObjectsKept /\ UNCHANGED <<objects, rows, threadVars>>
    BY <1>5, StutterStep, SameObjects DEF DecisionInv, PathInv, vars
  <2>2. RowsKept
    BY <2>1 DEF RowsKept
  <2>3. QED
    BY <1>1, <2>1, <2>2, DecisionKept DEF threadVars, WritesPending, DecisionInv, OwnObject
<1>6. QED
  BY <1>1, <1>2, <1>3, <1>4, <1>5, RequestDecision, PlaceDecision, CommitDecision
     DEF Next, Handler

LEMMA DecisionInvariant == Spec => []DecisionInv
<1>1. Init => DecisionInv
  <2> SUFFICES ASSUME Init PROVE DecisionInv
    OBVIOUS
  <2>1. DOMAIN objects = {} /\ \A t \in Thread : pc[t] \notin HasResult
    BY DEF Init, Broker!Init, HasResult
  <2>2. QED
    BY <2>1, InitPath DEF DecisionInv, OwnObject
<1>2. QED
  BY <1>1, DecisionStep, PTL DEF Spec

-----------------------------------------------------------------------------
(***************************************************************************)
(* While the database answers and the process lives, an order that         *)
(* executes at once comes to be recorded.  MarketOK follows the object of a*)
(* market order from its placement to the commit of the request that placed*)
(* it: the object is decided when place_order returns, so a request that   *)
(* loads the row as pending writes the decision; and no request writes     *)
(* "pending" over the decision of a market order.                          *)
(***************************************************************************)

\* Thread t placed object h of order id, and writes or will write its decision.
WillRecord(t, id, h) ==
    /\ pc[t] \in HasResult
    /\ target[t] = id /\ result[t] = h
    /\ pc[t] = "assign" => saved[t] = "pending"
    /\ pc[t] \in {"save", "audit", "commit"} => saved[t] \in Decided

Recorded(id, h) ==
    rows[id].status # "pending" \/ \E t \in Thread : WillRecord(t, id, h)

MarketOK(h) == objects[h].order_type = "market" => Recorded(objects[h].id, h)

RecordInv == DecisionInv /\ \A h \in DOMAIN objects : MarketOK(h)

\* The object of a market order is decided, and its row is a market order's.
LEMMA MarketFacts ==
    ASSUME DecisionInv, NEW h \in DOMAIN objects, objects[h].order_type = "market"
    PROVE  /\ objects[h].status \in Decided
           /\ objects[h].id \in DOMAIN rows
           /\ rows[objects[h].id].order.order_type = "market"
<1>1. objects[h].status \in Decided \cup {"pending"}
  BY StatusOfObject DEF DecisionInv
<1>2. QED
  BY <1>1 DEF DecisionInv, OfItsRow

\* Nothing becomes undone: no object is new, no market order's row is opened
\* again and no request that will record something is interrupted.
LEMMA RecordKept ==
    ASSUME RecordInv, BP!ObjectsKept, DOMAIN objects' = DOMAIN objects,
           \A id \in DOMAIN rows : rows[id].status # "pending" => rows'[id].status # "pending",
           \A t \in Thread : pc[t] \in HasResult =>
               /\ pc'[t] = pc[t] /\ target'[t] = target[t]
               /\ result'[t] = result[t] /\ saved'[t] = saved[t]
    PROVE  \A h \in DOMAIN objects' : MarketOK(h)'
<1> SUFFICES ASSUME NEW h \in DOMAIN objects, objects'[h].order_type = "market"
             PROVE  Recorded(objects[h].id, h)'
  BY DEF MarketOK
<1>1. PICK id : id = objects[h].id /\ id = objects'[h].id
  BY DEF BP!ObjectsKept
<1>2. Recorded(id, h) /\ id \in DOMAIN rows
  BY <1>1 DEF RecordInv, DecisionInv, OfItsRow, MarketOK, BP!ObjectsKept
<1>3. \A t \in Thread : WillRecord(t, id, h) => WillRecord(t, id, h)'
  BY DEF WillRecord
<1>4. Recorded(id, h)'
  BY <1>2, <1>3 DEF Recorded
<1>5. QED
  BY <1>1, <1>4

\* The placement creates the object, and this request will record it; what other
\* requests will record they still will.
LEMMA PlaceRecord ==
    ASSUME RecordInv, NEW t \in Thread, ApprovePlace(t)
    PROVE  \A h \in DOMAIN objects' : MarketOK(h)'
<1>1. PICK id, new : id = target[t] /\ new = issued'
  OBVIOUS
<1>2. rows[id].order \in Orders /\ rows[id].order.id = id
  BY <1>1 DEF RecordInv, DecisionInv, PathInv, TablesInv, RowsOK, ThreadOK, HasResult, ApprovePlace
<1>3. PICK order \in Orders : order = rows[id].order
  BY <1>2
<1>4. /\ BP!ObjectsKept
      /\ DOMAIN objects' = DOMAIN objects \cup {new} /\ objects'[new].id = id
  BY <1>1, <1>2, <1>3, PlaceOrderStep DEF RecordInv, DecisionInv, PathInv, ApprovePlace
<1>5. /\ pc[t] = "place" /\ pc'[t] = "load" /\ target'[t] = id /\ result'[t] = new
      /\ UNCHANGED <<rows, saved>>
      /\ \A u \in Thread \ {t} :
            pc'[u] = pc[u] /\ target'[u] = target[u] /\ result'[u] = result[u]
  BY <1>1 DEF RecordInv, DecisionInv, PathInv, TypesOK, ApprovePlace
<1>6. MarketOK(new)'
  <2>1. WillRecord(t, id, new)'
    BY <1>5 DEF WillRecord, HasResult
  <2>2. QED
    BY <1>4, <2>1 DEF MarketOK, Recorded
<1>7. ASSUME NEW h \in DOMAIN objects PROVE MarketOK(h)'
  <2>1. PICK i : i = objects[h].id /\ i = objects'[h].id
    BY <1>4 DEF BP!ObjectsKept
  <2>2. objects[h].order_type = "market" => Recorded(i, h)
    BY <2>1 DEF RecordInv, MarketOK
  <2>3. \A u \in Thread : WillRecord(u, i, h) => WillRecord(u, i, h)'
    BY <1>5 DEF WillRecord, HasResult
  <2>4. Recorded(i, h) => Recorded(i, h)'
    BY <1>5, <2>3 DEF Recorded
  <2>5. QED
    BY <1>4, <2>1, <2>2, <2>4 DEF MarketOK, BP!ObjectsKept
<1>8. QED
  BY <1>4, <1>6, <1>7

\* The steps between the placement and the commit: the request loads a row that is
\* decided, or loads it as pending and then writes the decision of its object.
LEMMA WriteRecord ==
    ASSUME RecordInv, NEW t \in Thread,
           ApproveLoad(t) \/ ApproveAssign(t) \/ ApproveSave(t) \/ ApproveAudit(t)
    PROVE  \A h \in DOMAIN objects' : MarketOK(h)'
<1>1. UNCHANGED objects /\ UNCHANGED <<rows, target, result>>
  BY StutterStep
     DEF RecordInv, DecisionInv, PathInv, ApproveLoad, ApproveAssign, ApproveSave, ApproveAudit
<1>2. TypesOK
  BY DEF RecordInv, DecisionInv, PathInv
<1>3. \A u \in Thread \ {t} : pc'[u] = pc[u] /\ saved'[u] = saved[u]
  BY <1>2 DEF TypesOK, ApproveLoad, ApproveAssign, ApproveSave, ApproveAudit
<1> SUFFICES ASSUME NEW h \in DOMAIN objects, objects[h].order_type = "market"
             PROVE  Recorded(objects[h].id, h)'
  BY <1>1 DEF MarketOK
<1>4. PICK i : i = objects[h].id
  OBVIOUS
<1>5. Recorded(i, h) /\ objects[h].status \in Decided
  BY <1>4, MarketFacts DEF RecordInv, MarketOK
<1>6. \A u \in Thread \ {t} : WillRecord(u, i, h) => WillRecord(u, i, h)'
  BY <1>1, <1>3 DEF WillRecord
<1>7. WillRecord(t, i, h) => rows[i].status # "pending" \/ WillRecord(t, i, h)'
  <2> SUFFICES ASSUME WillRecord(t, i, h), rows[i].status = "pending" PROVE WillRecord(t, i, h)'
    OBVIOUS
  <2>1. target[t] = i /\ result[t] = h
    BY DEF WillRecord
  <2>2. CASE ApproveLoad(t)
    <3>1. pc'[t] = "assign" /\ saved'[t] = "pending"
      BY <1>2, <2>1, <2>2 DEF TypesOK, ApproveLoad
    <3>2. QED
      BY <1>1, <2>1, <3>1 DEF WillRecord, HasResult
  <2>3. CASE ApproveAssign(t)
    <3>1. pc'[t] = "save" /\ saved'[t] = Written(t) /\ saved[t] = "pending"
      BY <1>2, <2>3 DEF TypesOK, ApproveAssign, WillRecord
    <3>2. Written(t) \in Decided
      BY <1>5, <2>1, <3>1 DEF Written, Decided
    <3>3. QED
      BY <1>1, <2>1, <3>1, <3>2 DEF WillRecord, HasResult
  <2>4. CASE ApproveSave(t) \/ ApproveAudit(t)
    <3>1. /\ pc[t] \in {"save", "audit"} /\ pc'[t] \in {"audit", "commit"}
          /\ saved'[t] = saved[t]
      BY <1>2, <2>4 DEF TypesOK, ApproveSave, ApproveAudit
    <3>2. QED
      BY <1>1, <2>1, <3>1 DEF WillRecord, HasResult
  <2>5. QED
    BY <2>2, <2>3, <2>4
<1>8. Recorded(i, h)'
  BY <1>1, <1>5, <1>6, <1>7 DEF Recorded
<1>9. QED
  BY <1>1, <1>4, <1>8

\* The commit writes the decision on the object it will record; another object
\* of the same order keeps its request.
LEMMA CommitRecord ==
    ASSUME RecordInv, NEW t \in Thread, ApproveCommit(t)
    PROVE  \A h \in DOMAIN objects' : MarketOK(h)'
<1>1. PICK id : id = target[t]
  OBVIOUS
<1>2. UNCHANGED objects
  BY StutterStep DEF RecordInv, DecisionInv, PathInv, ApproveCommit
<1>3. /\ pc[t] = "commit" /\ id \in DOMAIN rows
      /\ saved[t] = "pending" => rows[id].order.order_type = "limit"
  BY <1>1 DEF RecordInv, DecisionInv, PathInv, ThreadOK, OwnObject, WritesPending, HasResult,
              ApproveCommit
<1>4. /\ \A i \in DOMAIN rows : i # id => rows'[i] = rows[i]
      /\ rows'[id].status = IF saved[t] = Same THEN rows[id].status ELSE saved[t]
  BY <1>1, <1>3 DEF ApproveCommit, SavedRow
<1>5. \A u \in Thread \ {t} :
         /\ pc'[u] = pc[u] /\ target'[u] = target[u] /\ result'[u] = result[u]
         /\ saved'[u] = saved[u]
  BY DoneFacts DEF RecordInv, DecisionInv, PathInv, ApproveCommit
<1> SUFFICES ASSUME NEW h \in DOMAIN objects, objects[h].order_type = "market"
             PROVE  Recorded(objects[h].id, h)'
  BY <1>2 DEF MarketOK
<1>6. PICK i : i = objects[h].id
  OBVIOUS
<1>7. Recorded(i, h) /\ i \in DOMAIN rows /\ rows[i].order.order_type = "market"
  BY <1>6, MarketFacts DEF RecordInv, MarketOK
<1>8. rows[i].status # "pending" => rows'[i].status # "pending"
  BY <1>3, <1>4, <1>7
<1>9. WillRecord(t, i, h) => rows'[i].status # "pending"
  BY <1>1, <1>3, <1>4 DEF WillRecord, Decided, Same
<1>10. \A u \in Thread \ {t} : WillRecord(u, i, h) => WillRecord(u, i, h)'
  BY <1>5 DEF WillRecord
<1>11. Recorded(i, h)'
  BY <1>7, <1>8, <1>9, <1>10 DEF Recorded
<1>12. QED
  BY <1>2, <1>6, <1>11

LEMMA RecordStep ==
    ASSUME ~DbFailures, ~Restarts, RecordInv, [Next]_vars PROVE RecordInv'
<1>1. DecisionInv'
  BY DecisionStep DEF RecordInv
<1> SUFFICES \A h \in DOMAIN objects' : MarketOK(h)'
  BY <1>1 DEF RecordInv
<1>2. TypesOK
  BY DEF RecordInv, DecisionInv, PathInv
<1>3. ASSUME NEW order \in Orders, ProposeOrder(order)
      PROVE  \A h \in DOMAIN objects' : MarketOK(h)'
  <2>1. UNCHANGED objects /\ BP!ObjectsKept /\ UNCHANGED threadVars
    BY <1>3, StutterStep, SameObjects DEF RecordInv, DecisionInv, PathInv, ProposeOrder
  <2>2. \A id \in DOMAIN rows : rows'[id] = rows[id]
    BY <1>3 DEF ProposeOrder
  <2>3. QED
    BY <2>1, <2>2, RecordKept DEF threadVars
<1>4. ASSUME NEW t \in Thread,
             \/ \E id \in OrderId : ApproveRead(t, id)
             \/ SwitchCommit(t) \/ HaltTrading(t) \/ ResumeTrading(t)
      PROVE  \A h \in DOMAIN objects' : MarketOK(h)'
  <2>1. UNCHANGED objects /\ BP!ObjectsKept /\ UNCHANGED rows
    BY <1>4, StutterStep, QuietStep, SameObjects
       DEF RecordInv, DecisionInv, PathInv, ApproveRead, SwitchCommit, HaltTrading, ResumeTrading
  <2>2. \A u \in Thread : pc[u] \in HasResult =>
           /\ pc'[u] = pc[u] /\ target'[u] = target[u]
           /\ result'[u] = result[u] /\ saved'[u] = saved[u]
    BY <1>2, <1>4
       DEF TypesOK, ApproveRead, SwitchCommit, HaltTrading, ResumeTrading, Done, HasResult
  <2>3. QED
    BY <2>1, <2>2, RecordKept
<1>5. ASSUME (\E s \in Symbol, p \in Price : MarksArrive(s, p)) \/ PendingVisited
      PROVE  \A h \in DOMAIN objects' : MarketOK(h)'
  <2>1. BP!ObjectsKept /\ DOMAIN objects' = DOMAIN objects
    BY <1>5, QuietStep, SweepStep, SameObjects
       DEF RecordInv, DecisionInv, PathInv, MarksArrive, PendingVisited
  <2>2. UNCHANGED <<rows, threadVars>>
    BY <1>5 DEF MarksArrive, PendingVisited
  <2>3. QED
    BY <2>1, <2>2, RecordKept DEF threadVars
<1>6. ASSUME UNCHANGED vars PROVE \A h \in DOMAIN objects' : MarketOK(h)'
  <2>1. BP!ObjectsKept /\ UNCHANGED <<objects, rows, threadVars>>
    BY <1>6, StutterStep, SameObjects DEF RecordInv, DecisionInv, PathInv, vars
  <2>2. QED
    BY <2>1, RecordKept DEF threadVars
<1>7. QED
  BY <1>3, <1>4, <1>5, <1>6, PlaceRecord, WriteRecord, CommitRecord
     DEF Next, Handler, ApproveFails, SwitchFails, ProcessRestarts

-----------------------------------------------------------------------------
(***************************************************************************)
(* The order path only drives the broker: each of its steps is one step of *)
(* the broker or none, so what is proved of the broker alone is true of the*)
(* one the API's threads share.                                            *)
(***************************************************************************)

LEMMA BrokerStep == ASSUME PathInv, [Next]_vars PROVE [BP!Next]_(BP!vars)
<1>1. ASSUME NEW t \in Thread, ApprovePlace(t) PROVE BP!Next
  <2>1. rows[target[t]].order \in Orders
    BY <1>1 DEF PathInv, ThreadOK, TablesInv, RowsOK, ApprovePlace
  <2>2. QED
    BY <1>1, <2>1, PlaceOrderStep DEF PathInv, ApprovePlace
<1>2. CASE PendingVisited
  BY <1>2, SweepStep DEF PathInv, PendingVisited
<1>3. CASE \/ \E s \in Symbol, p \in Price : MarksArrive(s, p)
           \/ \E t \in Thread : HaltTrading(t) \/ ResumeTrading(t)
           \/ ProcessRestarts
  BY <1>3, QuietStep DEF PathInv, MarksArrive, HaltTrading, ResumeTrading, ProcessRestarts
<1>4. CASE UNCHANGED brokerVars
  BY <1>4, StutterStep DEF PathInv
<1>5. QED
  BY <1>1, <1>2, <1>3, <1>4
     DEF Next, vars, Handler, ProposeOrder, ApproveRead, ApproveLoad, ApproveAssign, ApproveSave,
         ApproveAudit, ApproveCommit, ApproveFails, SwitchCommit, SwitchFails

\* The broker the threads share behaves as the broker's own specification says,
\* however requests, failures, restarts and marks interleave.
THEOREM DrivesBroker == Spec => BP!Spec
<1>1. Init => BP!Init
  BY BrokerInit DEF Init
<1>2. PathInv /\ [Next]_vars => [BP!Next]_(BP!vars)
  BY BrokerStep
<1>3. QED
  BY <1>1, <1>2, PathInvariant, PTL DEF Spec, BP!Spec

\* So the account of the broker the threads share is never overdrawn, no order
\* rests at a limit its mark has reached, its books hold each fill once and it
\* keeps its port's promises.
THEOREM SharedBrokerIsSound ==
    Spec => /\ [](BP!CashNonNegative /\ BP!RestingOrdersUncrossed /\ BP!BookMatchesFills)
            /\ BP!ImplementsContract
<1>1. BP!Spec => []BP!CashNonNegative
  BY BP!NeverOverdrawn, BrokerAssumption
     DEF BP!OrderRec, Broker!OrderRec, BP!NoLimit, Broker!NoLimit
<1>2. BP!Spec => []BP!RestingOrdersUncrossed
  BY BP!RestingUncrossed, BrokerAssumption
     DEF BP!OrderRec, Broker!OrderRec, BP!NoLimit, Broker!NoLimit
<1>3. BP!Spec => []BP!BookMatchesFills
  BY BP!BooksBalance, BrokerAssumption
     DEF BP!OrderRec, Broker!OrderRec, BP!NoLimit, Broker!NoLimit
<1>4. BP!Spec => BP!ImplementsContract
  BY BP!ContractImplemented, BrokerAssumption
     DEF BP!OrderRec, Broker!OrderRec, BP!NoLimit, Broker!NoLimit
<1>5. QED
  BY <1>1, <1>2, <1>3, <1>4, DrivesBroker, PTL

-----------------------------------------------------------------------------
\* No phantom execution: whatever fails, restarts or is approved twice, and
\* however requests and marks interleave, a row that shows filled belongs to an
\* order the broker filled.
THEOREM FilledRowsWereExecuted == Spec => []FilledRowWasExecuted
<1>1. PathInv => FilledRowWasExecuted
  BY DEF PathInv, TablesInv
<1>2. QED
  BY <1>1, PathInvariant, PTL

\* The audit log never contradicts the broker: an event names the order of the
\* object it names and the object's outcome, or that it was resting.
THEOREM AuditIsTrue == Spec => []AuditTellsTheOutcome
<1>1. PathInv => AuditTellsTheOutcome
  BY DEF PathInv, TablesInv, EventOK, AuditTellsTheOutcome
<1>2. QED
  BY <1>1, PathInvariant, PTL

\* The row and its event are committed together: a row that names an object has
\* an event that names it.
THEOREM RowsAreAudited == Spec => []RowObjectIsAudited
<1>1. PathInv => RowObjectIsAudited
  BY DEF PathInv, TablesInv
<1>2. QED
  BY <1>1, PathInvariant, PTL

\* Only a commit changes a status, and it moves a decided row with its object: the
\* row takes another object of the same order and what that object came to, and
\* is made approvable again only for a limit order.
THEOREM DecisionsFollow == Spec => DecisionsFollowObjects
<1> DEFINE Follows(id) ==
        LET old == rows[id]
            new == rows'[id]
        IN  old.status # "pending" /\ new.status # old.status =>
               /\ new.handle # old.handle
               /\ objects[new.handle].id = id
               /\ \/ new.status = objects[new.handle].status
                  \/ new.status = "pending" /\ old.order.order_type = "limit"
<1>1. ASSUME DecisionInv, [Next]_vars PROVE \A id \in DOMAIN rows : Follows(id)
  <2>1. ASSUME UNCHANGED rows PROVE \A id \in DOMAIN rows : Follows(id)
    BY <2>1
  <2>2. ASSUME NEW order \in Orders, ProposeOrder(order) PROVE \A id \in DOMAIN rows : Follows(id)
    BY <2>2 DEF ProposeOrder
  <2>3. ASSUME NEW t \in Thread, ApproveCommit(t) PROVE \A id \in DOMAIN rows : Follows(id)
    <3>1. PICK mine, h : mine = target[t] /\ h = result[t]
      OBVIOUS
    <3>2. /\ pc[t] = "commit" /\ mine \in DOMAIN rows /\ objects[h].id = mine
          /\ \/ saved[t] \in {Same, "pending"}
             \/ saved[t] \in Decided /\ objects[h].status = saved[t]
      BY <1>1, <2>3, <3>1 DEF DecisionInv, PathInv, ThreadOK, HasResult, ApproveCommit
    <3>3. /\ rows[mine].handle # h
          /\ saved[t] = "pending" => rows[mine].order.order_type = "limit"
      BY <1>1, <3>1, <3>2 DEF DecisionInv, OwnObject, WritesPending, HasResult
    <3>4. /\ \A id \in DOMAIN rows : id # mine => rows'[id] = rows[id]
          /\ rows'[mine].handle = h
          /\ rows'[mine].status = IF saved[t] = Same THEN rows[mine].status ELSE saved[t]
      BY <2>3, <3>1, <3>2 DEF ApproveCommit, SavedRow
    <3>5. QED
      BY <3>2, <3>3, <3>4
  <2>4. QED
    BY <1>1, <2>1, <2>2, <2>3
       DEF Next, vars, Handler, ApproveRead, ApprovePlace, ApproveLoad, ApproveAssign,
           ApproveSave, ApproveAudit, ApproveFails, HaltTrading, ResumeTrading, SwitchCommit,
           SwitchFails, MarksArrive, PendingVisited, ProcessRestarts
<1>2. QED
  BY <1>1, DecisionInvariant, PTL DEF Spec, DecisionsFollowObjects

\* While the database answers and the process lives, a market order that
\* executed does not stay approvable: approve_order records the fill, or a
\* request that will is still under way, also when two requests approve the same
\* order and a halt or a mark falls between their steps.
THEOREM MarketFillsAreRecorded ==
    ASSUME ~DbFailures, ~Restarts PROVE Spec => []MarketFillIsRecorded
<1>1. Init => RecordInv
  <2> SUFFICES ASSUME Init PROVE RecordInv
    OBVIOUS
  <2>1. DOMAIN objects = {} /\ \A t \in Thread : pc[t] \notin HasResult
    BY DEF Init, Broker!Init, HasResult
  <2> QED
    BY <2>1, InitPath DEF RecordInv, DecisionInv, OwnObject
<1>2. RecordInv /\ [Next]_vars => RecordInv'
  BY RecordStep
<1>3. RecordInv => MarketFillIsRecorded
  BY DEF RecordInv, MarketOK, Recorded, WillRecord, MarketFillIsRecorded
<1>4. QED
  BY <1>1, <1>2, <1>3, PTL DEF Spec
=============================================================================
