----------------------------- MODULE OrderPath -----------------------------
(***************************************************************************)
(* The order/approval path: api/routers/orders.py and api/routers/system.py*)
(* over the orders and audit tables and the broker singleton.              *)
(*                                                                         *)
(* A request runs in a thread of the API with a database session of its    *)
(* own (db/session.py).  What it writes becomes visible at the commit that *)
(* follows the handler; a database error drops it.  The broker is shared   *)
(* by all threads and acts at once.  An approval therefore takes the steps *)
(* read the row, place the order, load the row again, assign its columns,  *)
(* flush the UPDATE, write the audit event, commit; other requests, the    *)
(* mark feed and the end of the process fall between any two of them.      *)
(*                                                                         *)
(* get_order keeps nothing of the object it loads and the session holds it *)
(* weakly, so save_order selects the row again and sees what others have   *)
(* committed since.  It assigns the columns of that object; the UPDATE     *)
(* writes those whose value differs from the loaded one and locks the row  *)
(* until the transaction ends.  The order object the broker returns is the *)
(* one it keeps, so its status is read again each time the handler looks.  *)
(***************************************************************************)
EXTENDS Integers, Sequences, FiniteSets

CONSTANTS
    OrderId, Symbol, Price, Qty, InitialCash, Impact(_), Cost(_, _, _), MaxObjects,
    Orders,
    Thread,        \* threads of the API's pool
    System,        \* the resource of an audit event that is not an order's
    DbFailures,    \* whether a statement or a commit can fail
    Restarts       \* whether the API process can end

VARIABLES
    cash, positions, marks, halted, objects, issued, orders, keys, sweep, boot,
    rows,      \* committed orders: id -> [order, status, handle]
    audit,     \* committed audit events
    pc,        \* where each thread is in its handler
    target,    \* the order id of an approval
    result,    \* broker_order_id of the object place_order returned
    saved,     \* status of the row loaded again, then the one the UPDATE writes or Same
    logged     \* status named by the flushed audit event

brokerVars == <<cash, positions, marks, halted, objects, issued, orders, keys, sweep, boot>>
threadVars == <<pc, target, result, saved, logged>>
vars == <<brokerVars, rows, audit, threadVars>>

Broker == INSTANCE PaperBroker

\* What the broker assumes of its constants (see PaperBroker).
ASSUME BrokerAssumption ==
    /\ Price \subseteq Nat \ {0} /\ Qty \subseteq Nat \ {0}
    /\ InitialCash \in Nat /\ MaxObjects \in Nat
    /\ \A p \in Price : Impact(p) \in 0 .. p
    /\ \A p \in Price, q \in Qty :
          /\ Cost("buy", p + Impact(p), q) \in 0 .. (p + Impact(p)) * q
          /\ Cost("sell", p - Impact(p), q) \in 0 .. (p - Impact(p)) * q
    /\ Orders \subseteq Broker!OrderRec

Same == "same"    \* the column keeps the loaded value and is not written

\* What an event says: the resource, the action and the broker's object.
Event(id, what, handle) == [id |-> id, what |-> what, handle |-> handle]

\* append_audit: the log only grows.
AppendAudit(event) == audit' = audit \cup {event}

Init ==
    /\ Broker!Init
    /\ rows = << >>
    /\ audit = {}
    /\ pc = [t \in Thread |-> "idle"]
    /\ target = [t \in Thread |-> System]
    /\ result = [t \in Thread |-> 0]
    /\ saved = [t \in Thread |-> Same]
    /\ logged = [t \in Thread |-> Same]

-----------------------------------------------------------------------------
(***************************************************************************)
(* Requests.  A request the gates refuse (trading disabled, no valid TOTP, *)
(* unknown order, order not pending) changes nothing and is not a step.    *)
(***************************************************************************)

\* propose_order inserts the row and its event in one transaction.
ProposeOrder(order) ==
    /\ order.id \notin DOMAIN rows
    /\ rows' = [id \in DOMAIN rows \cup {order.id} |->
                   IF id = order.id
                   THEN [order |-> order, status |-> "pending", handle |-> 0]
                   ELSE rows[id]]
    /\ AppendAudit(Event(order.id, "proposed", 0))
    /\ UNCHANGED <<brokerVars, threadVars>>

\* approve_order: the row is loaded and its status checked.  The second conjunct
\* bounds the behaviour: every approval under way has an object left to create.
ApproveRead(t, id) ==
    /\ pc[t] = "idle"
    /\ issued + Cardinality({u \in Thread : pc[u] = "place"}) < MaxObjects
    /\ id \in DOMAIN rows
    /\ rows[id].status = "pending"
    /\ pc' = [pc EXCEPT ![t] = "place"]
    /\ target' = [target EXCEPT ![t] = id]
    /\ UNCHANGED <<brokerVars, rows, audit, result, saved, logged>>

ApprovePlace(t) ==
    /\ pc[t] = "place"
    /\ Broker!PlaceOrder(rows[target[t]].order)
    /\ result' = [result EXCEPT ![t] = issued']
    /\ pc' = [pc EXCEPT ![t] = "load"]
    /\ UNCHANGED <<rows, audit, target, saved, logged>>

\* Mutant: a session waits for every session that is about to write the row.
Locked_ByWaiters(t) ==
    \E u \in Thread \ {t} : pc[u] \in {"save", "audit", "commit"} /\ target[u] = target[t]

\* Another session has flushed an UPDATE of the row and not ended.
Locked(t) ==
    \E u \in Thread \ {t} : pc[u] \in {"audit", "commit"} /\ target[u] = target[t]

\* save_order: the row as it is committed now.
ApproveLoad(t) ==
    /\ pc[t] = "load"
    /\ saved' = [saved EXCEPT ![t] = rows[target[t]].status]
    /\ pc' = [pc EXCEPT ![t] = "assign"]
    /\ UNCHANGED <<brokerVars, rows, audit, target, result, logged>>

\* Mutant: an order that was rejected stays open for another approval.
Written_RejectedReopens(t) ==
    LET status == objects[result[t]].status
        kept == IF status = "rejected" THEN "pending" ELSE status
    IN  IF kept = saved[t] THEN Same ELSE kept

\* Mutant: an order the broker accepted is taken for executed.
Written_Optimistic(t) ==
    IF objects[result[t]].status = "rejected" THEN "rejected" ELSE "filled"

\* A status equal to the loaded one is not written.
Written(t) ==
    LET status == objects[result[t]].status
    IN  IF status = saved[t] THEN Same ELSE status

ApproveAssign(t) ==
    /\ pc[t] = "assign"
    /\ saved' = [saved EXCEPT ![t] = Written(t)]
    /\ pc' = [pc EXCEPT ![t] = "save"]
    /\ UNCHANGED <<brokerVars, rows, audit, target, result, logged>>

ApproveSave(t) ==
    /\ pc[t] = "save"
    /\ ~Locked(t)
    /\ pc' = [pc EXCEPT ![t] = "audit"]
    /\ UNCHANGED <<brokerVars, rows, audit, target, result, saved, logged>>

\* Mutant: the event is named before the outcome is known.
ApproveAudit_AssumesFill(t) ==
    /\ pc[t] = "audit"
    /\ logged' = [logged EXCEPT ![t] = "filled"]
    /\ pc' = [pc EXCEPT ![t] = "commit"]
    /\ UNCHANGED <<brokerVars, rows, audit, target, result, saved>>

ApproveAudit(t) ==
    /\ pc[t] = "audit"
    /\ logged' = [logged EXCEPT ![t] = objects[result[t]].status]
    /\ pc' = [pc EXCEPT ![t] = "commit"]
    /\ UNCHANGED <<brokerVars, rows, audit, target, result, saved>>

Done(t) ==
    /\ pc' = [pc EXCEPT ![t] = "idle"]
    /\ target' = [target EXCEPT ![t] = System]
    /\ result' = [result EXCEPT ![t] = 0]
    /\ saved' = [saved EXCEPT ![t] = Same]
    /\ logged' = [logged EXCEPT ![t] = Same]

\* The row as save_order leaves it: a column not written keeps what is there.
SavedRow(t) ==
    LET row == rows[target[t]]
    IN  [order |-> row.order, handle |-> result[t],
         status |-> IF saved[t] = Same THEN row.status ELSE saved[t]]

\* Mutant: the audit event goes to a session that is not committed.
ApproveCommit_RowOnly(t) ==
    /\ pc[t] = "commit"
    /\ rows' = [rows EXCEPT ![target[t]] = SavedRow(t)]
    /\ Done(t)
    /\ UNCHANGED <<brokerVars, audit>>

\* Mutant: only the broker's order id is stored.
ApproveCommit_HandleOnly(t) ==
    /\ pc[t] = "commit"
    /\ rows' = [rows EXCEPT ![target[t]].handle = result[t]]
    /\ AppendAudit(Event(target[t], logged[t], result[t]))
    /\ Done(t)
    /\ UNCHANGED brokerVars

ApproveCommit(t) ==
    /\ pc[t] = "commit"
    /\ rows' = [rows EXCEPT ![target[t]] = SavedRow(t)]
    /\ AppendAudit(Event(target[t], logged[t], result[t]))
    /\ Done(t)
    /\ UNCHANGED brokerVars

\* A statement or the commit raises: the session rolls back.
ApproveFails(t) ==
    /\ DbFailures
    /\ pc[t] \in {"load", "save", "audit", "commit"}
    /\ Done(t)
    /\ UNCHANGED <<brokerVars, rows, audit>>

\* halt_trading is open to anyone; its first statement halts the broker.
HaltTrading(t) ==
    /\ pc[t] = "idle"
    /\ Broker!Halt
    /\ pc' = [pc EXCEPT ![t] = "halt"]
    /\ UNCHANGED <<rows, audit, target, result, saved, logged>>

\* resume_trading passed the trading gate and the TOTP check.
ResumeTrading(t) ==
    /\ pc[t] = "idle"
    /\ Broker!Resume
    /\ pc' = [pc EXCEPT ![t] = "resume"]
    /\ UNCHANGED <<rows, audit, target, result, saved, logged>>

\* The audit event of either is flushed and committed, or lost.
SwitchCommit(t) ==
    /\ pc[t] \in {"halt", "resume"}
    /\ AppendAudit(Event(System, pc[t], 0))
    /\ Done(t)
    /\ UNCHANGED <<brokerVars, rows>>

SwitchFails(t) ==
    /\ DbFailures
    /\ pc[t] \in {"halt", "resume"}
    /\ Done(t)
    /\ UNCHANGED <<brokerVars, rows, audit>>

\* The mark feed.
MarksArrive(s, p) ==
    /\ Broker!SetMark(s, p)
    /\ UNCHANGED <<rows, audit, threadVars>>

PendingVisited ==
    /\ Broker!ProcessPending
    /\ UNCHANGED <<rows, audit, threadVars>>

\* The API process ends and starts again: the tables stay.
ProcessRestarts ==
    /\ Restarts
    /\ Broker!Restart
    /\ pc' = [t \in Thread |-> "idle"]
    /\ target' = [t \in Thread |-> System]
    /\ result' = [t \in Thread |-> 0]
    /\ saved' = [t \in Thread |-> Same]
    /\ logged' = [t \in Thread |-> Same]
    /\ UNCHANGED <<rows, audit>>

Handler(t) ==
    \/ ApprovePlace(t)
    \/ ApproveLoad(t)
    \/ ApproveAssign(t)
    \/ ApproveSave(t)
    \/ ApproveAudit(t)
    \/ ApproveCommit(t)
    \/ SwitchCommit(t)

Next ==
    \/ \E order \in Orders : ProposeOrder(order)
    \/ \E t \in Thread, id \in OrderId : ApproveRead(t, id)
    \/ \E t \in Thread :
          Handler(t) \/ ApproveFails(t) \/ HaltTrading(t) \/ ResumeTrading(t) \/ SwitchFails(t)
    \/ \E s \in Symbol, p \in Price : MarksArrive(s, p)
    \/ PendingVisited
    \/ ProcessRestarts

\* A thread of the pool keeps running its handler.
Fairness == \A t \in Thread : WF_vars(Handler(t))

Spec == Init /\ [][Next]_vars /\ Fairness

-----------------------------------------------------------------------------
(***************************************************************************)
(* Properties.                                                             *)
(***************************************************************************)

\* No phantom execution: an order the table shows as filled was filled by a
\* broker, whatever failed, restarted or was approved twice.
FilledRowWasExecuted ==
    \A id \in DOMAIN rows :
        rows[id].status = "filled" =>
            \E h \in DOMAIN objects : objects[h].id = id /\ objects[h].status = "filled"

\* An audit event of an execution names the outcome of the object it names; an
\* object audited as resting may have been decided since.
AuditTellsTheOutcome ==
    \A e \in audit :
        e.handle # 0 =>
            /\ objects[e.handle].id = e.id
            /\ e.what \in {"pending", objects[e.handle].status}

\* The row and its audit event stand or fall together: the object a row names
\* has its event in the log.
RowObjectIsAudited ==
    \A id \in DOMAIN rows :
        rows[id].handle # 0 =>
            \E e \in audit : e.id = id /\ e.handle = rows[id].handle

\* A decided row changes its status only with the object it names: another
\* approval of the order was under way, and the row takes what its object came
\* to, or rests at; only a limit order can become approvable again.
DecisionsFollowObjects ==
    [][\A id \in DOMAIN rows :
          LET old == rows[id]
              new == rows'[id]
          IN  old.status # "pending" /\ new.status # old.status =>
                 /\ new.handle # old.handle
                 /\ objects[new.handle].id = id
                 /\ \/ new.status = objects[new.handle].status
                    \/ new.status = "pending" /\ old.order.order_type = "limit"]_vars

\* Every request comes to its end: sessions that wait for a row get it.
RequestsEnd == \A t \in Thread : pc[t] # "idle" ~> pc[t] = "idle"

\* While the database answers and the process lives, an order that executes at
\* once does not stay pending in the table: either a request is still at work on
\* it or the table shows it as decided.  (A resting order does stay pending.)
MarketFillIsRecorded ==
    \A h \in DOMAIN objects :
        LET id == objects[h].id IN
        /\ objects[h].order_type = "market" /\ objects[h].status = "filled"
        => \/ rows[id].status # "pending"
           \/ \E t \in Thread : target[t] = id /\ result[t] = h

\* models.py: pending means proposed, awaiting approval; orders.py refuses to
\* approve what is not pending.  So a proposed order executes at most once.
ExecutedAtMostOnce ==
    \A h, k \in DOMAIN objects :
        /\ objects[h].status = "filled" /\ objects[k].status = "filled"
        /\ objects[h].id = objects[k].id
        => h = k

\* Wiki, step 15: anyone can halt, resuming requires 2FA, restarting is
\* deliberate.  So only a resume request ends a halt.
HaltEndsByResumeOnly ==
    [][halted /\ ~halted' => \E t \in Thread : pc[t] = "idle" /\ pc'[t] = "resume"]_vars
=============================================================================
