--------------------------- MODULE BrokerContract ---------------------------
(***************************************************************************)
(* What the API relies on behind the Broker port (domain/ports.py): every  *)
(* order object is decided once, cash moves only when an order executes    *)
(* and is never overdrawn, and while trading is halted nothing executes    *)
(* but what was already resting.  How prices, positions and the order      *)
(* dictionary make this so is left out.                                    *)
(***************************************************************************)
EXTENDS Integers

CONSTANTS Handle, InitialCash

VARIABLES
    status,   \* order object -> "none" or its status
    halted,
    cash

vars == <<status, halted, cash>>

Init ==
    /\ status = [h \in Handle |-> "none"]
    /\ halted = FALSE
    /\ cash = InitialCash

Accept(h) ==
    /\ status[h] = "none" /\ ~halted
    /\ status' = [status EXCEPT ![h] = "pending"]
    /\ UNCHANGED <<halted, cash>>

Refuse(h) ==
    /\ status[h] \in {"none", "pending"}
    /\ status' = [status EXCEPT ![h] = "rejected"]
    /\ UNCHANGED <<halted, cash>>

Execute(h) ==
    /\ status[h] = "pending" \/ (status[h] = "none" /\ ~halted)
    /\ status' = [status EXCEPT ![h] = "filled"]
    /\ cash' \in Nat
    /\ UNCHANGED halted

Withdraw(h) ==
    /\ status[h] = "pending"
    /\ status' = [status EXCEPT ![h] = "cancelled"]
    /\ UNCHANGED <<halted, cash>>

Switch ==
    /\ halted' \in BOOLEAN
    /\ UNCHANGED <<status, cash>>

NewSession ==
    /\ halted' = FALSE
    /\ cash' = InitialCash
    /\ UNCHANGED status

Next ==
    \/ \E h \in Handle : Accept(h) \/ Refuse(h) \/ Execute(h) \/ Withdraw(h)
    \/ Switch
    \/ NewSession

Spec == Init /\ [][Next]_vars
=============================================================================
