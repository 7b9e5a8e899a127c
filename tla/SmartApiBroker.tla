--------------------------- MODULE SmartApiBroker ---------------------------
(***************************************************************************)
(* The live broker (adapters/broker/smartapi_broker.py) against an         *)
(* exchange that decides orders on its own and whose answers get lost, are *)
(* error bodies or lack fields, and the checks a trader makes before going *)
(* live: reconciliation (live/reconciliation.py) and the slippage monitor  *)
(* (live/slippage.py).                                                     *)
(*                                                                         *)
(* The trader places, modifies and cancels orders, books the fills that    *)
(* the order book shows and reconciles the book with the positions.  An    *)
(* order has the id of the request it came from.                           *)
(***************************************************************************)
EXTENDS Integers, FiniteSetsExt

CONSTANTS
    Request,
    Sym,
    TradingSymbol(_),  \* request -> symbol
    SignedQty(_),      \* request -> quantity, negative for a sale
    Tokens,            \* the symbols of token_map
    MaxFaults,         \* bound: answers that are lost or malformed
    Expected(_),       \* request -> expected price of its fill, 0 if there is none
    FillPrices,        \* prices a fill may have
    ThresholdBps,      \* threshold_bps
    Malformed          \* a field that is not a number, an id that is none

\* An order buys or sells: its side is the sign of its quantity.
ASSUME TraderAssumption ==
    /\ IsFiniteSet(Request) /\ FillPrices \subseteq Int /\ ThresholdBps \in Int
    /\ \A r \in Request :
          /\ TradingSymbol(r) \in Sym /\ SignedQty(r) \in Int \ {0} /\ Expected(r) \in Nat
    /\ Malformed \notin Int

NoId == "None"

VARIABLES
    exchange,      \* request -> the state of its order at the exchange
    handle,        \* request -> what the last call returned: [status, id]
    view,          \* request -> status in the last order book read
    book,          \* requests whose fill the trader has booked
    positions,     \* the exchange's net quantities, for the symbols it has traded
    report,        \* the last reconciliation: [ok, read, held, booked]
    samples,       \* the monitor's samples: request -> [bps, price]
    faults

vars == <<exchange, handle, view, book, positions, report, samples, faults>>

\* Mutant: an unknown text counts as rejected.
StatusMap_UnknownRejected(s) ==
    CASE s = "complete" -> "filled"
      [] s = "cancelled" -> "cancelled"
      [] s \in {"open", "modified"} -> "submitted"
      [] s \in {"open pending", "pending", "trigger pending", "validation pending"} -> "pending"
      [] OTHER -> "rejected"

\* _STATUS_MAP; an unknown text is SUBMITTED.
StatusMap(s) ==
    CASE s = "complete" -> "filled"
      [] s = "rejected" -> "rejected"
      [] s = "cancelled" -> "cancelled"
      [] s \in {"open pending", "pending", "trigger pending", "validation pending"} -> "pending"
      [] OTHER -> "submitted"

Working == {"validation pending", "open", "modified", "after market order req received"}

Init ==
    /\ exchange = [r \in Request |-> "none"]
    /\ handle = [r \in Request |-> [status |-> "none", id |-> NoId]]
    /\ view = [r \in Request |-> "absent"]
    /\ book = {}
    /\ positions = << >>
    /\ report = [ok |-> TRUE, read |-> "answer", held |-> {}, booked |-> {}]
    /\ samples = << >>
    /\ faults = 0

Fault == faults < MaxFaults /\ faults' = faults + 1
Returns(r, status, id) == handle' = [handle EXCEPT ![r] = [status |-> status, id |-> id]]

-----------------------------------------------------------------------------
(***************************************************************************)
(* Responses are parsed leniently: a dictionary with its payload under     *)
(* "data", the bare payload, or anything else, which reads as empty.       *)
(***************************************************************************)
Body(shape, payload) == [shape |-> shape, payload |-> payload]
Empty == << >>

\* _rows: a function from the keys of the rows, empty for an error body.
Rows(resp) == IF resp.shape \in {"data", "bare"} THEN resp.payload ELSE Empty

\* _order_id: a text is taken for the id itself, an error text too.
OrderId(resp) ==
    IF resp.shape \in {"data", "bare", "text"} THEN resp.payload ELSE NoId

\* _f
Number(value) == IF value = Malformed THEN 0 ELSE value

Answers(payload) == {Body(shape, payload) : shape \in {"data", "bare"}}
ErrorBody == Body("error", Empty)

-----------------------------------------------------------------------------
(***************************************************************************)
(* Calls of the adapter.                                                   *)
(***************************************************************************)

\* A symbol without a token raises before anything is sent.
PlaceWithoutToken(r) ==
    /\ handle[r].status = "none"
    /\ TradingSymbol(r) \notin Tokens
    /\ Returns(r, "raised", NoId)
    /\ UNCHANGED <<exchange, view, book, positions, report, samples, faults>>

\* The answer is an error body or an error text (which the adapter returns as
\* submitted, without an id or with one that is none), or is lost (which raises).
PlacingFails(r) ==
    /\ \/ Returns(r, "raised", NoId)
       \/ \E resp \in {ErrorBody, Body("text", Malformed)} : Returns(r, "submitted", OrderId(resp))
    /\ Fault

\* The exchange takes the order or not, and the answer arrives or not.
PlaceOrder(r) ==
    /\ handle[r].status = "none"
    /\ TradingSymbol(r) \in Tokens
    /\ \/ /\ exchange' \in {[exchange EXCEPT ![r] = s] : s \in {"validation pending",
                                "after market order req received"}}
          /\ \/ /\ \E resp \in Answers(r) \cup {Body("text", r)} :
                      Returns(r, "submitted", OrderId(resp))
                /\ UNCHANGED faults
             \/ PlacingFails(r)
       \/ UNCHANGED exchange /\ PlacingFails(r)
    /\ UNCHANGED <<view, book, positions, report, samples>>

\* The exchange finds the order by the id it is given, and may still change it.
Reaches(r) == handle[r].id = r /\ exchange[r] \in Working

\* modify_order returns SUBMITTED whatever the exchange answers.
ModifyOrder(r) ==
    /\ handle[r].id # NoId
    /\ handle[r].status = "submitted"
    /\ exchange' = IF Reaches(r) THEN [exchange EXCEPT ![r] = "modified"] ELSE exchange
    /\ Returns(r, "submitted", handle[r].id)
    /\ UNCHANGED <<view, book, positions, report, samples, faults>>

\* cancel_order returns CANCELLED whatever the exchange answers: an order that
\* was decided stays decided, and a request that got lost changes nothing.
CancelOrder(r) ==
    /\ handle[r].id # NoId
    /\ handle[r].status = "submitted"
    /\ \/ /\ exchange' = IF Reaches(r) THEN [exchange EXCEPT ![r] = "cancelled"] ELSE exchange
          /\ UNCHANGED faults
       \/ Fault /\ UNCHANGED exchange
    /\ Returns(r, "cancelled", handle[r].id)
    /\ UNCHANGED <<view, book, positions, report, samples>>

\* Mutant: a sale counts like a purchase.
Slippage_OneSided(r, price) == ((price - Expected(r)) * 10000) \div Expected(r)

\* record: a fill above the expected price is adverse for a purchase, below it
\* for a sale.
Slippage(r, price) ==
    LET diff == IF SignedQty(r) > 0 THEN price - Expected(r) ELSE Expected(r) - price
    IN (diff * 10000) \div Expected(r)

Listed(rows) ==
    [r \in Request |-> IF r \in DOMAIN rows THEN StatusMap(rows[r]) ELSE "absent"]

\* get_orders, and the trader books and records each fill that is new in it.
\* An error body reads as an empty order book.
ReadOrders ==
    /\ \/ /\ \E resp \in Answers([r \in {s \in Request : exchange[s] # "none"} |-> exchange[r]]) :
                view' = Listed(Rows(resp))
          /\ UNCHANGED faults
       \/ view' = Listed(Rows(ErrorBody)) /\ Fault
    /\ LET new == {r \in Request : view'[r] = "filled"} \ book
       IN /\ book' = book \cup new
          /\ \E price \in [{r \in new : Expected(r) > 0} -> FillPrices] :
                samples' = [r \in DOMAIN samples \cup DOMAIN price |->
                              IF r \in DOMAIN samples THEN samples[r]
                              ELSE [bps |-> Slippage(r, price[r]), price |-> price[r]]]
    /\ UNCHANGED <<exchange, handle, positions, report>>

-----------------------------------------------------------------------------
(***************************************************************************)
(* Reconciliation.                                                         *)
(***************************************************************************)
\* dict.get(symbol, 0)
Get(f, s) == IF s \in DOMAIN f THEN f[s] ELSE 0

NetQty(R, s) == MapThenSumSet(SignedQty, {r \in R : TradingSymbol(r) = s})
Booked == [s \in {TradingSymbol(r) : r \in book} |-> NetQty(book, s)]
Completed == {r \in Request : exchange[r] = "complete"}

\* Mutant: only the symbols of the book are compared.
ReconcileOk_BookOnly(broker, booked) == \A s \in DOMAIN booked : Get(broker, s) = booked[s]

\* reconcile_positions with tolerance 0, over the symbols of either side.
ReconcileOk(broker, booked) ==
    \A s \in DOMAIN broker \cup DOMAIN booked : Get(broker, s) = Get(booked, s)

Reports(resp, how) ==
    LET broker == [s \in DOMAIN Rows(resp) |-> Number(Rows(resp)[s])]
    IN report' = [ok |-> ReconcileOk(broker, Booked), read |-> how,
                  held |-> Completed, booked |-> book]

\* get_positions: an error body reads as no positions at all, a quantity that is
\* not a number as 0.
Reconcile ==
    /\ \/ /\ \E resp \in Answers(positions) : Reports(resp, "answer")
          /\ UNCHANGED faults
       \/ Reports(ErrorBody, "error") /\ Fault
       \/ /\ \E s \in DOMAIN positions :
                Reports(Body("data", [positions EXCEPT ![s] = Malformed]), "malformed")
          /\ Fault
    /\ UNCHANGED <<exchange, handle, view, book, positions, samples>>

\* The exchange works an order, on its own time: it opens, then executes.
ExchangeOpens(r) ==
    /\ exchange[r] \in Working \ {"open"}
    /\ exchange' = [exchange EXCEPT ![r] = "open"]
    /\ UNCHANGED <<handle, view, book, positions, report, samples, faults>>

ExchangeExecutes(r) ==
    /\ exchange[r] = "open"
    /\ exchange' = [exchange EXCEPT ![r] = "complete"]
    /\ positions' = [s \in DOMAIN positions \cup {TradingSymbol(r)} |->
                       Get(positions, s) + (IF s = TradingSymbol(r) THEN SignedQty(r) ELSE 0)]
    /\ UNCHANGED <<handle, view, book, report, samples, faults>>

ExchangeRejects(r) ==
    /\ exchange[r] \in Working
    /\ exchange' = [exchange EXCEPT ![r] = "rejected"]
    /\ UNCHANGED <<handle, view, book, positions, report, samples, faults>>

Next ==
    \/ \E r \in Request : \/ PlaceWithoutToken(r) \/ PlaceOrder(r) \/ ModifyOrder(r)
                          \/ CancelOrder(r)
                          \/ ExchangeOpens(r) \/ ExchangeExecutes(r) \/ ExchangeRejects(r)
    \/ ReadOrders \/ Reconcile

Spec == Init /\ [][Next]_vars

-----------------------------------------------------------------------------
\* SlippageMonitor.report: flagged if the mean exceeds the threshold.
Flagged ==
    MapThenSumSet(LAMBDA r : samples[r].bps, DOMAIN samples)
        > ThresholdBps * Cardinality(DOMAIN samples)

\* What an order book read calls final is final at the exchange, however late
\* the trader acts on it, and a fill is booked only for an order that executed;
\* what place, modify and cancel return says nothing of the kind.
ViewTellsTheTruth ==
    /\ \A r \in Request : view[r] \in {"filled", "rejected", "cancelled"} =>
          view[r] = StatusMap(exchange[r])
    /\ book \subseteq Completed

\* A reconciliation that got an answer is ok exactly if the orders executed at
\* the exchange and the orders in the book add up alike for every symbol: one
\* whose placement seemed lost and that executed is found.  One that got an
\* error body is ok only if the book is flat, whatever the exchange holds.
ReportMatchesFills ==
    LET alike(R, B) == \A s \in Sym : NetQty(R, s) = NetQty(B, s)
    IN CASE report.read = "answer" -> report.ok <=> alike(report.held, report.booked)
         [] report.read = "error"  -> report.ok <=> alike({}, report.booked)
         [] OTHER -> TRUE

\* The slippage monitor is flagged only if a booked fill was worse for the
\* trader than expected by more than the threshold, bought or sold.
FlaggedMeansAdverse ==
    Flagged => \E r \in book \cap DOMAIN samples :
        LET loss == SignedQty(r) * (samples[r].price - Expected(r))
            size == IF SignedQty(r) > 0 THEN SignedQty(r) ELSE -SignedQty(r)
        IN loss * 10000 > ThresholdBps * Expected(r) * size
=============================================================================
