------------------------ MODULE SmartApiBroker_proofs ------------------------
(***************************************************************************)
(* Proofs about SmartApiBroker: what an order book read calls final is     *)
(* final, a reconciliation says whether the exchange and the book add up   *)
(* alike, and the slippage monitor is flagged only after an adverse fill,  *)
(* for any requests, quantities, prices and number of faults.              *)
(***************************************************************************)
EXTENDS SmartApiBroker, DataLemmas

-----------------------------------------------------------------------------
(***************************************************************************)
(* The net quantity of a set of requests is a sum over that set.           *)
(***************************************************************************)
Quantities == [r \in Request |-> SignedQty(r)]
Of(R, s) == {r \in R : TradingSymbol(r) = s}

\* NetQty is the sum of the quantities of the requests of the symbol.
LEMMA NetIsSum ==
    ASSUME NEW R \in SUBSET Request, NEW s
    PROVE  /\ NetQty(R, s) = SumOf(Quantities, Of(R, s))
           /\ IsFiniteSet(Of(R, s)) /\ Of(R, s) \subseteq Request
<1> DEFINE T == Of(R, s)
           Is(i) == i = [U \in SUBSET T |->
                           IF U = {} THEN 0 ELSE SignedQty(Pick(U)) + i[U \ {Pick(U)}]]
           it == CHOOSE i : Is(i)
<1>1. IsFiniteSet(T) /\ T \subseteq Request
  BY FS_Subset, TraderAssumption DEF Of
<1>2. ASSUME NEW i PROVE IsSum(i, Quantities, T) <=> Is(i)
  <2>1. \A U \in SUBSET T : U # {} => Quantities[Pick(U)] = SignedQty(Pick(U))
    BY <1>1, PickIn DEF Quantities
  <2> HIDE DEF T
  <2> QED
    BY <2>1 DEF IsSum
<1>3. Is(it)
  <2>1. PICK i : Is(i)
    BY <1>1, <1>2, SumsExist
  <2> HIDE DEF Is
  <2> QED
    BY <2>1, Zenon
<1>4. NetQty(R, s) = it[T]
  BY DEF NetQty, MapThenSumSet, MapThenFoldSet, Pick, Of
<1>5. IsSum(it, Quantities, T)
  BY <1>2, <1>3
<1>6. it[T] = SumOf(Quantities, T)
  <2> HIDE DEF it, T
  <2> QED
    BY <1>1, <1>5, SumIs
<1> QED
  BY <1>1, <1>4, <1>6

\* One more request adds its quantity to its own symbol.
LEMMA NetGrows ==
    ASSUME NEW R \in SUBSET Request, NEW x \in Request, x \notin R, NEW s, NEW Q, Q = R \cup {x}
    PROVE  NetQty(Q, s) = NetQty(R, s) + (IF s = TradingSymbol(x) THEN SignedQty(x) ELSE 0)
<1>1. /\ NetQty(R, s) = SumOf(Quantities, Of(R, s)) /\ IsFiniteSet(Of(R, s))
      /\ Of(R, s) \subseteq Request
  BY NetIsSum
<1>2. NetQty(Q, s) = SumOf(Quantities, Of(Q, s))
  BY NetIsSum
<1>3. \A r \in Request : Quantities[r] = SignedQty(r) /\ SignedQty(r) \in Int
  BY TraderAssumption DEF Quantities
<1>4. CASE s = TradingSymbol(x)
  <2>1. x \notin Of(R, s) /\ Of(Q, s) = Of(R, s) \cup {x}
    BY <1>4 DEF Of
  <2>2. \A y \in Of(R, s) : Quantities[y] \in Int
    BY <1>1, <1>3
  <2>3. Quantities[x] \in Int
    BY <1>3
  <2>4. SumOf(Quantities, Of(R, s) \cup {x}) = SumOf(Quantities, Of(R, s)) + Quantities[x]
    BY <1>1, <2>1, <2>2, <2>3, SumAdd
  <2> QED
    BY <1>1, <1>2, <1>3, <1>4, <2>1, <2>4
<1>5. CASE s # TradingSymbol(x)
  <2>1. Of(Q, s) = Of(R, s)
    BY <1>5 DEF Of
  <2>2. SumOf(Quantities, Of(R, s)) \in Int
    BY <1>1, <1>3, SumType
  <2> QED
    BY <1>1, <1>2, <1>5, <2>1, <2>2
<1> QED
  BY <1>4, <1>5

\* Requests that do not trade a symbol have nothing of it.
LEMMA NetOfNone ==
    ASSUME NEW R \in SUBSET Request, NEW s, Of(R, s) = {}
    PROVE  NetQty(R, s) = 0
BY NetIsSum, SumEmpty

-----------------------------------------------------------------------------
(***************************************************************************)
(* The invariant.                                                          *)
(***************************************************************************)
Answered == {"none", "submitted", "cancelled", "raised"}
States == {"none", "complete", "rejected", "cancelled"} \cup Working

TradeTypes ==
    /\ exchange \in [Request -> States]
    /\ handle \in [Request -> [status : Answered, id : Request \cup {NoId, Malformed}]]
    /\ \A s \in DOMAIN positions : s \in Sym /\ positions[s] \in Int

\* Only a placement puts an order on the exchange.
PlacedOnly == \A r \in Request : handle[r].status = "none" => exchange[r] = "none"

\* The exchange's positions are the net quantities of what it executed.
PositionsAddUp == \A s \in Sym : Get(positions, s) = NetQty(Completed, s)

Sample(r, price) == [bps |-> Slippage(r, price), price |-> price]
SampleOK(r) ==
    r \in book /\ Expected(r) > 0 /\ \E price \in FillPrices : samples[r] = Sample(r, price)

TradeInv ==
    /\ TradeTypes /\ PlacedOnly /\ PositionsAddUp
    /\ ViewTellsTheTruth /\ ReportMatchesFills
    /\ \A r \in DOMAIN samples : SampleOK(r)

-----------------------------------------------------------------------------
Final == {"complete", "rejected", "cancelled"}

\* The statuses the order book gives to the states of an order.
LEMMA FinalStatuses ==
    \A s \in States : /\ StatusMap(s) \in {"filled", "rejected", "cancelled"} <=> s \in Final
                      /\ StatusMap(s) = "filled" <=> s = "complete"
BY DEF States, Working, StatusMap, Final

\* Init
LEMMA TradeInit == Init => TradeInv
<1> SUFFICES ASSUME Init PROVE TradeInv
  OBVIOUS
<1> USE DEF Init
<1>1. TradeTypes /\ PlacedOnly
  <2>1. exchange \in [Request -> States] /\ \A r \in Request : exchange[r] = "none"
    BY DEF States
  <2>2. handle \in [Request -> [status : Answered, id : Request \cup {NoId, Malformed}]]
    BY DEF Answered
  <2>3. DOMAIN positions = {}
    OBVIOUS
  <2> QED
    BY <2>1, <2>2, <2>3 DEF TradeTypes, PlacedOnly
<1>2. Completed = {}
  BY DEF Completed
<1>3. PositionsAddUp
  <2> SUFFICES ASSUME NEW s \in Sym PROVE Get(positions, s) = NetQty(Completed, s)
    BY DEF PositionsAddUp
  <2>1. Of({}, s) = {}
    BY DEF Of
  <2>2. NetQty({}, s) = 0
    BY <2>1, NetOfNone
  <2> QED
    BY <1>2, <2>2 DEF Get
<1>4. ViewTellsTheTruth
  BY <1>2 DEF ViewTellsTheTruth
<1>5. ReportMatchesFills
  BY DEF ReportMatchesFills
<1>6. \A r \in DOMAIN samples : SampleOK(r)
  OBVIOUS
<1> QED
  BY <1>1, <1>3, <1>4, <1>5, <1>6 DEF TradeInv

\* The other side of a sample and of a report stays what it was.
LEMMA RecordsKept ==
    ASSUME TradeInv, book' = book, report' = report, samples' = samples
    PROVE  ReportMatchesFills' /\ \A r \in DOMAIN samples' : SampleOK(r)'
BY DEF TradeInv, ReportMatchesFills, SampleOK

\* An order that is not decided changes its state, and does not execute.
LEMMA NotDecided ==
    ASSUME TradeInv, UNCHANGED <<view, book, positions, report, samples>>,
           TradeTypes', PlacedOnly',
           \/ exchange' = exchange
           \/ \E r \in Request : /\ exchange[r] \notin Final
                                /\ \E s \in States \ {"complete"} :
                                      exchange' = [exchange EXCEPT ![r] = s]
    PROVE  TradeInv'
<1>1. \A r \in Request : exchange[r] \in Final => exchange'[r] = exchange[r]
  BY DEF TradeInv, TradeTypes
<1>2. Completed' = Completed
  BY <1>1 DEF TradeInv, TradeTypes, Completed, Final
<1>3. PositionsAddUp'
  BY <1>2 DEF TradeInv, PositionsAddUp
<1>4. ViewTellsTheTruth'
  <2>1. ASSUME NEW r \in Request, view[r] \in {"filled", "rejected", "cancelled"}
        PROVE  view[r] = StatusMap(exchange'[r])
    <3>1. view[r] = StatusMap(exchange[r])
      BY <2>1 DEF TradeInv, ViewTellsTheTruth
    <3>2. exchange[r] \in Final
      BY <2>1, <3>1, FinalStatuses DEF TradeInv, TradeTypes
    <3> QED
      BY <1>1, <3>1, <3>2
  <2> QED
    BY <1>2, <2>1 DEF TradeInv, ViewTellsTheTruth
<1> QED
  BY <1>3, <1>4, RecordsKept DEF TradeInv

\* Returns
LEMMA ReturnsTyped ==
    ASSUME TradeInv, NEW r \in Request, NEW status \in Answered,
           NEW id \in Request \cup {NoId, Malformed}, Returns(r, status, id), status # "none"
    PROVE  /\ handle' \in [Request -> [status : Answered, id : Request \cup {NoId, Malformed}]]
           /\ \A q \in Request : handle'[q].status = "none" <=>
                                  q # r /\ handle[q].status = "none"
<1> DEFINE answer == [status |-> status, id |-> id]
<1>1. answer \in [status : Answered, id : Request \cup {NoId, Malformed}] /\ answer.status # "none"
  OBVIOUS
<1>2. handle' = [handle EXCEPT ![r] = answer]
  BY DEF Returns
<1>3. handle \in [Request -> [status : Answered, id : Request \cup {NoId, Malformed}]]
  BY DEF TradeInv, TradeTypes
<1> HIDE DEF answer
<1> QED
  BY <1>1, <1>2, <1>3

\* PlaceWithoutToken
LEMMA PlaceWithoutTokenStep ==
    ASSUME TradeInv, NEW r \in Request, PlaceWithoutToken(r) PROVE TradeInv'
<1>1. /\ handle' \in [Request -> [status : Answered, id : Request \cup {NoId, Malformed}]]
      /\ \A q \in Request : handle'[q].status = "none" => handle[q].status = "none"
  BY ReturnsTyped DEF PlaceWithoutToken, Answered
<1>2. TradeTypes' /\ PlacedOnly'
  BY <1>1 DEF PlaceWithoutToken, TradeInv, TradeTypes, PlacedOnly
<1> QED
  BY <1>2, NotDecided DEF PlaceWithoutToken

\* PlaceOrder: the answers a placement can get.
LEMMA PlacementAnswers ==
    ASSUME TradeInv, NEW r \in Request, PlaceOrder(r)
    PROVE  \/ \E id \in Request \cup {NoId, Malformed} : Returns(r, "submitted", id)
           \/ Returns(r, "raised", NoId)
<1>1. \A resp \in Answers(r) \cup {Body("text", r)} : OrderId(resp) = r
  BY DEF Answers, Body, OrderId
<1>2. OrderId(ErrorBody) = NoId /\ OrderId(Body("text", Malformed)) = Malformed
  BY DEF ErrorBody, Body, OrderId
<1> QED
  BY <1>1, <1>2 DEF PlaceOrder, PlacingFails

\* PlaceOrder
LEMMA PlaceOrderStep ==
    ASSUME TradeInv, NEW r \in Request, PlaceOrder(r) PROVE TradeInv'
<1>1. /\ handle' \in [Request -> [status : Answered, id : Request \cup {NoId, Malformed}]]
      /\ \A q \in Request : handle'[q].status = "none" => q # r /\ handle[q].status = "none"
  BY PlacementAnswers, ReturnsTyped DEF Answered
<1>2. exchange[r] = "none"
  BY DEF TradeInv, PlacedOnly, PlaceOrder
<1>3. \/ exchange' = exchange
      \/ \E s \in States \ {"complete"} : exchange' = [exchange EXCEPT ![r] = s]
  BY DEF PlaceOrder, States, Working
<1>4. UNCHANGED <<view, book, positions, report, samples>>
  BY DEF PlaceOrder
<1>5. TradeTypes' /\ PlacedOnly'
  BY <1>1, <1>2, <1>3, <1>4 DEF TradeInv, TradeTypes, PlacedOnly
<1> QED
  BY <1>2, <1>3, <1>4, <1>5, NotDecided DEF Final

\* ModifyOrder
LEMMA ModifyOrderStep ==
    ASSUME TradeInv, NEW r \in Request, ModifyOrder(r) PROVE TradeInv'
<1>1. /\ handle' \in [Request -> [status : Answered, id : Request \cup {NoId, Malformed}]]
      /\ \A q \in Request : handle'[q].status = "none" => q # r /\ handle[q].status = "none"
  <2>1. handle[r].id \in Request \cup {NoId, Malformed}
    BY DEF TradeInv, TradeTypes
  <2> QED
    BY <2>1, ReturnsTyped DEF ModifyOrder, Answered
<1>2. \/ exchange' = exchange
      \/ exchange[r] \notin Final /\ exchange' = [exchange EXCEPT ![r] = "modified"]
  BY DEF ModifyOrder, Reaches, Working, Final
<1>3. UNCHANGED <<view, book, positions, report, samples>>
  BY DEF ModifyOrder
<1>4. "modified" \in States \ {"complete"}
  BY DEF States, Working
<1>5. TradeTypes' /\ PlacedOnly'
  BY <1>1, <1>2, <1>3, <1>4 DEF TradeInv, TradeTypes, PlacedOnly
<1> QED
  BY <1>2, <1>3, <1>4, <1>5, NotDecided

\* CancelOrder
LEMMA CancelOrderStep ==
    ASSUME TradeInv, NEW r \in Request, CancelOrder(r) PROVE TradeInv'
<1>1. /\ handle' \in [Request -> [status : Answered, id : Request \cup {NoId, Malformed}]]
      /\ \A q \in Request : handle'[q].status = "none" => q # r /\ handle[q].status = "none"
  <2>1. handle[r].id \in Request \cup {NoId, Malformed}
    BY DEF TradeInv, TradeTypes
  <2> QED
    BY <2>1, ReturnsTyped DEF CancelOrder, Answered
<1>2. \/ exchange' = exchange
      \/ exchange[r] \notin Final /\ exchange' = [exchange EXCEPT ![r] = "cancelled"]
  BY DEF CancelOrder, Reaches, Working, Final
<1>3. UNCHANGED <<view, book, positions, report, samples>>
  BY DEF CancelOrder
<1>4. "cancelled" \in States \ {"complete"}
  BY DEF States
<1>5. TradeTypes' /\ PlacedOnly'
  BY <1>1, <1>2, <1>3, <1>4 DEF TradeInv, TradeTypes, PlacedOnly
<1> QED
  BY <1>2, <1>3, <1>4, <1>5, NotDecided

\* ExchangeOpens and ExchangeRejects
LEMMA ExchangeDecidesStep ==
    ASSUME TradeInv, NEW r \in Request, ExchangeOpens(r) \/ ExchangeRejects(r) PROVE TradeInv'
<1>1. PICK s \in {"open", "rejected"} : exchange' = [exchange EXCEPT ![r] = s]
  BY DEF ExchangeOpens, ExchangeRejects
<1>2. exchange[r] \in Working /\ UNCHANGED <<handle, view, book, positions, report, samples>>
  BY DEF ExchangeOpens, ExchangeRejects
<1>3. s \in States \ {"complete"} /\ exchange[r] \notin Final /\ exchange[r] # "none"
  BY <1>2 DEF States, Working, Final
<1>4. TradeTypes' /\ PlacedOnly'
  BY <1>1, <1>2, <1>3 DEF TradeInv, TradeTypes, PlacedOnly
<1> QED
  BY <1>1, <1>2, <1>3, <1>4, NotDecided

\* ExchangeExecutes
LEMMA ExchangeExecutesStep ==
    ASSUME TradeInv, NEW r \in Request, ExchangeExecutes(r) PROVE TradeInv'
<1>1. /\ exchange[r] = "open" /\ exchange' = [exchange EXCEPT ![r] = "complete"]
      /\ UNCHANGED <<handle, view, book, report, samples>>
  BY DEF ExchangeExecutes
<1>2. TradingSymbol(r) \in Sym /\ SignedQty(r) \in Int
  BY TraderAssumption
<1>3. /\ Completed \in SUBSET Request /\ r \notin Completed /\ Completed' = Completed \cup {r}
      /\ Completed' \in SUBSET Request
  BY <1>1 DEF TradeInv, TradeTypes, Completed
<1>4. \A s : Get(positions, s) \in Int
  BY DEF TradeInv, TradeTypes, Get
<1>5. /\ \A s \in DOMAIN positions' : s \in Sym /\ positions'[s] \in Int
      /\ \A s \in Sym : Get(positions', s) =
             Get(positions, s) + (IF s = TradingSymbol(r) THEN SignedQty(r) ELSE 0)
  <2>1. positions' = [s \in DOMAIN positions \cup {TradingSymbol(r)} |->
             Get(positions, s) + (IF s = TradingSymbol(r) THEN SignedQty(r) ELSE 0)]
    BY DEF ExchangeExecutes
  <2>2. \A s \in DOMAIN positions \cup {TradingSymbol(r)} : s \in Sym
    BY <1>2 DEF TradeInv, TradeTypes
  <2>3. \A s \in Sym \ (DOMAIN positions \cup {TradingSymbol(r)}) : Get(positions, s) = 0
    BY DEF Get
  <2>4. DOMAIN positions' = DOMAIN positions \cup {TradingSymbol(r)}
    BY <2>1
  <2>5. \A s \in DOMAIN positions' : positions'[s] =
             Get(positions, s) + (IF s = TradingSymbol(r) THEN SignedQty(r) ELSE 0)
    BY <2>1
  <2>6. \A s \in DOMAIN positions' : s \in Sym /\ positions'[s] \in Int
    BY <1>2, <1>4, <2>2, <2>4, <2>5
  <2>7. ASSUME NEW s \in Sym
        PROVE  Get(positions', s) =
                 Get(positions, s) + (IF s = TradingSymbol(r) THEN SignedQty(r) ELSE 0)
    <3>1. CASE s \in DOMAIN positions'
      BY <2>5, <3>1 DEF Get
    <3>2. CASE s \notin DOMAIN positions'
      <4>1. Get(positions', s) = 0
        BY <3>2 DEF Get
      <4> QED
        BY <2>3, <2>4, <3>2, <4>1
    <3> QED
      BY <3>1, <3>2
  <2> QED
    BY <2>6, <2>7
<1>6. PositionsAddUp'
  <2> SUFFICES ASSUME NEW s \in Sym PROVE Get(positions', s) = NetQty(Completed', s)
    BY DEF PositionsAddUp
  <2>1. PICK R, Q : R = Completed /\ Q = Completed'
    OBVIOUS
  <2>2. NetQty(Q, s) = NetQty(R, s) + (IF s = TradingSymbol(r) THEN SignedQty(r) ELSE 0)
    <3>1. R \in SUBSET Request /\ r \notin R /\ Q = R \cup {r}
      BY <1>3, <2>1
    <3> QED
      BY ONLY <3>1, r \in Request, NetGrows
  <2>3. Get(positions, s) = NetQty(R, s)
    BY <2>1 DEF TradeInv, PositionsAddUp
  <2> QED
    BY <1>5, <2>1, <2>2, <2>3
<1>7. TradeTypes' /\ PlacedOnly'
  <2>1. exchange' \in [Request -> States]
    BY <1>1 DEF TradeInv, TradeTypes, States
  <2>2. \A q \in Request : exchange[q] = "none" => exchange'[q] = "none"
    BY <1>1 DEF TradeInv, TradeTypes
  <2> QED
    BY <1>1, <1>5, <2>1, <2>2 DEF TradeInv, TradeTypes, PlacedOnly
<1>8. ViewTellsTheTruth'
  <2>1. ASSUME NEW q \in Request, view[q] \in {"filled", "rejected", "cancelled"}
        PROVE  view[q] = StatusMap(exchange'[q])
    <3>1. view[q] = StatusMap(exchange[q])
      BY <2>1 DEF TradeInv, ViewTellsTheTruth
    <3>2. exchange[q] \in Final
      BY <2>1, <3>1, FinalStatuses DEF TradeInv, TradeTypes
    <3>3. exchange'[q] = exchange[q]
      BY <1>1, <3>2 DEF TradeInv, TradeTypes, Final
    <3> QED
      BY <3>1, <3>3
  <2> QED
    BY <1>1, <1>3, <2>1 DEF TradeInv, ViewTellsTheTruth
<1> QED
  BY <1>1, <1>6, <1>7, <1>8, RecordsKept DEF TradeInv

\* ReadOrders: an order book read lists the orders on the exchange, or nothing.
LEMMA ReadBooks ==
    ASSUME TradeInv, ReadOrders
    PROVE  \A r \in Request : view'[r] \in {"filled", "rejected", "cancelled"} =>
              view'[r] = StatusMap(exchange[r])
<1>1. CASE view' = Listed(Rows(ErrorBody))
  <2>1. \A r \in Request : view'[r] = "absent"
    BY <1>1 DEF Listed, Rows, ErrorBody, Body, Empty
  <2> QED
    BY <2>1
<1>2. CASE \E resp \in Answers([r \in {s \in Request : exchange[s] # "none"} |-> exchange[r]]) :
              view' = Listed(Rows(resp))
  <2>1. PICK rows : rows = [r \in {s \in Request : exchange[s] # "none"} |-> exchange[r]]
    OBVIOUS
  <2>2. view' = Listed(rows)
    BY <1>2, <2>1 DEF Answers, Body, Rows
  <2>3. \A r \in Request : view'[r] \in {"absent", StatusMap(exchange[r])}
    BY <2>1, <2>2 DEF Listed
  <2> QED
    BY <2>3
<1> QED
  BY <1>1, <1>2 DEF ReadOrders

\* ReadOrders
LEMMA ReadOrdersStep == ASSUME TradeInv, ReadOrders PROVE TradeInv'
<1>1. UNCHANGED <<exchange, handle, positions, report>>
  BY DEF ReadOrders
<1>2. PICK new : new = {r \in Request : view'[r] = "filled"} \ book
  OBVIOUS
<1>3. /\ book' = book \cup new
      /\ \E price \in [{r \in new : Expected(r) > 0} -> FillPrices] :
            samples' = [r \in DOMAIN samples \cup DOMAIN price |->
                          IF r \in DOMAIN samples THEN samples[r]
                          ELSE [bps |-> Slippage(r, price[r]), price |-> price[r]]]
  BY <1>2 DEF ReadOrders
<1>4. Completed' = Completed
  BY <1>1 DEF Completed
<1>5. ViewTellsTheTruth'
  <2>1. \A r \in new : r \in Completed
    <3> SUFFICES ASSUME NEW r \in new PROVE r \in Completed
      OBVIOUS
    <3>1. r \in Request /\ StatusMap(exchange[r]) = "filled"
      BY <1>2, ReadBooks
    <3>2. exchange[r] = "complete"
      BY <3>1, FinalStatuses DEF TradeInv, TradeTypes
    <3> QED
      BY <3>1, <3>2 DEF Completed
  <2> QED
    BY <1>1, <1>3, <1>4, <2>1, ReadBooks DEF TradeInv, ViewTellsTheTruth
<1>6. ASSUME NEW r \in DOMAIN samples' PROVE SampleOK(r)'
  <2>1. PICK price \in [{q \in new : Expected(q) > 0} -> FillPrices] :
            samples' = [q \in DOMAIN samples \cup DOMAIN price |->
                          IF q \in DOMAIN samples THEN samples[q]
                          ELSE [bps |-> Slippage(q, price[q]), price |-> price[q]]]
    BY <1>3
  <2>2. CASE r \in DOMAIN samples
    <3>1. samples'[r] = samples[r]
      BY <2>1, <2>2
    <3>2. SampleOK(r)
      BY <2>2 DEF TradeInv
    <3> QED
      BY <1>3, <3>1, <3>2 DEF SampleOK
  <2>3. CASE r \notin DOMAIN samples
    <3>1. r \in new /\ Expected(r) > 0 /\ price[r] \in FillPrices
      BY <2>1, <2>3
    <3>2. samples'[r] = Sample(r, price[r])
      BY <2>1, <2>3 DEF Sample
    <3> QED
      BY <1>3, <3>1, <3>2 DEF SampleOK
  <2> QED
    BY <2>2, <2>3
<1>7. TradeTypes' /\ PlacedOnly' /\ PositionsAddUp' /\ ReportMatchesFills'
  <2>1. TradeTypes' /\ PlacedOnly'
    BY <1>1 DEF TradeInv, TradeTypes, PlacedOnly
  <2>2. PositionsAddUp'
    BY <1>1, <1>4 DEF TradeInv, PositionsAddUp
  <2>3. ReportMatchesFills'
    BY <1>1 DEF TradeInv, ReportMatchesFills
  <2> QED
    BY <2>1, <2>2, <2>3
<1> QED
  BY <1>5, <1>6, <1>7 DEF TradeInv

\* The book's side of a reconciliation: a symbol without an order counts 0.
LEMMA BookedNet ==
    ASSUME TradeInv
    PROVE  DOMAIN Booked \subseteq Sym /\ \A s : Get(Booked, s) = NetQty(book, s)
<1>1. book \in SUBSET Request
  BY DEF TradeInv, ViewTellsTheTruth, Completed
<1>2. DOMAIN Booked = {TradingSymbol(r) : r \in book}
  BY DEF Booked
<1>3. DOMAIN Booked \subseteq Sym
  BY <1>1, <1>2, TraderAssumption
<1>4. ASSUME NEW s PROVE Get(Booked, s) = NetQty(book, s)
  <2>1. CASE s \in DOMAIN Booked
    BY <2>1 DEF Booked, Get
  <2>2. CASE s \notin DOMAIN Booked
    <3>1. Of(book, s) = {}
      BY <1>2, <2>2 DEF Of
    <3>2. NetQty(book, s) = 0
      <4>1. PICK R : R = book
        OBVIOUS
      <4>2. R \in SUBSET Request /\ Of(R, s) = {}
        BY <1>1, <3>1, <4>1
      <4>3. NetQty(R, s) = 0
        BY <4>2, NetOfNone
      <4> QED
        BY <4>1, <4>3
    <3> QED
      BY <2>2, <3>2 DEF Get
  <2> QED
    BY <2>1, <2>2
<1> QED
  BY <1>3, <1>4

\* ReconcileOk compares the two sides for every symbol, also those of neither.
LEMMA ComparesAll ==
    ASSUME NEW f, NEW g, DOMAIN f \subseteq Sym, DOMAIN g \subseteq Sym
    PROVE  ReconcileOk(f, g) <=> \A s \in Sym : Get(f, s) = Get(g, s)
<1>1. \A s : s \notin DOMAIN f \cup DOMAIN g => Get(f, s) = Get(g, s)
  BY DEF Get
<1> QED
  BY <1>1 DEF ReconcileOk

\* Reconcile: what the report says, of what it was read from.
LEMMA ReconcileReports ==
    ASSUME TradeInv, Reconcile
    PROVE  \/ \E broker :
                 /\ DOMAIN broker = DOMAIN positions
                 /\ \A s : Get(broker, s) = Get(positions, s)
                 /\ report' = [ok |-> ReconcileOk(broker, Booked), read |-> "answer",
                               held |-> Completed, booked |-> book]
           \/ \E broker :
                 /\ DOMAIN broker = {}
                 /\ report' = [ok |-> ReconcileOk(broker, Booked), read |-> "error",
                               held |-> Completed, booked |-> book]
           \/ report'.read = "malformed"
<1>1. ASSUME NEW resp \in Answers(positions), Reports(resp, "answer")
      PROVE  \E broker : /\ DOMAIN broker = DOMAIN positions
                         /\ \A s : Get(broker, s) = Get(positions, s)
                         /\ report' = [ok |-> ReconcileOk(broker, Booked), read |-> "answer",
                                       held |-> Completed, booked |-> book]
  <2>1. Rows(resp) = positions
    BY DEF Answers, Body, Rows
  <2>2. PICK broker : broker = [s \in DOMAIN positions |-> Number(positions[s])]
    OBVIOUS
  <2>3. \A s \in DOMAIN positions : Number(positions[s]) = positions[s]
    BY TraderAssumption DEF Number, TradeInv, TradeTypes
  <2>4. DOMAIN broker = DOMAIN positions /\ \A s : Get(broker, s) = Get(positions, s)
    BY <2>2, <2>3 DEF Get
  <2>5. report' = [ok |-> ReconcileOk(broker, Booked), read |-> "answer",
                   held |-> Completed, booked |-> book]
    BY <1>1, <2>1, <2>2 DEF Reports
  <2> QED
    BY <2>4, <2>5
<1>2. ASSUME Reports(ErrorBody, "error")
      PROVE  \E broker : /\ DOMAIN broker = {}
                         /\ report' = [ok |-> ReconcileOk(broker, Booked), read |-> "error",
                                       held |-> Completed, booked |-> book]
  <2>1. PICK broker : broker = [s \in DOMAIN Rows(ErrorBody) |-> Number(Rows(ErrorBody)[s])]
    OBVIOUS
  <2>2. DOMAIN Rows(ErrorBody) = {}
    BY DEF Rows, ErrorBody, Body, Empty
  <2>3. report' = [ok |-> ReconcileOk(broker, Booked), read |-> "error",
                   held |-> Completed, booked |-> book]
    BY <1>2, <2>1 DEF Reports
  <2> QED
    BY <2>1, <2>2, <2>3
<1>3. ASSUME NEW resp, Reports(resp, "malformed") PROVE report'.read = "malformed"
  BY <1>3 DEF Reports
<1> QED
  BY <1>1, <1>2, <1>3 DEF Reconcile

\* Reconcile: the report is right about the orders that it was made of.
LEMMA ReportIsRight == ASSUME TradeInv, Reconcile PROVE ReportMatchesFills'
<1>1. DOMAIN positions \subseteq Sym
  BY DEF TradeInv, TradeTypes
<1>2. PICK booked : booked = Booked
  OBVIOUS
<1>3. DOMAIN booked \subseteq Sym /\ \A s : Get(booked, s) = NetQty(book, s)
  BY <1>2, BookedNet
<1>4. CASE \E broker :
              /\ DOMAIN broker = DOMAIN positions
              /\ \A s : Get(broker, s) = Get(positions, s)
              /\ report' = [ok |-> ReconcileOk(broker, Booked), read |-> "answer",
                            held |-> Completed, booked |-> book]
  <2>1. PICK broker : /\ DOMAIN broker = DOMAIN positions
                      /\ \A s : Get(broker, s) = Get(positions, s)
                      /\ report' = [ok |-> ReconcileOk(broker, Booked), read |-> "answer",
                                    held |-> Completed, booked |-> book]
    BY <1>4
  <2>2. ReconcileOk(broker, booked) <=> \A s \in Sym : Get(broker, s) = Get(booked, s)
    BY <1>1, <1>3, <2>1, ComparesAll
  <2>3. \A s \in Sym : Get(broker, s) = NetQty(Completed, s)
    BY <2>1 DEF TradeInv, PositionsAddUp
  <2>4. ReconcileOk(broker, booked) <=>
          \A s \in Sym : NetQty(Completed, s) = NetQty(book, s)
    BY <1>3, <2>2, <2>3
  <2>5. /\ report'.read = "answer" /\ report'.held = Completed /\ report'.booked = book
        /\ report'.ok = ReconcileOk(broker, booked)
    BY <1>2, <2>1
  <2>6. ReportMatchesFills'
    BY <2>4, <2>5 DEF ReportMatchesFills
  <2> QED
    BY <2>6
<1>5. CASE \E broker :
              /\ DOMAIN broker = {}
              /\ report' = [ok |-> ReconcileOk(broker, Booked), read |-> "error",
                            held |-> Completed, booked |-> book]
  <2>1. PICK broker : /\ DOMAIN broker = {}
                      /\ report' = [ok |-> ReconcileOk(broker, Booked), read |-> "error",
                                    held |-> Completed, booked |-> book]
    BY <1>5
  <2>2. ReconcileOk(broker, booked) <=> \A s \in Sym : Get(broker, s) = Get(booked, s)
    BY <1>3, <2>1, ComparesAll
  <2>3. \A s : Get(broker, s) = 0
    BY <2>1 DEF Get
  <2>4. \A s : NetQty({}, s) = 0
    <3> SUFFICES ASSUME NEW s PROVE NetQty({}, s) = 0
      OBVIOUS
    <3>1. Of({}, s) = {}
      BY DEF Of
    <3> QED
      BY <3>1, NetOfNone
  <2>5. ReconcileOk(broker, booked) <=> \A s \in Sym : NetQty({}, s) = NetQty(book, s)
    BY <1>3, <2>2, <2>3, <2>4
  <2>6. /\ report'.read = "error" /\ report'.booked = book
        /\ report'.ok = ReconcileOk(broker, booked)
    BY <1>2, <2>1
  <2> QED
    BY <2>5, <2>6 DEF ReportMatchesFills
<1>6. CASE report'.read = "malformed"
  BY <1>6 DEF ReportMatchesFills
<1> QED
  BY <1>4, <1>5, <1>6, ReconcileReports

\* Reconcile
LEMMA ReconcileStep == ASSUME TradeInv, Reconcile PROVE TradeInv'
<1>1. UNCHANGED <<exchange, handle, view, book, positions, samples>>
  BY DEF Reconcile
<1>2. Completed' = Completed
  BY <1>1 DEF Completed
<1>3. TradeTypes' /\ PlacedOnly' /\ PositionsAddUp'
  BY <1>1, <1>2 DEF TradeInv, TradeTypes, PlacedOnly, PositionsAddUp
<1>4. ViewTellsTheTruth' /\ \A r \in DOMAIN samples' : SampleOK(r)'
  BY <1>1, <1>2 DEF TradeInv, ViewTellsTheTruth, SampleOK
<1> QED
  BY <1>3, <1>4, ReportIsRight DEF TradeInv

\* Every step keeps the invariant.
LEMMA TradeStep == TradeInv /\ [Next]_vars => TradeInv'
<1> SUFFICES ASSUME TradeInv, [Next]_vars PROVE TradeInv'
  OBVIOUS
<1>1. ASSUME NEW r \in Request,
             \/ PlaceWithoutToken(r) \/ PlaceOrder(r) \/ ModifyOrder(r) \/ CancelOrder(r)
             \/ ExchangeOpens(r) \/ ExchangeExecutes(r) \/ ExchangeRejects(r)
      PROVE  TradeInv'
  BY <1>1, PlaceWithoutTokenStep, PlaceOrderStep, ModifyOrderStep, CancelOrderStep,
     ExchangeDecidesStep, ExchangeExecutesStep
<1>2. CASE ReadOrders
  BY <1>2, ReadOrdersStep
<1>3. CASE Reconcile
  BY <1>3, ReconcileStep
<1>4. CASE UNCHANGED vars
  <2>1. UNCHANGED <<exchange, handle, view, book, positions, report, samples>>
    BY <1>4 DEF vars
  <2>2. TradeTypes' /\ PlacedOnly'
    BY <2>1 DEF TradeInv, TradeTypes, PlacedOnly
  <2> QED
    BY <2>1, <2>2, NotDecided
<1> QED
  BY <1>1, <1>2, <1>3, <1>4 DEF Next

-----------------------------------------------------------------------------
(***************************************************************************)
(* The monitor.                                                            *)
(***************************************************************************)
\* A positive factor keeps the order of two numbers.
LEMMA Scaled ==
    ASSUME NEW a \in Int, NEW b \in Int, NEW k \in Int, k > 0, a > b
    PROVE  a * k > b * k
<1>1. (a - b) * k > 0
  OBVIOUS
<1>2. (a - b) * k = a * k - b * k
  OBVIOUS
<1> QED
  BY <1>1, <1>2

\* A quotient of whole numbers above t comes from a dividend above t times the divisor.
LEMMA QuotientAbove ==
    ASSUME NEW a \in Int, NEW b \in Nat, b > 0, NEW t \in Int, a \div b > t
    PROVE  a > t * b
OBVIOUS

\* A sample above the threshold is a fill worse than expected by more than it.
LEMMA AdverseSample ==
    ASSUME NEW r \in Request, Expected(r) > 0, NEW price \in FillPrices,
           Slippage(r, price) > ThresholdBps
    PROVE  LET loss == SignedQty(r) * (price - Expected(r))
               size == IF SignedQty(r) > 0 THEN SignedQty(r) ELSE -SignedQty(r)
           IN loss * 10000 > ThresholdBps * Expected(r) * size
<1> DEFINE diff == IF SignedQty(r) > 0 THEN price - Expected(r) ELSE Expected(r) - price
           size == IF SignedQty(r) > 0 THEN SignedQty(r) ELSE -SignedQty(r)
           loss == SignedQty(r) * (price - Expected(r))
<1>1. PICK q \in Int, e \in Nat, p \in Int, t \in Int :
         q = SignedQty(r) /\ e = Expected(r) /\ p = price /\ t = ThresholdBps /\ q # 0 /\ e > 0
  BY TraderAssumption
<1>2. diff \in Int /\ size \in Int /\ size > 0
  BY <1>1
<1>3. loss = diff * size
  <2>1. CASE q > 0
    BY <1>1, <2>1
  <2>2. CASE ~(q > 0)
    <3>1. q * (p - e) = (e - p) * (-q)
      OBVIOUS
    <3> QED
      BY <1>1, <2>2, <3>1
  <2> QED
    BY <2>1, <2>2
<1>4. (diff * 10000) \div e > t
  BY <1>1 DEF Slippage
<1> HIDE DEF diff, size, loss
<1>5. diff * 10000 > t * e
  <2>1. PICK a \in Int : a = diff * 10000
    BY <1>2
  <2>2. a > t * e
    BY ONLY <1>1, <1>4, <2>1, QuotientAbove, SMT
  <2> QED
    BY <2>1, <2>2
<1>6. (diff * 10000) * size > (t * e) * size
  <2>1. PICK a \in Int, b \in Int : a = diff * 10000 /\ b = t * e
    BY <1>1, <1>2
  <2>2. a > b
    BY <1>5, <2>1
  <2>3. a * size > b * size
    BY ONLY <1>2, <2>2, Scaled, SMT
  <2> QED
    BY <2>1, <2>3
<1>7. (diff * 10000) * size = loss * 10000
  BY <1>2, <1>3
<1>8. loss * 10000 > (t * e) * size
  BY <1>6, <1>7
<1>9. loss * 10000 > ThresholdBps * Expected(r) * size
  BY <1>1, <1>8
<1> QED
  BY <1>9 DEF loss, size

\* The monitor's total is the sum of its samples.
LEMMA SamplesSum ==
    ASSUME NEW f, NEW S, IsFiniteSet(S)
    PROVE  MapThenSumSet(LAMBDA r : f[r].bps, S) = SumOf([r \in S |-> f[r].bps], S)
<1> DEFINE F == [r \in S |-> f[r].bps]
           Is(i) == i = [U \in SUBSET S |->
                           IF U = {} THEN 0 ELSE f[Pick(U)].bps + i[U \ {Pick(U)}]]
           it == CHOOSE i : Is(i)
<1>1. ASSUME NEW i PROVE IsSum(i, F, S) <=> Is(i)
  <2>1. \A U \in SUBSET S : U # {} => F[Pick(U)] = f[Pick(U)].bps
    BY PickIn
  <2> HIDE DEF F
  <2> QED
    BY <2>1 DEF IsSum
<1>2. Is(it)
  <2>1. PICK i : Is(i)
    BY <1>1, SumsExist
  <2> HIDE DEF Is
  <2> QED
    BY <2>1, Zenon
<1>3. MapThenSumSet(LAMBDA r : f[r].bps, S) = it[S]
  BY DEF MapThenSumSet, MapThenFoldSet, Pick
<1>4. IsSum(it, F, S)
  BY <1>1, <1>2
<1>5. it[S] = SumOf(F, S)
  <2> HIDE DEF it, F
  <2> QED
    BY <1>4, SumIs
<1> QED
  BY <1>3, <1>5

\* A mean above the threshold has a sample above it.
LEMMA FlaggedHasASample ==
    ASSUME TradeInv, Flagged
    PROVE  \E r \in DOMAIN samples : samples[r].bps > ThresholdBps
<1> SUFFICES ASSUME \A r \in DOMAIN samples : ~(samples[r].bps > ThresholdBps) PROVE FALSE
  OBVIOUS
<1>1. PICK f, S : f = samples /\ S = DOMAIN samples
  OBVIOUS
<1>2. IsFiniteSet(S)
  <2>1. S \subseteq Request
    BY <1>1 DEF TradeInv, SampleOK, ViewTellsTheTruth, Completed
  <2> QED
    BY <2>1, FS_Subset, TraderAssumption
<1>3. \A r \in S : f[r].bps \in Int /\ f[r].bps <= ThresholdBps
  <2> SUFFICES ASSUME NEW r \in S PROVE f[r].bps \in Int /\ f[r].bps <= ThresholdBps
    OBVIOUS
  <2>1. SampleOK(r) /\ r \in Request
    BY <1>1 DEF TradeInv, SampleOK, ViewTellsTheTruth, Completed
  <2>2. PICK price \in FillPrices : f[r] = Sample(r, price)
    BY <1>1, <2>1 DEF SampleOK
  <2>3. f[r].bps = Slippage(r, price)
    BY <2>2 DEF Sample
  <2>4. price \in Int /\ Expected(r) \in Nat /\ Expected(r) > 0
    BY <2>1, TraderAssumption DEF SampleOK
  <2>5. Slippage(r, price) \in Int
    BY <2>4 DEF Slippage
  <2>6. ~(f[r].bps > ThresholdBps)
    BY <1>1
  <2> QED
    BY <2>3, <2>5, <2>6, TraderAssumption
<1>4. PICK F : F = [r \in S |-> f[r].bps]
  OBVIOUS
<1>5. \A r \in S : F[r] \in Int /\ F[r] <= ThresholdBps
  BY <1>3, <1>4
<1>6. SumOf(F, S) <= ThresholdBps * Cardinality(S)
  BY <1>2, <1>5, TraderAssumption, SumBound
<1>7. SumOf(F, S) > ThresholdBps * Cardinality(S)
  <2>1. MapThenSumSet(LAMBDA r : f[r].bps, S) > ThresholdBps * Cardinality(S)
    BY <1>1 DEF Flagged
  <2>2. MapThenSumSet(LAMBDA r : f[r].bps, S) = SumOf(F, S)
    BY <1>2, <1>4, SamplesSum
  <2> QED
    BY <2>1, <2>2
<1>8. SumOf(F, S) \in Int /\ ThresholdBps * Cardinality(S) \in Int
  <2>1. SumOf(F, S) \in Int
    BY <1>2, <1>5, SumType
  <2>2. PICK n \in Nat : n = Cardinality(S)
    BY <1>2, FS_CardinalityType
  <2> QED
    BY <2>1, <2>2, TraderAssumption
<1> QED
  BY <1>6, <1>7, <1>8

\* SlippageMonitor.report
LEMMA FlaggedIsAdverse == TradeInv => FlaggedMeansAdverse
<1> SUFFICES ASSUME TradeInv, Flagged
             PROVE  \E r \in book \cap DOMAIN samples :
                      LET loss == SignedQty(r) * (samples[r].price - Expected(r))
                          size == IF SignedQty(r) > 0 THEN SignedQty(r) ELSE -SignedQty(r)
                      IN loss * 10000 > ThresholdBps * Expected(r) * size
  BY DEF FlaggedMeansAdverse
<1>1. PICK r \in DOMAIN samples : samples[r].bps > ThresholdBps
  BY FlaggedHasASample
<1>2. r \in book /\ r \in Request /\ Expected(r) > 0
  BY DEF TradeInv, SampleOK, ViewTellsTheTruth, Completed
<1>3. PICK price \in FillPrices : samples[r] = Sample(r, price)
  BY DEF TradeInv, SampleOK
<1>4. samples[r].price = price /\ Slippage(r, price) > ThresholdBps
  BY <1>1, <1>3 DEF Sample
<1>5. LET loss == SignedQty(r) * (price - Expected(r))
          size == IF SignedQty(r) > 0 THEN SignedQty(r) ELSE -SignedQty(r)
      IN loss * 10000 > ThresholdBps * Expected(r) * size
  BY <1>2, <1>4, AdverseSample
<1>6. LET loss == SignedQty(r) * (samples[r].price - Expected(r))
          size == IF SignedQty(r) > 0 THEN SignedQty(r) ELSE -SignedQty(r)
      IN loss * 10000 > ThresholdBps * Expected(r) * size
  BY <1>4, <1>5
<1> QED
  BY <1>2, <1>6

-----------------------------------------------------------------------------
\* TradeInv is inductive.
LEMMA TradesAreSound == Spec => []TradeInv
<1>1. Init => TradeInv
  BY TradeInit
<1>2. TradeInv /\ [Next]_vars => TradeInv'
  BY TradeStep
<1> QED
  BY <1>1, <1>2, PTL DEF Spec

\* What an order book read calls filled, rejected or cancelled is that at the
\* exchange for good, and only what executed is booked, whatever got lost.
THEOREM FinalIsFinal == Spec => []ViewTellsTheTruth
<1>1. TradeInv => ViewTellsTheTruth
  BY DEF TradeInv
<1> QED
  BY <1>1, TradesAreSound, PTL

\* A reconciliation that got an answer is ok exactly if what the exchange executed
\* and what the trader booked add up alike for every symbol, for any number of
\* requests and any quantities; one that got an error body only if the book is flat.
THEOREM ReportsAreRight == Spec => []ReportMatchesFills
<1>1. TradeInv => ReportMatchesFills
  BY DEF TradeInv
<1> QED
  BY <1>1, TradesAreSound, PTL

\* The slippage monitor is flagged only after a booked fill that was worse for the
\* trader than expected by more than the threshold, on either side of the market.
THEOREM FlagsAreDeserved == Spec => []FlaggedMeansAdverse
<1>1. TradeInv => FlaggedMeansAdverse
  BY FlaggedIsAdverse
<1> QED
  BY <1>1, TradesAreSound, PTL
=============================================================================
