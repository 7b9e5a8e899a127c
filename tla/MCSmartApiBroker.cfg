CONSTANTS
    Request = {"r1", "r2", "r3", "r4"}
    Sym = {"infy", "tcs", "gold"}
    TradingSymbol <- MCTradingSymbol
    SignedQty <- MCSignedQty
    Tokens = {"infy", "tcs"}
    MaxFaults = 1
    Expected <- MCExpected
    FillPrices = {990, 1010}
    ThresholdBps = 20
    Malformed = Malformed
SPECIFICATION Spec
CHECK_DEADLOCK FALSE
INVARIANTS ViewTellsTheTruth ReportMatchesFills FlaggedMeansAdverse
