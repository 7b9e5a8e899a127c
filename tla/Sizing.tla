------------------------------- MODULE Sizing -------------------------------
(***************************************************************************)
(* Limits on target weights: engine/risk/position_sizing.py.  Weights are  *)
(* whole units of the smallest weight; a scaled weight is rounded towards  *)
(* zero.                                                                   *)
(***************************************************************************)
EXTENDS Integers, FiniteSets, FiniteSetsExt

CONSTANTS
    Name,          \* symbols of the row
    Sector(_),     \* sector_map, NoSector for a symbol it lacks
    NoSector,
    RawWeights,    \* weights before the limits
    MaxPosition,   \* max_position_pct
    MaxSector      \* max_sector_pct

ASSUME SizingAssumption ==
    IsFiniteSet(Name) /\ RawWeights \subseteq Int /\ MaxPosition \in Nat /\ MaxSector \in Nat \ {0}

VARIABLE capped    \* [raw, w]: a row of weights before and after the limits

NoRow == [s \in Name |-> 0]
SizingInit == capped = [raw |-> NoRow, w |-> NoRow]

Clip(n) == IF n > MaxPosition THEN MaxPosition ELSE IF n < -MaxPosition THEN -MaxPosition ELSE n
Size(n) == IF n < 0 THEN -n ELSE n
Scaled(n, cap, gross) == IF n < 0 THEN -((Size(n) * cap) \div gross) ELSE (n * cap) \div gross

InSector(s) == {t \in Name : Sector(t) = Sector(s)}
GrossOf(w, S) == MapThenSumSet(LAMBDA t : Size(w[t]), S)

\* Mutant: long and short weights of a sector offset each other.
SectorGross_Net(w, s) == Size(MapThenSumSet(LAMBDA t : w[t], InSector(s)))

SectorGross(w, s) == GrossOf(w, InSector(s))

\* Each weight is clipped, then a sector over its limit is scaled to it.
ApplyPositionCaps(row) ==
    LET w == [s \in Name |-> Clip(row[s])]
    IN [s \in Name |->
          IF Sector(s) # NoSector /\ SectorGross(w, s) > MaxSector
          THEN Scaled(w[s], MaxSector, SectorGross(w, s)) ELSE w[s]]

\* RiskManager.cap_weights, row by row.
CapRow == \E raw \in [Name -> RawWeights] : capped' = [raw |-> raw, w |-> ApplyPositionCaps(raw)]

SizingSpec == SizingInit /\ [][CapRow]_capped

\* The limits hold together, long or short: no position and no sector exceeds
\* its limit, no position grows or changes sides, and a sector that is scaled
\* still uses its limit, up to the rounding of its members.
CapsHold ==
    LET w == capped.w
        clipped == [s \in Name |-> Clip(capped.raw[s])]
    IN \A s \in Name :
          /\ Size(w[s]) <= MaxPosition
          /\ Size(w[s]) <= Size(capped.raw[s]) /\ w[s] * capped.raw[s] >= 0
          /\ Sector(s) # NoSector =>
                /\ GrossOf(w, InSector(s)) <= MaxSector
                /\ GrossOf(clipped, InSector(s)) > MaxSector =>
                      GrossOf(w, InSector(s)) > MaxSector - Cardinality(InSector(s))
=============================================================================
