SPECIFICATION Spec
CONSTANTS
  Receivers = {r1, r2}
  Stake = 2
  MaxMoves = 3
INVARIANTS TypeOK EachAtSomeMoment
