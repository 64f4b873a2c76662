------------------------------ MODULE MCEstimates ------------------------------
EXTENDS Estimates

\* Four bandwidth situations: both pools cover the transaction, one or the
\* other, or only both together. An account may have used more energy than it has.
SmallValues == [p \in Parts |->
  CASE p = "NetUsed" -> {0, 2}
    [] p = "FreeNetUsed" -> {2, 4}
    [] p = "EnergyLeft" -> {-1, 2}
    [] p = "OriginEnergyLeft" -> {-1, 1, 9}
    [] p = "Percent" -> {40, 100}
    [] p = "EnergyFee" -> {2, 3}]
=============================================================================
