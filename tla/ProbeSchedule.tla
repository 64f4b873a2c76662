---------------------------- MODULE ProbeSchedule ----------------------------
(***************************************************************************)
(* The cadence of the health checker (pkg/client/health.go) on a discrete  *)
(* clock: HealthPool lets a timer fire at any moment, here every timer has *)
(* the length intervalFor gave it. In exchange probes and onStateChange    *)
(* take no time and are not interleaved (HealthPool shows that they        *)
(* converge); RPCs take any time, so that their outcomes may come after    *)
(* the node was evicted or its tier left. What remains is when each node   *)
(* is probed.                                                              *)
(***************************************************************************)
EXTENDS Integers

CONSTANTS
  N,                     \* number of configured nodes
  Tier,                  \* NodeConfig.Tier
  FailureThreshold, SuccessThreshold,
  HealthyInterval, UnhealthyInterval, InactiveTierInterval,  \* in ticks
  MaxCalls               \* bound of the model: RPCs in flight to a node

Nodes == 1..N
NoTier == -1

ASSUME ScheduleAssumption ==
  /\ N \in Nat \ {0}
  /\ Tier \in [Nodes -> Int]
  /\ FailureThreshold \in Nat \ {0}
  /\ SuccessThreshold \in Nat \ {0}
  /\ HealthyInterval \in Nat \ {0}
  /\ UnhealthyInterval \in Nat \ {0}
  /\ InactiveTierInterval \in Nat \ {0}
  /\ MaxCalls \in Nat

VARIABLES
  healthy, consecutiveSuccess, consecutiveFailure,
  activeTier,
  calls,       \* RPCs in flight to the node
  remaining,   \* ticks until the node's timer fires
  probed       \* the node probed by the last step, or 0

nodeVars == <<healthy, consecutiveSuccess, consecutiveFailure>>
vars == <<nodeVars, activeTier, calls, remaining, probed>>
-----------------------------------------------------------------------------
\* The tier onStateChange elects when h is the health of the nodes.
IsElected(t, h) ==
  \/ /\ \E n \in Nodes : h[n] /\ Tier[n] = t
     /\ \A n \in Nodes : h[n] => t <= Tier[n]
  \/ (\A n \in Nodes : ~h[n]) /\ t = NoTier

Elected(h) == CHOOSE t \in {Tier[n] : n \in Nodes} \cup {NoTier} : IsElected(t, h)

\* Mutant of IntervalFor: the tier is compared with the lowest configured one
\* instead of the active one.
IntervalForPrimary(n, isHealthy, active) ==
  IF ~isHealthy THEN UnhealthyInterval
  ELSE IF \A m \in Nodes : Tier[n] <= Tier[m] THEN HealthyInterval
  ELSE InactiveTierInterval

\* intervalFor, given the health of n and the active tier it reads.
IntervalFor(n, isHealthy, active) ==
  IF ~isHealthy THEN UnhealthyInterval
  ELSE IF Tier[n] = active THEN HealthyInterval
  ELSE InactiveTierInterval

Init ==
  /\ healthy = [n \in Nodes |-> TRUE]
  /\ consecutiveSuccess = [n \in Nodes |-> 0]
  /\ consecutiveFailure = [n \in Nodes |-> 0]
  /\ activeTier = Elected(healthy)
  /\ calls = [n \in Nodes |-> 0]
  /\ remaining = [n \in Nodes |-> IntervalFor(n, TRUE, activeTier)]
  /\ probed = 0

\* The runs saturate at their thresholds, past which nothing reads them.
Count(x, limit) == IF x < limit THEN x + 1 ELSE x

\* Mutant of Mark: a success does not end the run of failures.
MarkKeepsFailures(n, ok) ==
  /\ consecutiveSuccess' = [consecutiveSuccess EXCEPT
       ![n] = IF ok THEN Count(@, SuccessThreshold) ELSE 0]
  /\ consecutiveFailure' = [consecutiveFailure EXCEPT
       ![n] = IF ok THEN @ ELSE Count(@, FailureThreshold)]
  /\ healthy' = [healthy EXCEPT
       ![n] = IF ok THEN @ \/ consecutiveSuccess[n] + 1 >= SuccessThreshold
                    ELSE @ /\ consecutiveFailure[n] + 1 < FailureThreshold]

\* markSuccess (ok) or markFailure (~ok) on node n, up to the unlock of n.mu.
Mark(n, ok) ==
  /\ consecutiveSuccess' = [consecutiveSuccess EXCEPT
       ![n] = IF ok THEN Count(@, SuccessThreshold) ELSE 0]
  /\ consecutiveFailure' = [consecutiveFailure EXCEPT
       ![n] = IF ok THEN 0 ELSE Count(@, FailureThreshold)]
  /\ healthy' = [healthy EXCEPT
       ![n] = IF ok THEN @ \/ consecutiveSuccess[n] + 1 >= SuccessThreshold
                    ELSE @ /\ consecutiveFailure[n] + 1 < FailureThreshold]

\* Mutant of Rearmed: a tier shift wakes nobody.
RearmedNever(n) == FALSE

\* Mutant of Rearmed: every flip wakes the loops, also one that leaves the
\* active tier as it was.
RearmedOnFlip(n) == healthy' # healthy

\* The loop of n resets its timer: the tier shifted and n got a token.
Rearmed(n) == activeTier' # activeTier

\* onStateChange after the mark. The timers in reset are set anew whether or
\* not the tier shifted.
Publish(reset) ==
  /\ activeTier' = IF healthy' = healthy THEN activeTier ELSE Elected(healthy')
  /\ remaining' = [n \in Nodes |->
       IF n \in reset \/ Rearmed(n)
       THEN IntervalFor(n, healthy'[n], activeTier') ELSE remaining[n]]
-----------------------------------------------------------------------------
\* Mutant of MayPass: only one of the timers is waited for.
MayPassIfSome == \E n \in Nodes : remaining[n] > 0

\* No timer is due.
MayPass == \A n \in Nodes : remaining[n] > 0

\* Time passes while no timer is due: a loop serves its timer in time.
Tick ==
  /\ MayPass
  /\ remaining' = [n \in Nodes |-> remaining[n] - 1]
  /\ probed' = 0
  /\ UNCHANGED <<nodeVars, activeTier, calls>>

\* The timer of n fires: probeOnce, then Reset.
Probe(n) ==
  /\ remaining[n] = 0
  /\ \/ \E ok \in BOOLEAN : Mark(n, ok)
     \/ UNCHANGED nodeVars
  /\ Publish({n})
  /\ probed' = n
  /\ UNCHANGED calls

\* next() routes an RPC to n: it returns healthy nodes of the active tier.
Call(n) ==
  /\ healthy[n]
  /\ Tier[n] = activeTier
  /\ calls[n] < MaxCalls
  /\ calls' = [calls EXCEPT ![n] = @ + 1]
  /\ probed' = 0
  /\ UNCHANGED <<nodeVars, activeTier, remaining>>

\* The RPC ends and recordOutcome counts it, or does not, whatever has become
\* of n and of its tier in the meantime.
Return(n) ==
  /\ calls[n] > 0
  /\ calls' = [calls EXCEPT ![n] = @ - 1]
  /\ \/ \E ok \in BOOLEAN : Mark(n, ok)
     \/ UNCHANGED nodeVars
  /\ Publish({})
  /\ probed' = 0

Next == Tick \/ \E n \in Nodes : Probe(n) \/ Call(n) \/ Return(n)

Spec == Init /\ [][Next]_vars

\* Time passes, and a timer that is due is served before time goes on.
FairSpec == Spec /\ WF_vars(Tick) /\ \A n \in Nodes : WF_vars(Probe(n))
-----------------------------------------------------------------------------
\* Every variable has its type; in particular no timer is overdue.
TypeOK ==
  /\ healthy \in [Nodes -> BOOLEAN]
  /\ consecutiveSuccess \in [Nodes -> 0..SuccessThreshold]
  /\ consecutiveFailure \in [Nodes -> 0..FailureThreshold]
  /\ activeTier \in {Tier[n] : n \in Nodes} \cup {NoTier}
  /\ calls \in [Nodes -> 0..MaxCalls]
  /\ remaining \in [Nodes -> Nat]
  /\ probed \in 0..N

\* intervalFor and the tier-shift wake-up: a node of the active tier is never
\* further than HealthyInterval from its next probe, however the tier became the
\* active one, whether it is healthy, was evicted by a call, which leaves its timer
\* as it is unless the tier shifts, or readmitted by a late answer. Of an unhealthy
\* node config.go promises more, UnhealthyInterval, and markFailure keeps it only
\* if a probe evicts.
ActiveProbedInTime ==
  \A n \in Nodes : Tier[n] = activeTier => remaining[n] <= HealthyInterval

\* The failed pool is watched closely: when every node is unhealthy, each is at
\* most UnhealthyInterval from its next probe, because the loss of the last
\* tier re-arms all timers.
OutageProbedTightly ==
  activeTier = NoTier => \A n \in Nodes : remaining[n] <= UnhealthyInterval

\* A standby cannot be starved by a tier that stays: while the active tier does
\* not change, every node is probed again and again.
ProbedWhileStable ==
  (\E t \in {Tier[n] : n \in Nodes} \cup {NoTier} : <>[](activeTier = t))
    => \A n \in Nodes : []<>(probed = n)

\* The outcomes of one sort that n has seen in a row: at most one of its two
\* counters is ever above zero.
Run == [n \in Nodes |-> consecutiveSuccess[n] - consecutiveFailure[n]]

\* The place of each node, read off its flag and its counters.
Health == INSTANCE NodeHealth WITH
  up <- {n \in Nodes : healthy[n]},
  run <- Run

\* The schedule of the probes decides when a node is tried, never what it takes
\* to lose its place or to get it back.
HealthSpec == Health!Spec

\* health.go on the health checker: it "probes every node periodically".
ProbedPeriodically == \A n \in Nodes : []<>(probed = n)
=============================================================================
