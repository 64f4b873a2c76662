-------------------------- MODULE ProbeScheduleProofs --------------------------
(***************************************************************************)
(* When nodes are probed, for any nodes, tiers, thresholds and intervals.  *)
(***************************************************************************)
EXTENDS ProbeSchedule, WellFoundedInduction, TLAPS

\* A set of naturals that is not empty has a least element.
LEMMA Least ==
  ASSUME NEW S, S \subseteq Nat, S # {}
  PROVE  \E k \in S : \A j \in S : k <= j
<1> DEFINE Below == OpToRel(<, Nat)
<1>1. \A x, y \in Nat : x < y => <<x, y>> \in Below
  BY DEF OpToRel
<1>2. IsWellFoundedOn(Below, Nat)
  BY NatLessThanWellFounded
<1> HIDE DEF Below
<1>3. PICK k \in S : \A j \in S : ~(<<j, k>> \in Below)
  BY <1>2, WFMin
<1>4. ASSUME NEW j \in S PROVE k <= j
  <2>1. ~(<<j, k>> \in Below) BY <1>3
  <2>2. j \in Nat /\ k \in Nat OBVIOUS
  <2>3. ~(j < k) BY <1>1, <2>1, <2>2, Zenon
  <2> QED BY <2>2, <2>3, SMT
<1> QED BY <1>4

\* Whatever the health of the nodes, there is a tier to be elected.
LEMMA ElectionExists ==
  ASSUME NEW h \in [Nodes -> BOOLEAN]
  PROVE  /\ Elected(h) \in {Tier[n] : n \in Nodes} \cup {NoTier}
         /\ IsElected(Elected(h), h)
<1> DEFINE Lowest(k, i) == i \in 1..k /\ h[i] /\ \A j \in 1..k : h[j] => Tier[i] <= Tier[j]
           Open == {k \in 0..N : (\E i \in 1..k : h[i]) /\ ~\E i \in 1..k : Lowest(k, i)}
<1>1. Open = {}
  <2> SUFFICES ASSUME Open # {} PROVE FALSE
    OBVIOUS
  <2>0. N \in Nat /\ Open \subseteq Nat /\ \A k \in Open : k \in 1..N
    BY ScheduleAssumption
  <2>1. PICK k \in Open : \A j \in Open : k <= j
    <3> HIDE DEF Open
    <3> QED BY <2>0, Least
  <2>2. k \in 1..N /\ k - 1 \in 0..N /\ k - 1 \notin Open
    <3> HIDE DEF Open
    <3> QED BY <2>0, <2>1
  <2>3. \A i \in 1..k : i \in Nodes /\ Tier[i] \in Int /\ (i = k \/ i \in 1..(k - 1))
    BY <2>2, ScheduleAssumption DEF Nodes
  <2>4. CASE \A i \in 1..(k - 1) : ~h[i]
    <3>1. h[k] BY <2>1, <2>3, <2>4
    <3>2. Lowest(k, k) BY <2>2, <2>3, <2>4, <3>1
    <3> QED BY <2>1, <2>2, <3>2
  <2>5. CASE \E i \in 1..(k - 1) : h[i]
    <3>1. PICK i \in 1..(k - 1) : Lowest(k - 1, i) BY <2>2, <2>5
    <3>2. i \in 1..k BY <2>2
    <3>3. CASE h[k] /\ Tier[k] < Tier[i]
      <4>1. Lowest(k, k) BY <2>2, <2>3, <3>1, <3>2, <3>3
      <4> QED BY <2>1, <2>2, <4>1
    <3>4. CASE ~(h[k] /\ Tier[k] < Tier[i])
      <4>1. Lowest(k, i) BY <2>2, <2>3, <3>1, <3>2, <3>4
      <4> QED BY <2>1, <3>2, <4>1
    <3> QED BY <3>3, <3>4
  <2> QED BY <2>4, <2>5
<1>2. \E t \in {Tier[n] : n \in Nodes} \cup {NoTier} : IsElected(t, h)
  <2>1. CASE \A n \in Nodes : ~h[n]
    BY <2>1 DEF IsElected
  <2>2. CASE \E n \in Nodes : h[n]
    <3>1. N \in 0..N /\ N \notin Open
      <4> HIDE DEF Open
      <4> QED BY <1>1, ScheduleAssumption
    <3>2. PICK n \in Nodes : Lowest(N, n) BY <2>2, <3>1 DEF Nodes
    <3>3. IsElected(Tier[n], h) BY <3>2 DEF IsElected, Nodes
    <3> QED BY <3>3
  <2> QED BY <2>1, <2>2
<1> QED BY <1>2 DEF Elected
-----------------------------------------------------------------------------
\* The nodes of the active tier, healthy or not, have short timers: one that is
\* readmitted by a late answer keeps the timer of an unhealthy node.
ActiveTimersShort ==
  \A n \in Nodes : Tier[n] = activeTier =>
    remaining[n] <= HealthyInterval \/ remaining[n] <= UnhealthyInterval

\* The active tier is the one due, and its nodes are probed in time.
IInv == TypeOK /\ IsElected(activeTier, healthy) /\ ActiveTimersShort

LEMMA InitIInv == Init => IInv
<1> SUFFICES ASSUME Init PROVE IInv
  OBVIOUS
<1>1. healthy \in [Nodes -> BOOLEAN] /\ activeTier = Elected(healthy)
  BY DEF Init
<1>2. /\ activeTier \in {Tier[n] : n \in Nodes} \cup {NoTier}
      /\ IsElected(activeTier, healthy)
  BY <1>1, ElectionExists
<1>3. remaining \in [Nodes -> Nat]
  BY ScheduleAssumption DEF Init, IntervalFor
<1>4. TypeOK
  <2>1. 0 \in 0..SuccessThreshold /\ 0 \in 0..FailureThreshold /\ 0 \in 0..N
    BY ScheduleAssumption
  <2>2. /\ consecutiveSuccess \in [Nodes -> 0..SuccessThreshold]
        /\ consecutiveFailure \in [Nodes -> 0..FailureThreshold]
        /\ calls \in [Nodes -> 0..MaxCalls]
        /\ probed \in 0..N
    BY <2>1, ScheduleAssumption DEF Init
  <2> QED BY <1>1, <1>2, <1>3, <2>2 DEF TypeOK
<1>5. ActiveTimersShort
  BY ScheduleAssumption DEF Init, ActiveTimersShort, IntervalFor
<1> QED BY <1>2, <1>4, <1>5 DEF IInv

\* A mark keeps the types and touches no other node's health.
LEMMA MarkKeeps ==
  ASSUME TypeOK, NEW n \in Nodes, NEW ok \in BOOLEAN, Mark(n, ok)
  PROVE  /\ healthy' \in [Nodes -> BOOLEAN]
         /\ consecutiveSuccess' \in [Nodes -> 0..SuccessThreshold]
         /\ consecutiveFailure' \in [Nodes -> 0..FailureThreshold]
         /\ \A m \in Nodes : m # n => healthy'[m] = healthy[m]
BY ScheduleAssumption DEF TypeOK, Mark, Count

\* Publishing elects what is due, and re-arms everybody if that is new.
LEMMA PublishKeeps ==
  ASSUME IInv, NEW reset \in SUBSET Nodes, healthy' \in [Nodes -> BOOLEAN], Publish(reset)
  PROVE  /\ activeTier' \in {Tier[n] : n \in Nodes} \cup {NoTier}
         /\ IsElected(activeTier', healthy')
         /\ remaining' \in [Nodes -> Nat]
         /\ \A n \in Nodes : remaining'[n] = IF n \in reset \/ activeTier' # activeTier
                                             THEN IntervalFor(n, healthy'[n], activeTier')
                                             ELSE remaining[n]
<1>1. /\ activeTier' \in {Tier[n] : n \in Nodes} \cup {NoTier}
      /\ IsElected(activeTier', healthy')
  <2>1. CASE healthy' = healthy
    BY <2>1 DEF Publish, IInv, TypeOK
  <2>2. CASE healthy' # healthy
    <3>1. activeTier' = Elected(healthy') BY <2>2 DEF Publish
    <3> QED BY <3>1, ElectionExists
  <2> QED BY <2>1, <2>2
<1>2. /\ DOMAIN remaining' = Nodes
      /\ \A n \in Nodes : remaining'[n] = IF n \in reset \/ activeTier' # activeTier
                                          THEN IntervalFor(n, healthy'[n], activeTier')
                                          ELSE remaining[n]
  BY DEF Publish, Rearmed
<1>3. \A n \in Nodes : remaining[n] \in Nat /\ IntervalFor(n, healthy'[n], activeTier') \in Nat
  BY ScheduleAssumption DEF IInv, TypeOK, IntervalFor
<1>4. remaining' = [n \in Nodes |-> remaining'[n]] BY DEF Publish
<1>5. remaining' \in [Nodes -> Nat] BY <1>2, <1>3, <1>4
<1> QED BY <1>1, <1>2, <1>5

\* A timer that is set anew in the active tier is short, the others stay.
LEMMA PublishInTime ==
  ASSUME IInv, NEW reset \in SUBSET Nodes, healthy' \in [Nodes -> BOOLEAN], Publish(reset)
  PROVE  ActiveTimersShort'
<1> SUFFICES ASSUME NEW m \in Nodes, Tier[m] = activeTier'
             PROVE  remaining'[m] <= HealthyInterval \/ remaining'[m] <= UnhealthyInterval
  BY DEF ActiveTimersShort
<1>1. CASE m \in reset \/ activeTier' # activeTier
  <2>1. remaining'[m] = HealthyInterval \/ remaining'[m] = UnhealthyInterval
    BY <1>1, PublishKeeps DEF IntervalFor
  <2> QED BY <2>1, ScheduleAssumption
<1>2. CASE ~(m \in reset \/ activeTier' # activeTier)
  <2>1. remaining'[m] = remaining[m] /\ Tier[m] = activeTier
    BY <1>2, PublishKeeps
  <2> QED BY <2>1 DEF IInv, ActiveTimersShort
<1> QED BY <1>1, <1>2

LEMMA TickIInv == ASSUME IInv, Tick PROVE IInv'
<1>1. \A n \in Nodes : remaining[n] \in Nat /\ remaining[n] > 0
  BY DEF IInv, TypeOK, Tick, MayPass
<1>2. remaining' = [n \in Nodes |-> remaining[n] - 1]
  BY DEF Tick
<1>3. remaining' \in [Nodes -> Nat]
  BY <1>1, <1>2
<1>4. TypeOK' /\ IsElected(activeTier, healthy)'
  BY <1>3, ScheduleAssumption DEF IInv, TypeOK, Tick, nodeVars, IsElected
<1>5. ActiveTimersShort'
  BY <1>1, <1>2, ScheduleAssumption DEF IInv, Tick, nodeVars, ActiveTimersShort
<1> QED BY <1>4, <1>5 DEF IInv

LEMMA ProbeIInv == ASSUME IInv, NEW n \in Nodes, Probe(n) PROVE IInv'
<1>1. /\ healthy' \in [Nodes -> BOOLEAN]
      /\ consecutiveSuccess' \in [Nodes -> 0..SuccessThreshold]
      /\ consecutiveFailure' \in [Nodes -> 0..FailureThreshold]
      /\ \A m \in Nodes : m # n => healthy'[m] = healthy[m]
  <2>1. CASE \E ok \in BOOLEAN : Mark(n, ok) BY <2>1, MarkKeeps DEF IInv
  <2>2. CASE UNCHANGED nodeVars BY <2>2 DEF nodeVars, IInv, TypeOK
  <2> QED BY <2>1, <2>2 DEF Probe
<1>2. Publish({n}) /\ probed' \in 0..N /\ calls' = calls
  BY ScheduleAssumption DEF Probe, Nodes
<1>3. ActiveTimersShort'
  BY <1>1, <1>2, PublishInTime
<1> QED BY <1>1, <1>2, <1>3, PublishKeeps DEF IInv, TypeOK

LEMMA CallIInv == ASSUME IInv, NEW n \in Nodes, Call(n) PROVE IInv'
<1>1. calls' \in [Nodes -> 0..MaxCalls] /\ probed' \in 0..N
  BY ScheduleAssumption DEF Call, IInv, TypeOK
<1> QED BY <1>1 DEF Call, nodeVars, IInv, TypeOK, IsElected, ActiveTimersShort

LEMMA ReturnIInv == ASSUME IInv, NEW n \in Nodes, Return(n) PROVE IInv'
<1>1. /\ healthy' \in [Nodes -> BOOLEAN]
      /\ consecutiveSuccess' \in [Nodes -> 0..SuccessThreshold]
      /\ consecutiveFailure' \in [Nodes -> 0..FailureThreshold]
      /\ \A m \in Nodes : m # n => healthy'[m] = healthy[m]
  <2>1. CASE \E ok \in BOOLEAN : Mark(n, ok) BY <2>1, MarkKeeps DEF IInv
  <2>2. CASE UNCHANGED nodeVars BY <2>2 DEF nodeVars, IInv, TypeOK
  <2> QED BY <2>1, <2>2 DEF Return
<1>2. Publish({}) /\ calls' \in [Nodes -> 0..MaxCalls] /\ probed' \in 0..N
  BY ScheduleAssumption DEF Return, IInv, TypeOK
<1>3. ActiveTimersShort'
  BY <1>1, <1>2, PublishInTime
<1> QED BY <1>1, <1>2, <1>3, PublishKeeps DEF IInv, TypeOK

LEMMA StepIInv == IInv /\ [Next]_vars => IInv'
<1> SUFFICES ASSUME IInv, [Next]_vars PROVE IInv'
  OBVIOUS
<1>1. CASE UNCHANGED vars
  BY <1>1 DEF vars, nodeVars, IInv, TypeOK, IsElected, ActiveTimersShort
<1> QED BY <1>1, TickIInv, ProbeIInv, CallIInv, ReturnIInv DEF Next

\* Every state of the schedule, whatever the outcomes of probes and calls.
THEOREM Invariant == Spec => []IInv
BY InitIInv, StepIInv, PTL DEF Spec

\* The schedule keeps its types: no timer is overdue when time passes.
THEOREM TypeCorrect == Spec => []TypeOK
BY Invariant, PTL DEF IInv

\* However the active tier shifts, whoever flips nodes and however late, a node of
\* the active tier is at most HealthyInterval from its next probe, unless the pool
\* is told to probe unhealthy nodes less often than healthy ones.
THEOREM ActiveInTime ==
  ASSUME UnhealthyInterval <= HealthyInterval
  PROVE  Spec => []ActiveProbedInTime
<1>1. IInv => ActiveProbedInTime
  BY ScheduleAssumption DEF IInv, TypeOK, ActiveTimersShort, ActiveProbedInTime
<1> QED BY <1>1, Invariant, PTL
-----------------------------------------------------------------------------
LEMMA OutageStep ==
  ASSUME \A n \in Nodes : Tier[n] # NoTier
  PROVE  IInv /\ OutageProbedTightly /\ [Next]_vars => OutageProbedTightly'
<1> SUFFICES ASSUME IInv, OutageProbedTightly, [Next]_vars, activeTier' = NoTier,
                    NEW m \in Nodes
             PROVE  remaining'[m] <= UnhealthyInterval
  BY DEF OutageProbedTightly
<1>1. IInv' BY StepIInv
<1>2. ~healthy'[m]
  BY <1>1 DEF IInv, IsElected
<1>3. ASSUME NEW reset \in SUBSET Nodes, healthy' \in [Nodes -> BOOLEAN], Publish(reset)
      PROVE  remaining'[m] <= UnhealthyInterval
  <2>1. CASE m \in reset \/ activeTier' # activeTier
    <3>1. remaining'[m] = UnhealthyInterval BY <1>2, <1>3, <2>1, PublishKeeps DEF IntervalFor
    <3> QED BY <3>1, ScheduleAssumption
  <2>2. CASE ~(m \in reset \/ activeTier' # activeTier)
    <3>1. remaining'[m] = remaining[m] /\ activeTier = NoTier BY <1>3, <2>2, PublishKeeps
    <3> QED BY <3>1 DEF OutageProbedTightly
  <2> QED BY <2>1, <2>2
<1>4. healthy' \in [Nodes -> BOOLEAN] BY <1>1 DEF IInv, TypeOK
<1>5. CASE Tick
  <2>1. activeTier = NoTier /\ remaining'[m] = remaining[m] - 1 /\ remaining[m] \in Nat
    BY <1>5 DEF Tick, IInv, TypeOK
  <2> QED BY <2>1, ScheduleAssumption DEF OutageProbedTightly
<1>6. ASSUME NEW n \in Nodes, Probe(n) \/ Return(n)
      PROVE  remaining'[m] <= UnhealthyInterval
  BY <1>3, <1>4, <1>6 DEF Probe, Return
<1>7. CASE UNCHANGED vars \/ \E n \in Nodes : Call(n)
  BY <1>7 DEF vars, Call, OutageProbedTightly
<1> QED BY <1>5, <1>6, <1>7 DEF Next

\* Unless a node is given the tier that stands for an empty pool, a pool gone
\* dark is probed at UnhealthyInterval throughout.
THEOREM OutageTight ==
  ASSUME \A n \in Nodes : Tier[n] # NoTier
  PROVE  Spec => []OutageProbedTightly
<1>1. Init => OutageProbedTightly
  <2> SUFFICES ASSUME Init PROVE activeTier # NoTier
    BY DEF OutageProbedTightly
  <2>1. IInv BY InitIInv
  <2>2. 1 \in Nodes /\ healthy[1] BY ScheduleAssumption DEF Init, Nodes
  <2> QED BY <2>1, <2>2 DEF IInv, IsElected
<1>2. IInv /\ OutageProbedTightly /\ [Next]_vars => OutageProbedTightly'
  BY OutageStep
<1> QED BY <1>1, <1>2, Invariant, PTL DEF Spec
-----------------------------------------------------------------------------
\* While the active tier stays, nothing but its own probe puts off the probe of a
\* node, however nodes flip and are called, and time brings it nearer: the
\* safety half of ProbedWhileStable.
THEOREM NobodyPostponed ==
  Spec => [][\A n \in Nodes : activeTier' = activeTier /\ probed' # n =>
               /\ remaining'[n] <= remaining[n]
               /\ Tick => remaining'[n] < remaining[n]]_vars
<1>1. ASSUME TypeOK, [Next]_vars, ~UNCHANGED vars,
             NEW n \in Nodes, activeTier' = activeTier, probed' # n
      PROVE  /\ remaining'[n] <= remaining[n]
             /\ Tick => remaining'[n] < remaining[n]
  <2>1. remaining[n] \in Nat
    BY <1>1 DEF TypeOK
  <2>2. ASSUME Tick PROVE remaining'[n] < remaining[n] /\ remaining'[n] <= remaining[n]
    <3>1. remaining'[n] = remaining[n] - 1 BY <2>2 DEF Tick
    <3> QED BY <2>1, <3>1
  <2>3. ASSUME NEW m \in Nodes, Probe(m) \/ Call(m) \/ Return(m)
        PROVE  remaining'[n] = remaining[n]
    <3>1. CASE Probe(m)
      <4>1. Publish({m}) /\ n # m BY <1>1, <3>1 DEF Probe
      <4> QED BY <1>1, <4>1 DEF Publish, Rearmed
    <3>2. CASE Return(m)
      <4>1. Publish({}) BY <3>2 DEF Return
      <4> QED BY <1>1, <4>1 DEF Publish, Rearmed
    <3>3. CASE Call(m)
      BY <3>3 DEF Call
    <3> QED BY <2>3, <3>1, <3>2, <3>3
  <2>4. CASE Tick BY <2>2, <2>4
  <2>5. CASE \E m \in Nodes : Probe(m) \/ Call(m) \/ Return(m)
    <3>1. remaining'[n] = remaining[n] BY <2>3, <2>5
    <3> QED BY <2>1, <2>2, <3>1
  <2> QED BY <1>1, <2>4, <2>5 DEF Next
<1>2. TypeOK /\ [Next]_vars
        => [\A n \in Nodes : activeTier' = activeTier /\ probed' # n =>
              /\ remaining'[n] <= remaining[n]
              /\ Tick => remaining'[n] < remaining[n]]_vars
  BY <1>1
<1> QED BY <1>2, TypeCorrect, PTL DEF Spec
-----------------------------------------------------------------------------
(***************************************************************************)
(* ProbeSchedule implements NodeHealth, for every schedule.                *)
(***************************************************************************)

\* Of the two counters of a node at least one is zero.
Streaks ==
  \A n \in Nodes : consecutiveSuccess[n] = 0 \/ consecutiveFailure[n] = 0

\* Flag and counters of every node have their types.
Counted ==
  /\ healthy \in [Nodes -> BOOLEAN]
  /\ consecutiveSuccess \in [Nodes -> 0..SuccessThreshold]
  /\ consecutiveFailure \in [Nodes -> 0..FailureThreshold]

LEMMA SuccessImplemented ==
  ASSUME Counted, Streaks, NEW n \in Nodes,
         consecutiveSuccess' = [consecutiveSuccess EXCEPT ![n] = Count(@, SuccessThreshold)],
         consecutiveFailure' = [consecutiveFailure EXCEPT ![n] = 0],
         healthy' = [healthy EXCEPT ![n] = @ \/ consecutiveSuccess[n] + 1 >= SuccessThreshold]
  PROVE  Streaks' /\ Health!Success(n)
<1> DEFINE longer == Count(consecutiveSuccess[n], SuccessThreshold)
           Up == {m \in Nodes : healthy[m]}
<1>1. /\ SuccessThreshold \in Nat \ {0} /\ FailureThreshold \in Nat \ {0}
      /\ \A m \in Nodes : /\ consecutiveSuccess[m] \in 0..SuccessThreshold
                          /\ consecutiveFailure[m] \in 0..FailureThreshold
                          /\ consecutiveSuccess[m] = 0 \/ consecutiveFailure[m] = 0
  BY ScheduleAssumption DEF Counted, Streaks
<1>2. longer \in Nat /\ (consecutiveSuccess[n] + 1 >= SuccessThreshold <=> longer = SuccessThreshold)
  BY <1>1 DEF Count
<1>3. longer = Health!Lesser((IF Run[n] < 0 THEN 0 ELSE Run[n]) + 1, SuccessThreshold)
  <2>1. Run[n] = consecutiveSuccess[n] - consecutiveFailure[n]
    BY DEF Run
  <2> QED BY <1>1, <2>1 DEF Count, Health!Lesser
<1> HIDE DEF longer
<1>4. \A m \in Nodes : /\ consecutiveSuccess'[m] = IF m = n THEN longer ELSE consecutiveSuccess[m]
                       /\ consecutiveFailure'[m] = IF m = n THEN 0 ELSE consecutiveFailure[m]
  BY DEF Counted, longer
<1>5. Run' = [Run EXCEPT ![n] = longer]
  <2>1. \A m \in Nodes : consecutiveSuccess'[m] - consecutiveFailure'[m]
                           = IF m = n THEN longer ELSE Run[m]
    BY <1>2, <1>4 DEF Run
  <2> QED BY <2>1 DEF Run
<1>6. Up' = IF longer = SuccessThreshold THEN Up \cup {n} ELSE Up
  BY <1>2 DEF Counted
<1>7. Run'[n] = longer
  BY <1>5 DEF Run
<1>8. Streaks'
  BY <1>1, <1>4 DEF Streaks
<1> QED BY <1>3, <1>5, <1>6, <1>7, <1>8 DEF Health!Success

LEMMA FailureImplemented ==
  ASSUME Counted, Streaks, NEW n \in Nodes,
         consecutiveSuccess' = [consecutiveSuccess EXCEPT ![n] = 0],
         consecutiveFailure' = [consecutiveFailure EXCEPT ![n] = Count(@, FailureThreshold)],
         healthy' = [healthy EXCEPT ![n] = @ /\ consecutiveFailure[n] + 1 < FailureThreshold]
  PROVE  Streaks' /\ Health!Failure(n)
<1> DEFINE longer == Count(consecutiveFailure[n], FailureThreshold)
           Up == {m \in Nodes : healthy[m]}
<1>1. /\ SuccessThreshold \in Nat \ {0} /\ FailureThreshold \in Nat \ {0}
      /\ \A m \in Nodes : /\ consecutiveSuccess[m] \in 0..SuccessThreshold
                          /\ consecutiveFailure[m] \in 0..FailureThreshold
                          /\ consecutiveSuccess[m] = 0 \/ consecutiveFailure[m] = 0
  BY ScheduleAssumption DEF Counted, Streaks
<1>2. longer \in Nat /\ (consecutiveFailure[n] + 1 < FailureThreshold <=> -longer # -FailureThreshold)
  BY <1>1 DEF Count
<1>3. longer = Health!Lesser((IF Run[n] > 0 THEN 0 ELSE -Run[n]) + 1, FailureThreshold)
  <2>1. Run[n] = consecutiveSuccess[n] - consecutiveFailure[n]
    BY DEF Run
  <2> QED BY <1>1, <2>1 DEF Count, Health!Lesser
<1> HIDE DEF longer
<1>4. \A m \in Nodes : /\ consecutiveSuccess'[m] = IF m = n THEN 0 ELSE consecutiveSuccess[m]
                       /\ consecutiveFailure'[m] = IF m = n THEN longer ELSE consecutiveFailure[m]
  BY DEF Counted, longer
<1>5. Run' = [Run EXCEPT ![n] = -longer]
  <2>1. \A m \in Nodes : consecutiveSuccess'[m] - consecutiveFailure'[m]
                           = IF m = n THEN -longer ELSE Run[m]
    BY <1>2, <1>4 DEF Run
  <2> QED BY <2>1 DEF Run
<1>6. Up' = IF -longer = -FailureThreshold THEN Up \ {n} ELSE Up
  BY <1>2 DEF Counted
<1>7. Run'[n] = -longer
  BY <1>5 DEF Run
<1>8. Streaks'
  BY <1>1, <1>4 DEF Streaks
<1> QED BY <1>3, <1>5, <1>6, <1>7, <1>8 DEF Health!Failure

LEMMA MarkOutcome ==
  ASSUME Counted, Streaks, NEW n \in Nodes, NEW ok \in BOOLEAN, Mark(n, ok)
  PROVE  Streaks' /\ (Health!Success(n) \/ Health!Failure(n))
<1>1. CASE ok
  BY <1>1, SuccessImplemented DEF Mark
<1>2. CASE ~ok
  BY <1>2, FailureImplemented DEF Mark
<1> QED BY <1>1, <1>2

\* However nodes are probed and called, each loses and regains its place by runs
\* of outcomes alone.
THEOREM ScheduleImplementsHealth == Spec => HealthSpec
<1>1. Init => Streaks /\ Health!Init
  BY DEF Init, Streaks, Health!Init, Run
<1>2. TypeOK /\ Streaks /\ [Next]_vars => Streaks' /\ [Health!Next]_(Health!vars)
  <2> SUFFICES ASSUME TypeOK, Streaks, [Next]_vars
               PROVE  Streaks' /\ [Health!Next]_(Health!vars)
    OBVIOUS
  <2>1. Counted BY DEF TypeOK, Counted
  <2>2. CASE UNCHANGED nodeVars
    BY <2>2 DEF nodeVars, Streaks, Run, Health!vars
  <2>3. CASE \E n \in Nodes, ok \in BOOLEAN : Mark(n, ok)
    <3>1. PICK n \in Nodes, ok \in BOOLEAN : Mark(n, ok) BY <2>3
    <3>2. Streaks' /\ (Health!Success(n) \/ Health!Failure(n))
      BY <2>1, <3>1, MarkOutcome
    <3> QED BY <3>2 DEF Health!Next
  <2> QED BY <2>2, <2>3 DEF Next, Tick, Probe, Call, Return, vars, nodeVars
<1> QED BY <1>1, <1>2, TypeCorrect, PTL DEF Spec, HealthSpec, Health!Spec
=============================================================================
