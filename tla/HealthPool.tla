------------------------------ MODULE HealthPool ------------------------------
(***************************************************************************)
(* HealthAwareTransport (pkg/client/health.go): a pool of nodes grouped in *)
(* tiers, shared by                                                        *)
(*   - callers: goroutines issuing RPCs (next, the transport call,         *)
(*     recordOutcome);                                                     *)
(*   - loops: one healthCheckLoop per node, arming a timer and probing;    *)
(*   - closers: goroutines calling Close.                                  *)
(* A caller or a loop whose outcome flips a node's health runs             *)
(* onStateChange, which elects the active tier under publishMu, publishes  *)
(* the pool gauge and wakes the loops when the tier shifted.               *)
(*                                                                         *)
(* Every section that holds one node's mu is a single step; everything     *)
(* between two such sections is interleaved with all other processes.      *)
(***************************************************************************)
EXTENDS Integers, FiniteSets

CONSTANTS
  N,                 \* number of configured nodes: h.nodes is 1..N
  Tier,              \* NodeConfig.Tier of every node
  Callers,           \* goroutines issuing RPCs through the pool
  Closers,           \* goroutines calling Close
  FailureThreshold,  \* HealthConfig.FailureThreshold after withDefaults
  SuccessThreshold,  \* HealthConfig.SuccessThreshold after withDefaults
  Disabled           \* HealthConfig.Disabled: no loop is started

Nodes == 1..N

\* A process is a caller or the loop of a node, which bears the node's name.
Procs == Callers \cup Nodes

\* The owner of a free publishMu, and the target of a caller without a call.
None == 0

\* The value of activeTier when every node is unhealthy.
NoTier == -1

ASSUME PoolAssumption ==
  /\ N \in Nat \ {0}
  /\ Tier \in [Nodes -> Int]
  /\ FailureThreshold \in Nat \ {0}
  /\ SuccessThreshold \in Nat \ {0}
  /\ Disabled \in BOOLEAN
  /\ Callers \cap (Nodes \cup {None}) = {}

VARIABLES
  healthy,             \* nodeState.healthy
  consecutiveSuccess,  \* nodeState.consecutiveSuccess
  consecutiveFailure,  \* nodeState.consecutiveFailure
  notifyCh,            \* TRUE: the size-1 channel holds a token
  counters,            \* per tier, the round-robin counter modulo the group
  activeTier,          \* h.activeTier
  gauge,               \* the healthy count last given to SetPoolHealth
  publishMu,           \* the process that holds publishMu, or None
  visited,             \* nodes the holder's current loop has gone over
  newActive,           \* onStateChange's newActive
  oldActive,           \* onStateChange's old
  tally,               \* publishPoolMetricsLocked's healthy
  pc,                  \* where every caller and every loop is
  target,              \* the node a caller's RPC goes to
  seen,                \* nodes a caller's next() found unhealthy
  start,               \* next()'s startIdx in the tier being scanned
  armed,               \* the interval a loop's timer was set to
  stopped,             \* stopCh is closed
  closing,             \* where every closer is
  shut                 \* nodes whose transport a closer has closed

nodeVars == <<healthy, consecutiveSuccess, consecutiveFailure>>
pubVars  == <<activeTier, gauge, publishMu, visited, newActive, oldActive, tally>>
nextVars == <<counters, target, seen, start>>
loopVars == <<notifyCh, armed>>
stopVars == <<stopped, closing, shut>>
vars == <<nodeVars, pubVars, nextVars, loopVars, stopVars, pc>>
-----------------------------------------------------------------------------
(***************************************************************************)
(* Tiers: h.tierKeys, the groups of h.tiers, and the orders in which they  *)
(* are walked.                                                             *)
(***************************************************************************)
TierKeys == {Tier[n] : n \in Nodes}
Group(t) == {n \in Nodes : Tier[n] = t}
GroupLen(t) == Cardinality(Group(t))

\* The index of n in its group, which keeps the configured order.
Position(n) == Cardinality({m \in Group(Tier[n]) : m < n})

\* Mutant of FirstByTier: h.tierKeys is sorted the wrong way round.
FirstByTierDescending(n, S) ==
  /\ n \in S
  /\ \A m \in S : Tier[n] > Tier[m] \/ (Tier[n] = Tier[m] /\ n <= m)

\* n is the first node of S when h.tiers is walked in order.
FirstByTier(n, S) ==
  /\ n \in S
  /\ \A m \in S : Tier[n] < Tier[m] \/ (Tier[n] = Tier[m] /\ n <= m)

\* n is the first node of S when h.nodes is walked in order.
FirstByIndex(n, S) == n \in S /\ \A m \in S : n <= m

\* How many nodes of its group next() visits before n when it starts at s.
Distance(n, s) == (Position(n) - s) % GroupLen(Tier[n])

\* n is the next node of S when h.tiers is walked with the group of the
\* lowest tier rotated to begin at index s.
FirstInRotation(n, S, s) ==
  /\ n \in S
  /\ \A m \in S : \/ Tier[n] < Tier[m]
                  \/ Tier[n] = Tier[m] /\ Distance(n, s) <= Distance(m, s)

\* t is what activeTier documents: the lowest tier with a healthy node, or
\* NoTier when there is none.
IsElected(t) ==
  \/ /\ \E n \in Nodes : healthy[n] /\ Tier[n] = t
     /\ \A n \in Nodes : healthy[n] => t <= Tier[n]
  \/ /\ \A n \in Nodes : ~healthy[n]
     /\ t = NoTier

HealthyNodes == {n \in Nodes : healthy[n]}
-----------------------------------------------------------------------------
(***************************************************************************)
(* NewHealthAwareTransport: every node starts healthy, the lowest tier is  *)
(* active, the gauge is published and one loop per node is started.        *)
(***************************************************************************)
Init ==
  /\ healthy = [n \in Nodes |-> TRUE]
  /\ consecutiveSuccess = [n \in Nodes |-> 0]
  /\ consecutiveFailure = [n \in Nodes |-> 0]
  /\ notifyCh = [n \in Nodes |-> FALSE]
  /\ counters = [t \in TierKeys |-> 0]
  /\ activeTier \in TierKeys /\ \A t \in TierKeys : activeTier <= t
  /\ gauge = N
  /\ publishMu = None
  /\ visited = {}
  /\ newActive = NoTier
  /\ oldActive = NoTier
  /\ tally = 0
  /\ pc = [p \in Procs |-> IF p \in Callers THEN "idle"
                           ELSE IF Disabled THEN "done" ELSE "arm"]
  /\ target = [c \in Callers |-> None]
  /\ seen = [c \in Callers |-> {}]
  /\ start = [c \in Callers |-> 0]
  /\ armed = [n \in Nodes |-> "none"]
  /\ stopped = FALSE
  /\ closing = [k \in Closers |-> "idle"]
  /\ shut = [k \in Closers |-> {}]
-----------------------------------------------------------------------------
(***************************************************************************)
(* next(): tier by tier, bump the tier's counter and walk its group from   *)
(* there; each node is read under its own mu.                              *)
(***************************************************************************)
EnterTier(c) ==
  /\ pc[c] \in {"idle", "tier"}
  /\ \E n \in Nodes \ seen[c] :
       /\ FirstByTier(n, Nodes \ seen[c])
       /\ start' = [start EXCEPT ![c] = counters[Tier[n]]]
       /\ counters' = [counters EXCEPT
                         ![Tier[n]] = (@ + 1) % GroupLen(Tier[n])]
  /\ pc' = [pc EXCEPT ![c] = "scan"]
  /\ UNCHANGED <<nodeVars, pubVars, loopVars, stopVars, target, seen>>

\* Mutant of Passed: the walk does not wrap around: what lies before the start is passed over.
PassedNoWrap(n, s) == {n} \cup {m \in Group(Tier[n]) : Position(m) < s}

\* What next() has ruled out once it read n unhealthy on a walk from index s.
Passed(n, s) == {n}

ScanNode(c) ==
  /\ pc[c] = "scan"
  /\ \E n \in Nodes \ seen[c] :
       /\ FirstInRotation(n, Nodes \ seen[c], start[c])
       /\ \/ /\ healthy[n]
             /\ target' = [target EXCEPT ![c] = n]
             /\ seen' = [seen EXCEPT ![c] = {}]
             /\ pc' = [pc EXCEPT ![c] = "call"]
          \/ /\ ~healthy[n]
             /\ seen' = [seen EXCEPT ![c] = @ \cup Passed(n, start[c])]
             /\ pc' = [pc EXCEPT ![c] =
                         IF Group(Tier[n]) \subseteq seen'[c] THEN "tier" ELSE "scan"]
             /\ UNCHANGED target
  /\ start' = [start EXCEPT ![c] = IF pc'[c] = "scan" THEN @ ELSE 0]
  /\ UNCHANGED <<nodeVars, pubVars, loopVars, stopVars, counters>>

\* Every group was walked: the RPC returns ErrNoHealthyNodes.
NoHealthyNodes(c) ==
  /\ pc[c] = "tier"
  /\ seen[c] = Nodes
  /\ seen' = [seen EXCEPT ![c] = {}]
  /\ pc' = [pc EXCEPT ![c] = "idle"]
  /\ UNCHANGED <<nodeVars, pubVars, loopVars, stopVars, counters, target, start>>
-----------------------------------------------------------------------------
(***************************************************************************)
(* The outcome of an RPC (recordOutcome) or of a probe (probeOnce) on a    *)
(* node. The consecutive counters saturate at their thresholds: no code    *)
(* tells larger values apart, since each is compared only where it flips   *)
(* the node.                                                               *)
(***************************************************************************)
Count(x, limit) == IF x < limit THEN x + 1 ELSE x

Target(p) == IF p \in Nodes THEN p ELSE target[p]

\* What a process does once its outcome is recorded: a loop resets its timer,
\* an RPC returns to its caller.
Resume(p) == IF p \in Nodes THEN "arm" ELSE "idle"

ClearTarget(p) ==
  target' = IF p \in Callers THEN [target EXCEPT ![p] = None] ELSE target

\* Mutant of OnTransition: a process that finds publishMu taken leaves the election to its holder.
OnTransitionIfFree(p, transition) ==
  IF transition /\ publishMu = None THEN "publish" ELSE Resume(p)

\* A flip is followed by onStateChange.
OnTransition(p, transition) == IF transition THEN "publish" ELSE Resume(p)

AfterMark(p, transition) ==
  /\ pc' = [pc EXCEPT ![p] = OnTransition(p, transition)]
  /\ ClearTarget(p)
  /\ UNCHANGED <<pubVars, loopVars, stopVars, counters, seen, start>>

\* Mutant of Readmits: the run is compared before it is counted, with a strict bound.
ReadmitsLate(n) == ~healthy[n] /\ consecutiveSuccess[n] > SuccessThreshold

\* One more success makes n healthy again.
Readmits(n) == ~healthy[n] /\ consecutiveSuccess[n] + 1 >= SuccessThreshold

\* One more failure makes n unhealthy.
Evicts(n) == healthy[n] /\ consecutiveFailure[n] + 1 >= FailureThreshold

MarkSuccess(p, n) ==
  /\ consecutiveFailure' = [consecutiveFailure EXCEPT ![n] = 0]
  /\ consecutiveSuccess' =
       [consecutiveSuccess EXCEPT ![n] = Count(@, SuccessThreshold)]
  /\ healthy' = [healthy EXCEPT ![n] = @ \/ Readmits(n)]
  /\ AfterMark(p, Readmits(n))

\* Mutant of RunAfterFailure: a failure does not break the run of successes.
RunAfterFailureKept(n) == consecutiveSuccess[n]

RunAfterFailure(n) == 0

MarkFailure(p, n) ==
  /\ consecutiveSuccess' =
       [consecutiveSuccess EXCEPT ![n] = RunAfterFailure(n)]
  /\ consecutiveFailure' =
       [consecutiveFailure EXCEPT ![n] = Count(@, FailureThreshold)]
  /\ healthy' = [healthy EXCEPT ![n] = @ /\ ~Evicts(n)]
  /\ AfterMark(p, Evicts(n))

\* The call or probe returned nil.
Succeed(p) == pc[p] \in {"call", "probe"} /\ MarkSuccess(p, Target(p))

\* It returned an error that ClassifyErr counts against the node.
Fail(p) == pc[p] \in {"call", "probe"} /\ MarkFailure(p, Target(p))

\* It returned a logical or cancelled error, or the probe panicked: the
\* node's state is left alone.
Ignore(p) ==
  /\ pc[p] \in {"call", "probe"}
  /\ AfterMark(p, FALSE)
  /\ UNCHANGED nodeVars
-----------------------------------------------------------------------------
(***************************************************************************)
(* onStateChange, by the process that flipped a node.                      *)
(***************************************************************************)
LockPublish(p) ==
  /\ pc[p] = "publish"
  /\ publishMu = None
  /\ publishMu' = p
  /\ pc' = [pc EXCEPT ![p] = "elect"]
  /\ UNCHANGED <<nodeVars, nextVars, loopVars, stopVars, activeTier, gauge,
                 visited, newActive, oldActive, tally>>

\* One read of the scan for the first healthy node in tier order.
Elect(p) ==
  /\ pc[p] = "elect"
  /\ \/ \E n \in Nodes \ visited :
          /\ FirstByTier(n, Nodes \ visited)
          /\ \/ /\ healthy[n]
                /\ newActive' = Tier[n]
                /\ pc' = [pc EXCEPT ![p] = "swap"]
                /\ UNCHANGED visited
             \/ /\ ~healthy[n]
                /\ visited' = visited \cup {n}
                /\ UNCHANGED <<newActive, pc>>
     \/ /\ visited = Nodes
        /\ newActive' = NoTier
        /\ pc' = [pc EXCEPT ![p] = "swap"]
        /\ UNCHANGED visited
  /\ UNCHANGED <<nodeVars, nextVars, loopVars, stopVars, activeTier, gauge,
                 publishMu, oldActive, tally>>

\* Mutant of FirstTally: the count of the previous publication is carried over.
FirstTallyStale == tally

\* healthy := 0 in publishPoolMetricsLocked.
FirstTally == 0

\* activeTier.Swap, and the start of publishPoolMetricsLocked.
Swap(p) ==
  /\ pc[p] = "swap"
  /\ oldActive' = activeTier
  /\ activeTier' = newActive
  /\ visited' = {}
  /\ tally' = FirstTally
  /\ pc' = [pc EXCEPT ![p] = "count"]
  /\ UNCHANGED <<nodeVars, nextVars, loopVars, stopVars, gauge, publishMu, newActive>>

CountNode(p) ==
  /\ pc[p] = "count"
  /\ \E n \in Nodes \ visited :
       /\ FirstByIndex(n, Nodes \ visited)
       /\ visited' = visited \cup {n}
       /\ tally' = IF healthy[n] THEN tally + 1 ELSE tally
  /\ UNCHANGED <<nodeVars, nextVars, loopVars, stopVars, activeTier, gauge,
                 publishMu, newActive, oldActive, pc>>

\* Mutant of NeedNoWake: only the nodes of the newly active tier are woken.
NeedNoWakeActiveOnly ==
  {n \in Nodes : oldActive = activeTier \/ Tier[n] # activeTier}

\* The nodes no token is sent to: all of them when the tier did not shift.
NeedNoWake == {n \in Nodes : oldActive = activeTier}

\* SetPoolHealth; the loops are notified only when the tier shifted.
SetPoolHealth(p) ==
  /\ pc[p] = "count"
  /\ visited = Nodes
  /\ gauge' = tally
  /\ visited' = NeedNoWake
  /\ pc' = [pc EXCEPT ![p] = "notify"]
  /\ UNCHANGED <<nodeVars, nextVars, loopVars, stopVars, activeTier,
                 publishMu, newActive, oldActive, tally>>

\* The send is non-blocking: it is dropped when a token is already there.
Notify(p) ==
  /\ pc[p] = "notify"
  /\ \E n \in Nodes \ visited :
       /\ FirstByIndex(n, Nodes \ visited)
       /\ visited' = visited \cup {n}
       /\ notifyCh' = [notifyCh EXCEPT ![n] = TRUE]
  /\ UNCHANGED <<nodeVars, nextVars, armed, stopVars, activeTier, gauge,
                 publishMu, newActive, oldActive, tally, pc>>

\* Mutant of OwnerAfterPublish: publishMu is released only on the path that notified.
OwnerAfterPublishLeaks == IF oldActive = activeTier THEN publishMu ELSE None

OwnerAfterPublish == None

\* The deferred Unlock; locals go out of scope.
UnlockPublish(p) ==
  /\ pc[p] = "notify"
  /\ visited = Nodes
  /\ publishMu' = OwnerAfterPublish
  /\ visited' = {}
  /\ newActive' = NoTier
  /\ oldActive' = NoTier
  /\ pc' = [pc EXCEPT ![p] = Resume(p)]
  /\ UNCHANGED <<nodeVars, nextVars, loopVars, stopVars, activeTier, gauge, tally>>
-----------------------------------------------------------------------------
(***************************************************************************)
(* healthCheckLoop of node n. The timer is armed with what intervalFor     *)
(* returned; how long that is is abstracted to which of the three          *)
(* configured intervals it is, so the timer may fire at any moment.        *)
(***************************************************************************)
\* intervalFor's read of healthy under n.mu.
Arm(n) ==
  /\ pc[n] = "arm"
  /\ IF healthy[n]
       THEN pc' = [pc EXCEPT ![n] = "armTier"] /\ UNCHANGED armed
       ELSE /\ armed' = [armed EXCEPT ![n] = "unhealthy"]
            /\ pc' = [pc EXCEPT ![n] = "wait"]
  /\ UNCHANGED <<nodeVars, pubVars, nextVars, stopVars, notifyCh>>

\* intervalFor's activeTier.Load, then Reset.
ArmTier(n) ==
  /\ pc[n] = "armTier"
  /\ armed' = [armed EXCEPT ![n] =
                 IF Tier[n] = activeTier THEN "active" ELSE "inactive"]
  /\ pc' = [pc EXCEPT ![n] = "wait"]
  /\ UNCHANGED <<nodeVars, pubVars, nextVars, stopVars, notifyCh>>

\* The cases of the select: notifyCh, timer.C, stopCh.
Wake(n) ==
  /\ pc[n] = "wait"
  /\ notifyCh[n]
  /\ notifyCh' = [notifyCh EXCEPT ![n] = FALSE]
  /\ armed' = [armed EXCEPT ![n] = "none"]
  /\ pc' = [pc EXCEPT ![n] = "arm"]
  /\ UNCHANGED <<nodeVars, pubVars, nextVars, stopVars>>

Fire(n) ==
  /\ pc[n] = "wait"
  /\ armed' = [armed EXCEPT ![n] = "none"]
  /\ pc' = [pc EXCEPT ![n] = "probe"]
  /\ UNCHANGED <<nodeVars, pubVars, nextVars, stopVars, notifyCh>>

\* Mutant of StopLeadsTo: break instead of return: it leaves the select, not the loop.
StopLeadsToBreak(n) == "arm"

StopLeadsTo(n) == "done"

Stop(n) ==
  /\ pc[n] = "wait"
  /\ stopped
  /\ armed' = [armed EXCEPT ![n] = "none"]
  /\ pc' = [pc EXCEPT ![n] = StopLeadsTo(n)]
  /\ UNCHANGED <<nodeVars, pubVars, nextVars, stopVars, notifyCh>>
-----------------------------------------------------------------------------
(***************************************************************************)
(* Close: stopCh is closed once, the loops are awaited, then every call    *)
(* closes every transport.                                                 *)
(***************************************************************************)
Close(k) ==
  /\ closing[k] = "idle"
  /\ stopped' = TRUE
  /\ closing' = [closing EXCEPT ![k] = "wait"]
  /\ UNCHANGED <<nodeVars, pubVars, nextVars, loopVars, pc, shut>>

\* Mutant of LoopsExited: loops that wait for their timer are taken for stopped.
LoopsExitedOrWaiting == \A n \in Nodes : pc[n] \in {"wait", "done"}

\* wg has reached zero.
LoopsExited == \A n \in Nodes : pc[n] = "done"

AwaitLoops(k) ==
  /\ closing[k] = "wait"
  /\ LoopsExited
  /\ closing' = [closing EXCEPT ![k] = "closing"]
  /\ UNCHANGED <<nodeVars, pubVars, nextVars, loopVars, pc, stopped, shut>>

CloseTransport(k) ==
  /\ closing[k] = "closing"
  /\ \E n \in Nodes \ shut[k] :
       /\ FirstByIndex(n, Nodes \ shut[k])
       /\ shut' = [shut EXCEPT ![k] = @ \cup {n}]
       /\ closing' = [closing EXCEPT ![k] =
                        IF shut'[k] = Nodes THEN "done" ELSE "closing"]
  /\ UNCHANGED <<nodeVars, pubVars, nextVars, loopVars, pc, stopped>>
-----------------------------------------------------------------------------
CallerStep(c) == EnterTier(c) \/ ScanNode(c) \/ NoHealthyNodes(c)

OutcomeStep(p) == Succeed(p) \/ Fail(p) \/ Ignore(p)

PublishStep(p) ==
  \/ LockPublish(p) \/ Elect(p) \/ Swap(p) \/ CountNode(p)
  \/ SetPoolHealth(p) \/ Notify(p) \/ UnlockPublish(p)

LoopStep(n) == Arm(n) \/ ArmTier(n) \/ Wake(n) \/ Fire(n) \/ Stop(n)

CloserStep(k) == Close(k) \/ AwaitLoops(k) \/ CloseTransport(k)

Next ==
  \/ \E c \in Callers : CallerStep(c)
  \/ \E p \in Procs : OutcomeStep(p) \/ PublishStep(p)
  \/ \E n \in Nodes : LoopStep(n)
  \/ \E k \in Closers : CloserStep(k)

Spec == Init /\ [][Next]_vars

\* Goroutines that can run do run. publishMu is a Go mutex, which does not
\* starve a waiter (strong fairness of LockPublish); select chooses uniformly
\* among its ready cases, so a closed stopCh is taken eventually (strong
\* fairness of Stop). A probe returns because it runs under ProbeTimeout. A
\* live RPC may hang and a timer that keeps being reset need not fire: neither
\* gets a fairness condition. (ProbeSchedule gives the timers their lengths.)
Fairness ==
  /\ \A c \in Callers : WF_vars(pc[c] # "idle" /\ CallerStep(c))
  /\ \A p \in Procs : SF_vars(LockPublish(p)) /\ WF_vars(PublishStep(p))
  /\ \A n \in Nodes : /\ WF_vars(OutcomeStep(n))
                       /\ WF_vars(LoopStep(n))
                       /\ SF_vars(Stop(n))
  /\ \A k \in Closers : WF_vars(AwaitLoops(k) \/ CloseTransport(k))

FairSpec == Spec /\ Fairness
-----------------------------------------------------------------------------
\* Every variable has its type: no counter leaves its range, the gauge never
\* reports more nodes than there are, a caller's target is a configured node.
TypeOK ==
  /\ healthy \in [Nodes -> BOOLEAN]
  /\ consecutiveSuccess \in [Nodes -> 0..SuccessThreshold]
  /\ consecutiveFailure \in [Nodes -> 0..FailureThreshold]
  /\ notifyCh \in [Nodes -> BOOLEAN]
  /\ counters \in [TierKeys -> Nat]
  /\ activeTier \in TierKeys \cup {NoTier}
  /\ gauge \in 0..N
  /\ publishMu \in Procs \cup {None}
  /\ visited \subseteq Nodes
  /\ newActive \in TierKeys \cup {NoTier}
  /\ oldActive \in TierKeys \cup {NoTier}
  /\ tally \in 0..N
  /\ pc \in [Procs -> {"idle", "tier", "scan", "call", "publish", "elect", "swap",
                       "count", "notify", "arm", "armTier", "wait", "probe", "done"}]
  /\ target \in [Callers -> Nodes \cup {None}]
  /\ seen \in [Callers -> SUBSET Nodes]
  /\ start \in [Callers -> Nat]
  /\ armed \in [Nodes -> {"none", "unhealthy", "active", "inactive"}]
  /\ stopped \in BOOLEAN
  /\ closing \in [Closers -> {"idle", "wait", "closing", "done"}]
  /\ shut \in [Closers -> SUBSET Nodes]

\* markSuccess and markFailure keep a node's flag and its two counters in
\* step whatever probes and RPCs race on the node: a healthy node is short of
\* FailureThreshold, an unhealthy one is short of SuccessThreshold, and runs of
\* successes and of failures exclude each other.
ThresholdInv ==
  \A n \in Nodes :
    /\ healthy[n] => consecutiveFailure[n] < FailureThreshold
    /\ ~healthy[n] => consecutiveSuccess[n] < SuccessThreshold
    /\ consecutiveSuccess[n] = 0 \/ consecutiveFailure[n] = 0

\* The process has flipped a node and not yet finished onStateChange.
Publishing(p) == pc[p] \in {"publish", "elect", "swap", "count", "notify"}

\* onStateChange: once no flip is left to publish, activeTier is the lowest
\* tier with a healthy node (or -1) and the gauge counts the healthy nodes,
\* although each election reads the nodes one by one while others flip them.
Converged ==
  (\A p \in Procs : ~Publishing(p)) =>
    IsElected(activeTier) /\ gauge = Cardinality(HealthyNodes)

\* The publisher has shifted the tier and is still to send n its token.
StillToWake(n) ==
  \E p \in Procs : /\ pc[p] \in {"count", "notify"}
                   /\ oldActive # activeTier
                   /\ pc[p] = "notify" => n \notin visited

\* The size-1 notifyCh with a non-blocking send loses no tier shift: a loop
\* that waits on an interval chosen for a tier that is not the active one
\* any more (or chosen as inactive although it is) has a token waiting, or the
\* publisher has yet to reach it.
NoLostWakeup ==
  \A n \in Nodes :
    /\ pc[n] = "wait"
    /\ \/ armed[n] = "active" /\ activeTier # Tier[n]
       \/ armed[n] = "inactive" /\ activeTier = Tier[n]
    => notifyCh[n] \/ StillToWake(n)

\* Close waits for the loops before it closes the transports, also when it is
\* called twice: no loop is alive, so no probe runs, on a closed transport.
ClosedAfterLoops ==
  (\E k \in Closers : shut[k] # {}) => \A n \in Nodes : pc[n] = "done"

\* Close returns: every loop meets the closed stopCh however often its timer
\* fires or the tier shifts, and none is left waiting for publishMu.
CloseReturns == \A k \in Closers : closing[k] = "wait" ~> closing[k] = "done"

\* A flip does not stay unpublished: onStateChange gets publishMu and ends.
FlipPublished == \A p \in Procs : Publishing(p) ~> ~Publishing(p)

\* What the pool promises about its tiers, read off its state: a process owes
\* a publication from the flip to its activeTier.Swap.
Election == INSTANCE PoolElection WITH
  up <- HealthyNodes,
  owed <- {p \in Procs : pc[p] \in {"publish", "elect", "swap"}},
  tier <- activeTier

\* The pool implements the election: onStateChange changes activeTier only on
\* behalf of a flip, no process forgets the publication it owes, and the last
\* of several racing publications, whatever its scan met on the way, leaves
\* the lowest tier with a healthy node.
ElectionSpec == Election!Spec

\* The outcomes of one sort that n has seen in a row: at most one of its two
\* counters is ever above zero.
Run == [n \in Nodes |-> consecutiveSuccess[n] - consecutiveFailure[n]]

\* The place of each node, read off the pool.
Health == INSTANCE NodeHealth WITH
  up <- HealthyNodes,
  run <- Run

\* recordOutcome and probeOnce, however RPCs and probes of a node race and
\* however late an outcome comes, take the node out after FailureThreshold
\* failures in a row and bring it back after SuccessThreshold successes in a
\* row, and at no other moment.
HealthSpec == Health!Spec

\* An outcome of node n that cannot have been a success. (Once a run has
\* saturated, one more success changes no more than an ignored outcome does.)
Setback(n) ==
  \E p \in Procs : Target(p) = n /\ (Fail(p) \/ Ignore(p)) /\ ~Succeed(p)

\* Recovery without traffic: if the pool stays open, and from some point on the
\* active tier is stable and every outcome recorded for n is a success, n ends
\* up healthy for good.
Recovery ==
  \A n \in Nodes :
    (/\ []~stopped
     /\ \E t \in TierKeys \cup {NoTier} : <>[](activeTier = t)
     /\ <>[][~Setback(n)]_vars)
    => <>[]healthy[n]
=============================================================================
