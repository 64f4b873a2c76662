--------------------------- MODULE HealthPoolProofs ---------------------------
(***************************************************************************)
(* Proofs about HealthPool and SelectionHistory, for every pool: any       *)
(* number of nodes, any tiers, any number of callers and closers, any      *)
(* thresholds.                                                             *)
(***************************************************************************)
EXTENDS SelectionHistory, FiniteSetTheorems, TLAPS

\* TypeOK without the upper bounds of the two counts, which rest on the scan
\* that computes them and are added by CountInv.
Typed ==
  /\ healthy \in [Nodes -> BOOLEAN]
  /\ consecutiveSuccess \in [Nodes -> 0..SuccessThreshold]
  /\ consecutiveFailure \in [Nodes -> 0..FailureThreshold]
  /\ notifyCh \in [Nodes -> BOOLEAN]
  /\ counters \in [TierKeys -> Nat]
  /\ activeTier \in TierKeys \cup {NoTier}
  /\ gauge \in Nat
  /\ publishMu \in Procs \cup {None}
  /\ visited \subseteq Nodes
  /\ newActive \in TierKeys \cup {NoTier}
  /\ oldActive \in TierKeys \cup {NoTier}
  /\ tally \in Nat
  /\ pc \in [Procs -> {"idle", "tier", "scan", "call", "publish", "elect", "swap",
                       "count", "notify", "arm", "armTier", "wait", "probe", "done"}]
  /\ target \in [Callers -> Nodes \cup {None}]
  /\ seen \in [Callers -> SUBSET Nodes]
  /\ start \in [Callers -> Nat]
  /\ armed \in [Nodes -> {"none", "unhealthy", "active", "inactive"}]
  /\ stopped \in BOOLEAN
  /\ closing \in [Closers -> {"idle", "wait", "closing", "done"}]
  /\ shut \in [Closers -> SUBSET Nodes]

\* A caller is never where only loops are, nor the other way round, and it has
\* a target exactly while its RPC is in flight.
Roles ==
  /\ \A c \in Callers : /\ pc[c] \notin {"arm", "armTier", "wait", "probe", "done"}
                        /\ pc[c] = "call" => target[c] \in Nodes
  /\ \A n \in Nodes : pc[n] \notin {"idle", "tier", "scan", "call"}
-----------------------------------------------------------------------------
\* The groups of h.tiers are finite and not empty.
LEMMA GroupLength == \A n \in Nodes : GroupLen(Tier[n]) \in Nat \ {0}
<1> TAKE n \in Nodes
<1>1. IsFiniteSet(Nodes)
  BY FS_Interval, PoolAssumption DEF Nodes
<1>2. IsFiniteSet(Group(Tier[n])) /\ n \in Group(Tier[n])
  BY <1>1, FS_Subset DEF Group
<1>3. QED
  BY <1>2, FS_EmptySet, FS_CardinalityType DEF GroupLen

\* Where OnTransition and Resume lead.
LEMMA ResumePlaces ==
  \A p \in Procs, b \in BOOLEAN :
    /\ OnTransition(p, b) \in {"publish", "arm", "idle"}
    /\ p \in Nodes => OnTransition(p, b) # "idle" /\ Resume(p) = "arm"
    /\ p \in Callers => OnTransition(p, b) # "arm" /\ Resume(p) = "idle"
    /\ ~b => OnTransition(p, b) # "publish"
    /\ b => OnTransition(p, b) = "publish"
BY PoolAssumption DEF OnTransition, Resume, Procs
-----------------------------------------------------------------------------
THEOREM TypingInit == Init => Typed /\ Roles
<1> SUFFICES ASSUME Init PROVE Typed /\ Roles
  OBVIOUS
<1>1. Typed
  <2>1. /\ healthy \in [Nodes -> BOOLEAN]
        /\ consecutiveSuccess \in [Nodes -> 0..SuccessThreshold]
        /\ consecutiveFailure \in [Nodes -> 0..FailureThreshold]
        /\ notifyCh \in [Nodes -> BOOLEAN]
        /\ counters \in [TierKeys -> Nat]
    BY PoolAssumption DEF Init
  <2>2. /\ pc \in [Procs -> {"idle", "tier", "scan", "call", "publish", "elect",
                   "swap", "count", "notify", "arm", "armTier", "wait", "probe", "done"}]
        /\ target \in [Callers -> Nodes \cup {None}]
        /\ seen \in [Callers -> SUBSET Nodes]
        /\ start \in [Callers -> Nat]
    BY DEF Init
  <2>3. /\ armed \in [Nodes -> {"none", "unhealthy", "active", "inactive"}]
        /\ closing \in [Closers -> {"idle", "wait", "closing", "done"}]
        /\ shut \in [Closers -> SUBSET Nodes]
    BY DEF Init
  <2>4. QED
    BY <2>1, <2>2, <2>3, PoolAssumption DEF Init, Typed
<1>2. Roles
  BY PoolAssumption DEF Init, Roles, Procs
<1>3. QED
  BY <1>1, <1>2

\* The step of an outcome keeps the types, for whichever process takes it.
LEMMA TypingOutcome ==
  ASSUME Typed, Roles, NEW p \in Procs, OutcomeStep(p)
  PROVE  Typed' /\ Roles'
<1>1. Target(p) \in Nodes
  BY PoolAssumption DEF OutcomeStep, Succeed, Fail, Ignore, Target, Roles, Procs
<1>2. PICK b \in BOOLEAN : AfterMark(p, b)
  BY <1>1 DEF Typed, OutcomeStep, Succeed, Fail, Ignore, MarkSuccess, MarkFailure,
              Readmits, Evicts
<1>3. /\ healthy' \in [Nodes -> BOOLEAN]
      /\ consecutiveSuccess' \in [Nodes -> 0..SuccessThreshold]
      /\ consecutiveFailure' \in [Nodes -> 0..FailureThreshold]
  <2>1. CASE Succeed(p)
    BY <1>1, <2>1, PoolAssumption DEF Typed, Succeed, MarkSuccess, Count
  <2>2. CASE Fail(p)
    BY <1>1, <2>2, PoolAssumption DEF Typed, Fail, MarkFailure, Count, RunAfterFailure
  <2>3. CASE Ignore(p)
    BY <2>3 DEF Typed, Ignore, nodeVars
  <2>4. QED
    BY <2>1, <2>2, <2>3 DEF OutcomeStep
<1>4. target' \in [Callers -> Nodes \cup {None}]
  BY <1>2 DEF AfterMark, ClearTarget, Typed
<1>5. pc' \in [Procs -> {"idle", "tier", "scan", "call", "publish", "elect", "swap",
                       "count", "notify", "arm", "armTier", "wait", "probe", "done"}]
  BY <1>2, ResumePlaces DEF AfterMark, Typed
<1>6. Typed'
  BY <1>2, <1>3, <1>4, <1>5 DEF Typed, AfterMark, pubVars, loopVars, stopVars
<1>7. Roles'
  BY <1>2, ResumePlaces, PoolAssumption DEF Roles, AfterMark, ClearTarget, Typed, Procs
<1>8. QED
  BY <1>6, <1>7
LEMMA TypingCaller ==
  ASSUME Typed, Roles, NEW c \in Callers, CallerStep(c)
  PROVE  Typed' /\ Roles'
<1> USE DEF nodeVars, pubVars, loopVars, stopVars
<1>1. CASE EnterTier(c)
  <2>1. PICK n \in Nodes \ seen[c] :
          /\ start' = [start EXCEPT ![c] = counters[Tier[n]]]
          /\ counters' = [counters EXCEPT
                            ![Tier[n]] = (@ + 1) % GroupLen(Tier[n])]
    BY <1>1 DEF EnterTier
  <2>2. Tier[n] \in TierKeys /\ GroupLen(Tier[n]) \in Nat \ {0}
    BY <2>1, GroupLength DEF TierKeys
  <2>3. counters' \in [TierKeys -> Nat] /\ start' \in [Callers -> Nat]
    <3>1. counters[Tier[n]] \in Nat
      BY <2>2 DEF Typed
    <3>2. (counters[Tier[n]] + 1) % GroupLen(Tier[n]) \in Nat
      BY <2>2, <3>1
    <3>3. QED
      BY <2>1, <3>1, <3>2 DEF Typed
  <2>4. Typed'
    BY <1>1, <2>3 DEF EnterTier, Typed, Procs
  <2>5. Roles'
    BY <1>1, PoolAssumption DEF EnterTier, Typed, Roles, Procs
  <2>6. QED
    BY <2>4, <2>5
<1>2. CASE ScanNode(c)
  <2>1. PICK n \in Nodes \ seen[c] :
          \/ /\ healthy[n]
             /\ target' = [target EXCEPT ![c] = n]
             /\ seen' = [seen EXCEPT ![c] = {}]
             /\ pc' = [pc EXCEPT ![c] = "call"]
          \/ /\ ~healthy[n]
             /\ seen' = [seen EXCEPT ![c] = @ \cup {n}]
             /\ pc' = [pc EXCEPT ![c] =
                         IF Group(Tier[n]) \subseteq seen'[c] THEN "tier" ELSE "scan"]
             /\ UNCHANGED target
    BY <1>2 DEF ScanNode, Passed
  <2>2. start' \in [Callers -> Nat]
    BY <1>2 DEF ScanNode, Typed
  <2>3. seen' \in [Callers -> SUBSET Nodes] /\ target' \in [Callers -> Nodes \cup {None}]
    BY <2>1 DEF Typed
  <2>4. pc' = [pc EXCEPT ![c] = pc'[c]] /\ pc'[c] \in {"call", "tier", "scan"}
    BY <2>1 DEF Typed, Procs
  <2>5. Typed'
    BY <1>2, <2>2, <2>3, <2>4 DEF ScanNode, Typed
  <2>6. \A d \in Callers : pc'[d] = "call" => target'[d] \in Nodes
    BY <2>1, PoolAssumption DEF Typed, Roles, Procs
  <2>7. Roles'
    BY <2>4, <2>6, PoolAssumption DEF Typed, Roles, Procs
  <2>8. QED
    BY <2>5, <2>7
<1>3. CASE NoHealthyNodes(c)
  <2>1. Typed'
    BY <1>3 DEF NoHealthyNodes, Typed
  <2>2. Roles'
    BY <1>3, PoolAssumption DEF NoHealthyNodes, Typed, Roles, Procs
  <2>3. QED
    BY <2>1, <2>2
<1>4. QED
  BY <1>1, <1>2, <1>3 DEF CallerStep

LEMMA TypingPublish ==
  ASSUME Typed, Roles, NEW p \in Procs, PublishStep(p)
  PROVE  Typed' /\ Roles'
<1> USE DEF nodeVars, nextVars, loopVars, stopVars
<1>1. CASE LockPublish(p)
  BY <1>1, PoolAssumption DEF LockPublish, Typed, Roles, Procs
<1>2. CASE Elect(p)
  <2>1. newActive' \in TierKeys \cup {NoTier} /\ visited' \subseteq Nodes
    BY <1>2 DEF Elect, Typed, TierKeys
  <2>2. pc' \in {pc, [pc EXCEPT ![p] = "swap"]}
    BY <1>2 DEF Elect
  <2>3. QED
    BY <1>2, <2>1, <2>2, PoolAssumption DEF Elect, Typed, Roles, Procs
<1>3. CASE Swap(p)
  BY <1>3, PoolAssumption DEF Swap, FirstTally, Typed, Roles, Procs
<1>4. CASE CountNode(p)
  BY <1>4, PoolAssumption DEF CountNode, Typed, Roles, Procs
<1>5. CASE SetPoolHealth(p)
  BY <1>5, PoolAssumption DEF SetPoolHealth, NeedNoWake, Typed, Roles, Procs
<1>6. CASE Notify(p)
  <2>1. notifyCh' \in [Nodes -> BOOLEAN] /\ visited' \subseteq Nodes
    BY <1>6 DEF Notify, Typed
  <2>2. QED
    BY <1>6, <2>1, PoolAssumption DEF Notify, Typed, Roles, Procs
<1>7. CASE UnlockPublish(p)
  <2>1. Typed'
    BY <1>7 DEF UnlockPublish, OwnerAfterPublish, Resume, Typed
  <2>2. Roles'
    BY <1>7, ResumePlaces, PoolAssumption DEF UnlockPublish, Typed, Roles, Procs
  <2>3. QED
    BY <2>1, <2>2
<1>8. QED
  BY <1>1, <1>2, <1>3, <1>4, <1>5, <1>6, <1>7 DEF PublishStep

LEMMA TypingLoop ==
  ASSUME Typed, Roles, NEW n \in Nodes, LoopStep(n)
  PROVE  Typed' /\ Roles'
<1> USE DEF nodeVars, pubVars, nextVars, stopVars
<1>1. PICK place \in {"arm", "armTier", "wait", "probe", "done"} :
        pc' = [pc EXCEPT ![n] = place]
  BY DEF LoopStep, Arm, ArmTier, Wake, Fire, Stop, StopLeadsTo
<1>2. /\ armed' \in [Nodes -> {"none", "unhealthy", "active", "inactive"}]
      /\ notifyCh' \in [Nodes -> BOOLEAN]
      /\ UNCHANGED <<nodeVars, pubVars, nextVars, stopVars>>
  BY DEF LoopStep, Arm, ArmTier, Wake, Fire, Stop, Typed
<1>3. Typed'
  BY <1>1, <1>2 DEF Typed
<1>4. Roles'
  BY <1>1, <1>2, PoolAssumption DEF Typed, Roles, Procs
<1>5. QED
  BY <1>3, <1>4

LEMMA TypingCloser ==
  ASSUME Typed, Roles, NEW k \in Closers, CloserStep(k)
  PROVE  Typed' /\ Roles'
<1>1. /\ stopped' \in BOOLEAN
      /\ closing' \in [Closers -> {"idle", "wait", "closing", "done"}]
      /\ shut' \in [Closers -> SUBSET Nodes]
  <2>1. CASE Close(k) \/ AwaitLoops(k)
    BY <2>1 DEF Close, AwaitLoops, Typed
  <2>2. CASE CloseTransport(k)
    <3>1. shut' \in [Closers -> SUBSET Nodes]
      BY <2>2 DEF CloseTransport, Typed
    <3>2. closing' \in [Closers -> {"idle", "wait", "closing", "done"}]
      BY <2>2 DEF CloseTransport, Typed
    <3>3. QED
      BY <2>2, <3>1, <3>2 DEF CloseTransport, Typed
  <2>3. QED
    BY <2>1, <2>2 DEF CloserStep
<1>2. UNCHANGED <<nodeVars, pubVars, nextVars, loopVars, pc>>
  BY DEF CloserStep, Close, AwaitLoops, CloseTransport,
         nodeVars, pubVars, nextVars, loopVars
<1>3. Typed'
  BY <1>1, <1>2 DEF Typed, nodeVars, pubVars, nextVars, loopVars
<1>4. Roles'
  BY <1>2 DEF Roles, nextVars
<1>5. QED
  BY <1>3, <1>4

\* Types and roles hold in every reachable state: no step of any process, on
\* whatever node, leaves a variable outside its type.
THEOREM Typing == Spec => [](Typed /\ Roles)
<1>1. Init => Typed /\ Roles
  BY TypingInit
<1>2. Typed /\ Roles /\ [Next]_vars => (Typed /\ Roles)'
  <2> SUFFICES ASSUME Typed, Roles, [Next]_vars
               PROVE  (Typed /\ Roles)'
    OBVIOUS
  <2>1. CASE UNCHANGED vars
    BY <2>1 DEF Typed, Roles, vars, nodeVars, pubVars, nextVars, loopVars, stopVars
  <2>2. CASE Next
    BY <2>2, TypingCaller, TypingOutcome, TypingPublish, TypingLoop, TypingCloser DEF Next
  <2>3. QED
    BY <2>1, <2>2
<1>3. QED
  BY <1>1, <1>2, PTL DEF Spec
-----------------------------------------------------------------------------
\* Only an outcome changes a node, and it goes through mark*.
LEMMA OnlyMarksChangeNodes ==
  ASSUME Typed, Roles, [Next]_vars
  PROVE  \/ UNCHANGED nodeVars
         \/ \E p \in Procs : /\ Target(p) \in Nodes
                             /\ \/ MarkSuccess(p, Target(p))
                                \/ MarkFailure(p, Target(p))
<1>1. CASE \E p \in Procs : OutcomeStep(p)
  <2>1. PICK p \in Procs : OutcomeStep(p)
    BY <1>1
  <2>2. Target(p) \in Nodes
    BY <2>1, PoolAssumption DEF OutcomeStep, Succeed, Fail, Ignore, Target, Roles, Procs
  <2>3. QED
    BY <2>1, <2>2 DEF OutcomeStep, Succeed, Fail, Ignore
<1>2. CASE \E c \in Callers : CallerStep(c)
  BY <1>2 DEF CallerStep, EnterTier, ScanNode, NoHealthyNodes, nodeVars
<1>3. CASE \E p \in Procs : PublishStep(p)
  BY <1>3 DEF PublishStep, LockPublish, Elect, Swap, CountNode, SetPoolHealth,
              Notify, UnlockPublish, nodeVars
<1>4. CASE \E n \in Nodes : LoopStep(n)
  BY <1>4 DEF LoopStep, Arm, ArmTier, Wake, Fire, Stop, nodeVars
<1>5. CASE \E k \in Closers : CloserStep(k)
  BY <1>5 DEF CloserStep, Close, AwaitLoops, CloseTransport, nodeVars
<1>6. CASE UNCHANGED vars
  BY <1>6 DEF vars, nodeVars
<1>7. QED
  BY <1>1, <1>2, <1>3, <1>4, <1>5, <1>6 DEF Next

\* markSuccess and markFailure keep every node's flag and counters in step,
\* whatever outcomes of RPCs and probes race on the node.
THEOREM ThresholdsKept == Spec => []ThresholdInv
<1>1. Init => ThresholdInv
  BY PoolAssumption DEF Init, ThresholdInv
<1>2. Typed /\ Roles /\ ThresholdInv /\ [Next]_vars => ThresholdInv'
  <2> SUFFICES ASSUME Typed, Roles, ThresholdInv, [Next]_vars
               PROVE  ThresholdInv'
    OBVIOUS
  <2>1. CASE UNCHANGED nodeVars
    BY <2>1 DEF nodeVars, ThresholdInv
  <2>2. ASSUME NEW p \in Procs, NEW n \in Nodes, MarkSuccess(p, n)
        PROVE  ThresholdInv'
    <3>1. \A m \in Nodes \ {n} : /\ healthy'[m] = healthy[m]
                                 /\ consecutiveSuccess'[m] = consecutiveSuccess[m]
                                 /\ consecutiveFailure'[m] = consecutiveFailure[m]
      BY <2>2 DEF MarkSuccess, Typed
    <3>2. consecutiveFailure'[n] = 0
      BY <2>2 DEF MarkSuccess, Typed
    <3>3. ~healthy'[n] => consecutiveSuccess'[n] < SuccessThreshold
      <4>1. healthy'[n] <=> healthy[n] \/ Readmits(n)
        BY <2>2 DEF MarkSuccess, Typed
      <4>2. consecutiveSuccess'[n] = Count(consecutiveSuccess[n], SuccessThreshold)
        BY <2>2 DEF MarkSuccess, Typed
      <4>3. consecutiveSuccess[n] \in Nat
        BY DEF Typed
      <4>4. QED
        BY <4>1, <4>2, <4>3, PoolAssumption DEF Readmits, Count
    <3>4. QED
      BY <3>1, <3>2, <3>3, PoolAssumption DEF ThresholdInv
  <2>3. ASSUME NEW p \in Procs, NEW n \in Nodes, MarkFailure(p, n)
        PROVE  ThresholdInv'
    <3>1. \A m \in Nodes \ {n} : /\ healthy'[m] = healthy[m]
                                 /\ consecutiveSuccess'[m] = consecutiveSuccess[m]
                                 /\ consecutiveFailure'[m] = consecutiveFailure[m]
      BY <2>3 DEF MarkFailure, Typed
    <3>2. consecutiveSuccess'[n] = 0
      BY <2>3 DEF MarkFailure, RunAfterFailure, Typed
    <3>3. healthy'[n] => consecutiveFailure'[n] < FailureThreshold
      <4>1. healthy'[n] <=> healthy[n] /\ ~Evicts(n)
        BY <2>3 DEF MarkFailure, Typed
      <4>2. consecutiveFailure'[n] = Count(consecutiveFailure[n], FailureThreshold)
        BY <2>3 DEF MarkFailure, Typed
      <4>3. consecutiveFailure[n] \in Nat
        BY DEF Typed
      <4>4. QED
        BY <4>1, <4>2, <4>3, PoolAssumption DEF Evicts, Count
    <3>4. QED
      BY <3>1, <3>2, <3>3, PoolAssumption DEF ThresholdInv
  <2>4. QED
    BY <2>1, <2>2, <2>3, OnlyMarksChangeNodes
<1>3. QED
  BY <1>1, <1>2, Typing, PTL DEF Spec
-----------------------------------------------------------------------------
Inside == {"elect", "swap", "count", "notify"}

\* publishMu is held by the one process inside onStateChange, and nothing is
\* left over from the previous holder when it is free.
OwnerInv ==
  /\ \A p \in Procs : pc[p] \in Inside <=> publishMu = p
  /\ publishMu = None => visited = {}

\* A step of a process outside onStateChange that stays outside.
StaysOutside(p) ==
  /\ \E place : pc' = [pc EXCEPT ![p] = place] /\ place \notin Inside
  /\ pc[p] \notin Inside
  /\ UNCHANGED pubVars

LEMMA OutsideSteps ==
  ASSUME Typed, Roles, NEW p \in Procs,
         \/ p \in Callers /\ CallerStep(p)
         \/ OutcomeStep(p)
         \/ p \in Nodes /\ LoopStep(p)
  PROVE  StaysOutside(p)
<1> USE DEF StaysOutside, Inside
<1>1. CASE p \in Callers /\ CallerStep(p)
  <2>1. PICK place \in {"idle", "tier", "scan", "call"} :
          pc' = [pc EXCEPT ![p] = place]
    BY <1>1 DEF CallerStep, EnterTier, ScanNode, NoHealthyNodes
  <2>2. pc[p] \in {"idle", "tier", "scan"} /\ UNCHANGED pubVars
    BY <1>1 DEF CallerStep, EnterTier, ScanNode, NoHealthyNodes
  <2>3. QED
    BY <2>1, <2>2
<1>2. CASE OutcomeStep(p)
  <2>1. PICK b \in BOOLEAN : AfterMark(p, b) /\ pc[p] \in {"call", "probe"}
    BY <1>2, PoolAssumption DEF OutcomeStep, Succeed, Fail, Ignore, MarkSuccess,
          MarkFailure, Readmits, Evicts, Typed, Target, Roles, Procs
  <2>2. QED
    BY <2>1, ResumePlaces DEF AfterMark
<1>3. CASE p \in Nodes /\ LoopStep(p)
  BY <1>3 DEF LoopStep, Arm, ArmTier, Wake, Fire, Stop, StopLeadsTo
<1>4. QED
  BY <1>1, <1>2, <1>3

LEMMA NoneIsNoProcess == None \notin Procs
BY PoolAssumption DEF Procs, Nodes, None

\* At most one process is inside onStateChange.
THEOREM PublishExclusive == Spec => []OwnerInv
<1>1. Init => OwnerInv
  BY NoneIsNoProcess, PoolAssumption DEF Init, OwnerInv, Inside, Procs
<1>2. Typed /\ Roles /\ OwnerInv /\ [Next]_vars => OwnerInv'
  <2> SUFFICES ASSUME Typed, Roles, OwnerInv, [Next]_vars
               PROVE  OwnerInv'
    OBVIOUS
  <2>1. ASSUME NEW p \in Procs, StaysOutside(p)
        PROVE  OwnerInv'
    BY <2>1 DEF StaysOutside, OwnerInv, Typed, pubVars
  <2>2. ASSUME NEW p \in Procs, PublishStep(p)
        PROVE  OwnerInv'
    <3>1. CASE LockPublish(p)
      BY <3>1, NoneIsNoProcess DEF LockPublish, OwnerInv, Inside, Typed
    <3>2. CASE Elect(p)
      BY <3>2, NoneIsNoProcess DEF Elect, OwnerInv, Inside, Typed
    <3>3. CASE Swap(p) \/ CountNode(p) \/ SetPoolHealth(p) \/ Notify(p)
      BY <3>3, NoneIsNoProcess
         DEF Swap, CountNode, SetPoolHealth, Notify, OwnerInv, Inside, Typed
    <3>4. CASE UnlockPublish(p)
      BY <3>4, NoneIsNoProcess, ResumePlaces
         DEF UnlockPublish, OwnerAfterPublish, OwnerInv, Inside, Typed, Procs
    <3>5. QED
      BY <2>2, <3>1, <3>2, <3>3, <3>4 DEF PublishStep
  <2>3. CASE \E k \in Closers : CloserStep(k)
    BY <2>3 DEF CloserStep, Close, AwaitLoops, CloseTransport, OwnerInv, pubVars
  <2>4. CASE UNCHANGED vars
    BY <2>4 DEF vars, pubVars, OwnerInv
  <2>5. QED
    BY <2>1, <2>2, <2>3, <2>4, OutsideSteps DEF Next, Procs
<1>3. QED
  BY <1>1, <1>2, Typing, PTL DEF Spec
-----------------------------------------------------------------------------
LEMMA NodesFinite == IsFiniteSet(Nodes) /\ Cardinality(Nodes) = N
BY FS_Interval, PoolAssumption DEF Nodes

\* Counting one more node in publishPoolMetricsLocked.
LEMMA CountOneMore ==
  ASSUME NEW S \in SUBSET Nodes, NEW n \in Nodes \ S
  PROVE  /\ IsFiniteSet(S) /\ Cardinality(S) \in Nat
         /\ Cardinality(S \cup {n}) = Cardinality(S) + 1
<1>1. IsFiniteSet(S)
  BY NodesFinite, FS_Subset
<1>2. QED
  BY <1>1, FS_CardinalityType, FS_AddElement

\* The nodes already counted by the publisher bound its count.
TallyInv ==
  /\ gauge <= N /\ tally <= N
  /\ \A p \in Procs : pc[p] = "count" => tally <= Cardinality(visited)

LEMMA TallyBounded ==
  ASSUME Typed, Roles, OwnerInv, TallyInv, [Next]_vars
  PROVE  TallyInv'
<1>1. ASSUME NEW p \in Procs, StaysOutside(p)
      PROVE  TallyInv'
  BY <1>1 DEF StaysOutside, Inside, TallyInv, Typed, pubVars
<1>2. ASSUME NEW p \in Procs, PublishStep(p)
      PROVE  TallyInv'
  <2>0. \A q \in Procs : q # p => pc'[q] = pc[q]
    BY <1>2 DEF PublishStep, LockPublish, Elect, Swap, CountNode, SetPoolHealth,
                Notify, UnlockPublish, Typed
  <2>1. CASE LockPublish(p) \/ Elect(p) \/ Notify(p) \/ UnlockPublish(p)
    <3>1. pc'[p] # "count" /\ gauge' = gauge /\ tally' = tally
      BY <2>1, ResumePlaces DEF LockPublish, Elect, Notify, UnlockPublish, Inside,
                                Typed, Procs
    <3>2. \A q \in Procs : pc'[q] # "count"
      <4>1. CASE LockPublish(p)
        BY <4>1, <2>0, <3>1, NoneIsNoProcess DEF LockPublish, OwnerInv, Inside
      <4>2. CASE Elect(p) \/ Notify(p) \/ UnlockPublish(p)
        BY <4>2, <2>0, <3>1 DEF Elect, Notify, UnlockPublish, OwnerInv, Inside
      <4>3. QED
        BY <2>1, <4>1, <4>2
    <3>3. QED
      BY <3>1, <3>2 DEF TallyInv
  <2>2. CASE Swap(p)
    <3>1. tally' = 0 /\ visited' = {} /\ gauge' = gauge
      BY <2>2 DEF Swap, FirstTally
    <3>2. QED
      BY <3>1, FS_EmptySet, PoolAssumption DEF TallyInv
  <2>3. CASE CountNode(p)
    <3>1. PICK n \in Nodes \ visited :
            /\ visited' = visited \cup {n}
            /\ tally' = IF healthy[n] THEN tally + 1 ELSE tally
      BY <2>3 DEF CountNode
    <3>2. Cardinality(visited') = Cardinality(visited) + 1 /\ Cardinality(visited) \in Nat
      BY <3>1, CountOneMore DEF Typed
    <3>3. tally <= Cardinality(visited) /\ tally \in Nat
      BY <2>3 DEF CountNode, TallyInv, Typed
    <3>4. tally' <= Cardinality(visited')
      BY <3>1, <3>2, <3>3
    <3>5. Cardinality(visited') \in Nat /\ Cardinality(visited') <= N
      BY <3>1, NodesFinite, FS_Subset, FS_CardinalityType DEF Typed
    <3>6. tally' <= N
      BY <3>1, <3>3, <3>4, <3>5, PoolAssumption
    <3>7. QED
      BY <2>3, <3>4, <3>6 DEF CountNode, TallyInv
  <2>4. CASE SetPoolHealth(p)
    <3>1. gauge' = tally /\ tally' = tally
      BY <2>4 DEF SetPoolHealth
    <3>2. \A q \in Procs : pc'[q] # "count"
      BY <2>0, <2>4 DEF SetPoolHealth, OwnerInv, Inside, Typed
    <3>3. QED
      BY <3>1, <3>2 DEF TallyInv
  <2>5. QED
    BY <1>2, <2>1, <2>2, <2>3, <2>4 DEF PublishStep
<1>3. CASE \E k \in Closers : CloserStep(k)
  BY <1>3 DEF CloserStep, Close, AwaitLoops, CloseTransport, TallyInv, pubVars
<1>4. CASE UNCHANGED vars
  BY <1>4 DEF vars, pubVars, TallyInv
<1>5. QED
  BY <1>1, <1>2, <1>3, <1>4, OutsideSteps DEF Next, Procs

\* TypeOK: with the count bounded by the scan, no variable leaves its type and
\* the gauge never reports more healthy nodes than are configured.
THEOREM TypeCorrect == Spec => []TypeOK
<1>1. Init => TallyInv
  BY PoolAssumption DEF Init, TallyInv, Procs
<1>2. Typed /\ Roles /\ OwnerInv /\ TallyInv /\ [Next]_vars => TallyInv'
  BY TallyBounded
<1>3. Typed /\ TallyInv => TypeOK
  BY PoolAssumption DEF Typed, TallyInv, TypeOK
<1>4. QED
  BY <1>1, <1>2, <1>3, Typing, PublishExclusive, PTL DEF Spec
-----------------------------------------------------------------------------
(***************************************************************************)
(* The election. While a flip waits to be published nothing is promised;   *)
(* with none waiting, what the holder of publishMu has read so far is      *)
(* still true, since whoever made it false would be waiting.               *)
(***************************************************************************)
NoFlipWaits == \A p \in Procs : pc[p] # "publish"

ScanIsCurrent(p) ==
  /\ pc[p] = "elect" => \A n \in visited : ~healthy[n]
  /\ pc[p] = "swap" => IsElected(newActive)
  /\ pc[p] \in {"count", "notify"} => IsElected(activeTier)
  /\ pc[p] = "count" => tally = Cardinality(visited \cap HealthyNodes)
  /\ pc[p] = "notify" => gauge = Cardinality(HealthyNodes)

ElectionInv ==
  NoFlipWaits =>
    /\ publishMu = None => IsElected(activeTier) /\ gauge = Cardinality(HealthyNodes)
    /\ \A p \in Procs : ScanIsCurrent(p)

\* The first healthy node met in tier order has the tier that is due.
LEMMA FirstHealthyIsElected ==
  ASSUME NEW n \in Nodes \ visited, FirstByTier(n, Nodes \ visited), healthy[n],
         \A m \in visited : ~healthy[m]
  PROVE  IsElected(Tier[n])
<1>1. ASSUME NEW m \in Nodes, healthy[m]
      PROVE  Tier[n] <= Tier[m]
  BY <1>1, PoolAssumption DEF FirstByTier
<1>2. QED
  BY <1>1 DEF IsElected

\* A step that neither flips a node nor touches onStateChange's variables.
LEMMA ElectionUntouched ==
  ASSUME ElectionInv, UNCHANGED <<healthy, pubVars>>, NoFlipWaits' => NoFlipWaits,
         \A p \in Procs : pc'[p] \in Inside => pc'[p] = pc[p]
  PROVE  ElectionInv'
<1> SUFFICES ASSUME NoFlipWaits'
             PROVE  /\ publishMu' = None => /\ IsElected(activeTier)'
                                            /\ (gauge = Cardinality(HealthyNodes))'
                    /\ \A p \in Procs : ScanIsCurrent(p)'
  BY DEF ElectionInv
<1>1. /\ HealthyNodes' = HealthyNodes
      /\ IsElected(activeTier)' <=> IsElected(activeTier)
      /\ IsElected(newActive)' <=> IsElected(newActive)
  BY DEF HealthyNodes, IsElected, pubVars
<1>2. publishMu' = None => /\ IsElected(activeTier)'
                           /\ (gauge = Cardinality(HealthyNodes))'
  BY <1>1 DEF ElectionInv, pubVars
<1>3. ASSUME NEW p \in Procs
      PROVE  ScanIsCurrent(p)'
  <2>1. ScanIsCurrent(p)
    BY DEF ElectionInv
  <2>2. QED
    BY <1>1, <2>1 DEF ScanIsCurrent, Inside, pubVars
<1>4. QED
  BY <1>2, <1>3

\* An outcome either flips no node or leaves its process waiting to publish.
LEMMA ElectionOutcome ==
  ASSUME Typed, Roles, ElectionInv, NEW p \in Procs, OutcomeStep(p)
  PROVE  ElectionInv'
<1>1. Target(p) \in Nodes
  BY PoolAssumption DEF OutcomeStep, Succeed, Fail, Ignore, Target, Roles, Procs
<1>2. PICK b \in BOOLEAN : AfterMark(p, b) /\ (~b => healthy' = healthy)
  <2>1. CASE Succeed(p)
    <3>1. Readmits(Target(p)) \in BOOLEAN /\ AfterMark(p, Readmits(Target(p)))
      BY <1>1, <2>1 DEF Succeed, MarkSuccess, Readmits, Typed
    <3>2. ~Readmits(Target(p)) => healthy' = healthy
      BY <1>1, <2>1 DEF Succeed, MarkSuccess, Typed
    <3>3. QED
      BY <3>1, <3>2
  <2>2. CASE Fail(p)
    <3>1. Evicts(Target(p)) \in BOOLEAN /\ AfterMark(p, Evicts(Target(p)))
      BY <1>1, <2>2 DEF Fail, MarkFailure, Evicts, Typed
    <3>2. ~Evicts(Target(p)) => healthy' = healthy
      BY <1>1, <2>2 DEF Fail, MarkFailure, Typed
    <3>3. QED
      BY <3>1, <3>2
  <2>3. CASE Ignore(p)
    BY <2>3 DEF Ignore, nodeVars
  <2>4. QED
    BY <2>1, <2>2, <2>3 DEF OutcomeStep
<1>3. pc' = [pc EXCEPT ![p] = OnTransition(p, b)] /\ UNCHANGED pubVars
  BY <1>2 DEF AfterMark
<1>4. CASE b
  BY <1>3, <1>4, ResumePlaces DEF ElectionInv, NoFlipWaits, Typed
<1>5. CASE ~b
  <2>1. pc[p] \in {"call", "probe"}
    BY DEF OutcomeStep, Succeed, Fail, Ignore
  <2>2. NoFlipWaits' => NoFlipWaits
    BY <1>3, <2>1 DEF NoFlipWaits, Typed
  <2>3. \A q \in Procs : pc'[q] \in Inside => pc'[q] = pc[q]
    BY <1>3, <1>5, ResumePlaces DEF Inside, Typed
  <2>4. QED
    BY <1>2, <1>3, <1>5, <2>2, <2>3, ElectionUntouched
<1>6. QED
  BY <1>4, <1>5

LEMMA ElectionPublish ==
  ASSUME Typed, Roles, OwnerInv, ElectionInv, NEW p \in Procs, PublishStep(p)
  PROVE  ElectionInv'
<1> SUFFICES ASSUME NoFlipWaits'
             PROVE  /\ publishMu' = None => /\ IsElected(activeTier)'
                                            /\ (gauge = Cardinality(HealthyNodes))'
                    /\ \A q \in Procs : ScanIsCurrent(q)'
  BY DEF ElectionInv
<1>1. healthy' = healthy /\ HealthyNodes' = HealthyNodes
  BY DEF PublishStep, LockPublish, Elect, Swap, CountNode, SetPoolHealth,
         Notify, UnlockPublish, nodeVars, HealthyNodes
<1>2. \A q \in Procs \ {p} : pc'[q] = pc[q]
  BY DEF PublishStep, LockPublish, Elect, Swap, CountNode, SetPoolHealth,
         Notify, UnlockPublish, Typed
<1>3. \A q \in Procs \ {p} : pc'[q] \notin Inside
  <2>1. CASE LockPublish(p)
    BY <1>2, <2>1, NoneIsNoProcess DEF LockPublish, OwnerInv
  <2>2. CASE ~LockPublish(p)
    BY <1>2, <2>2 DEF PublishStep, Elect, Swap, CountNode, SetPoolHealth,
         Notify, UnlockPublish, OwnerInv, Inside
  <2>3. QED
    BY <2>1, <2>2
<1>4. \A q \in Procs \ {p} : ScanIsCurrent(q)'
  BY <1>3 DEF ScanIsCurrent, Inside
<1>5. pc[p] # "publish" => ScanIsCurrent(p)
  BY <1>2 DEF NoFlipWaits, ElectionInv
<1>6. CASE LockPublish(p)
  <2>1. pc'[p] = "elect" /\ visited' = {} /\ publishMu' = p
    BY <1>6 DEF LockPublish, OwnerInv, Typed
  <2>2. ScanIsCurrent(p)'
    BY <2>1 DEF ScanIsCurrent
  <2>3. QED
    BY <1>4, <2>1, <2>2, NoneIsNoProcess
<1>7. CASE Elect(p)
  <2>1. publishMu' = p /\ (\A m \in visited : ~healthy[m])
    BY <1>5, <1>7 DEF Elect, ScanIsCurrent, OwnerInv, Inside
  <2>2. CASE \E n \in Nodes \ visited : /\ FirstByTier(n, Nodes \ visited)
                                        /\ healthy[n]
                                        /\ newActive' = Tier[n]
                                        /\ pc' = [pc EXCEPT ![p] = "swap"]
    <3>1. IsElected(newActive')
      BY <2>1, <2>2, FirstHealthyIsElected
    <3>2. pc'[p] = "swap"
      BY <2>2 DEF Typed
    <3>3. ScanIsCurrent(p)'
      BY <1>1, <3>1, <3>2 DEF ScanIsCurrent, IsElected
    <3>4. QED
      BY <1>4, <2>1, <3>3, NoneIsNoProcess
  <2>3. CASE \E n \in Nodes \ visited : /\ ~healthy[n]
                                        /\ visited' = visited \cup {n}
                                        /\ pc' = pc
    <3>1. ScanIsCurrent(p)'
      BY <1>1, <1>7, <2>1, <2>3 DEF ScanIsCurrent, Elect
    <3>2. QED
      BY <1>4, <2>1, <3>1, NoneIsNoProcess
  <2>4. CASE visited = Nodes /\ newActive' = NoTier /\ pc' = [pc EXCEPT ![p] = "swap"]
    <3>1. IsElected(newActive')
      BY <2>1, <2>4 DEF IsElected
    <3>2. pc'[p] = "swap"
      BY <2>4 DEF Typed
    <3>3. ScanIsCurrent(p)'
      BY <1>1, <3>1, <3>2 DEF ScanIsCurrent, IsElected
    <3>4. QED
      BY <1>4, <2>1, <3>3, NoneIsNoProcess
  <2>5. QED
    BY <1>7, <2>2, <2>3, <2>4 DEF Elect
<1>8. CASE Swap(p)
  <2>1. publishMu' = p /\ pc'[p] = "count" /\ IsElected(newActive)
    BY <1>5, <1>8 DEF Swap, ScanIsCurrent, OwnerInv, Inside, Typed
  <2>2. activeTier' = newActive /\ visited' = {} /\ tally' = 0
    BY <1>8 DEF Swap, FirstTally
  <2>3. IsElected(activeTier)'
    BY <1>1, <2>1, <2>2 DEF IsElected
  <2>4. tally' = Cardinality(visited' \cap HealthyNodes')
    BY <2>2, FS_EmptySet
  <2>5. ScanIsCurrent(p)'
    BY <2>1, <2>3, <2>4 DEF ScanIsCurrent
  <2>6. QED
    BY <1>4, <2>1, <2>5, NoneIsNoProcess
<1>9. CASE CountNode(p)
  <2>1. /\ publishMu' = p /\ pc'[p] = "count" /\ activeTier' = activeTier
        /\ IsElected(activeTier) /\ tally = Cardinality(visited \cap HealthyNodes)
    BY <1>5, <1>9 DEF CountNode, ScanIsCurrent, OwnerInv, Inside, Typed
  <2>2. PICK n \in Nodes \ visited :
          /\ visited' = visited \cup {n}
          /\ tally' = IF healthy[n] THEN tally + 1 ELSE tally
    BY <1>9 DEF CountNode
  <2>3. tally' = Cardinality(visited' \cap HealthyNodes')
    <3>1. CASE healthy[n]
      <4>1. visited' \cap HealthyNodes' = (visited \cap HealthyNodes) \cup {n}
        BY <1>1, <2>2, <3>1 DEF HealthyNodes
      <4>2. Cardinality((visited \cap HealthyNodes) \cup {n})
              = Cardinality(visited \cap HealthyNodes) + 1
        BY CountOneMore DEF Typed
      <4>3. QED
        BY <2>1, <2>2, <3>1, <4>1, <4>2
    <3>2. CASE ~healthy[n]
      <4>1. visited' \cap HealthyNodes' = visited \cap HealthyNodes
        BY <1>1, <2>2, <3>2 DEF HealthyNodes
      <4>2. QED
        BY <2>1, <2>2, <3>2, <4>1
    <3>3. QED
      BY <3>1, <3>2
  <2>4. IsElected(activeTier)'
    BY <1>1, <2>1 DEF IsElected
  <2>5. ScanIsCurrent(p)'
    BY <2>1, <2>3, <2>4 DEF ScanIsCurrent
  <2>6. QED
    BY <1>4, <2>1, <2>5, NoneIsNoProcess
<1>10. CASE SetPoolHealth(p)
  <2>1. /\ publishMu' = p /\ pc'[p] = "notify" /\ activeTier' = activeTier
        /\ IsElected(activeTier) /\ gauge' = Cardinality(Nodes \cap HealthyNodes)
    BY <1>5, <1>10 DEF SetPoolHealth, ScanIsCurrent, OwnerInv, Inside, Typed
  <2>2. Nodes \cap HealthyNodes = HealthyNodes
    BY DEF HealthyNodes
  <2>3. IsElected(activeTier)'
    BY <1>1, <2>1 DEF IsElected
  <2>4. ScanIsCurrent(p)'
    BY <1>1, <2>1, <2>2, <2>3 DEF ScanIsCurrent
  <2>5. QED
    BY <1>4, <2>1, <2>4, NoneIsNoProcess
<1>11. CASE Notify(p)
  <2>1. /\ publishMu' = p /\ pc'[p] = "notify" /\ activeTier' = activeTier
        /\ IsElected(activeTier) /\ gauge' = Cardinality(HealthyNodes)
    BY <1>5, <1>11 DEF Notify, ScanIsCurrent, OwnerInv, Inside, Typed
  <2>2. IsElected(activeTier)'
    BY <1>1, <2>1 DEF IsElected
  <2>3. ScanIsCurrent(p)'
    BY <1>1, <2>1, <2>2 DEF ScanIsCurrent
  <2>4. QED
    BY <1>4, <2>1, <2>3, NoneIsNoProcess
<1>12. CASE UnlockPublish(p)
  <2>1. /\ pc'[p] \notin Inside /\ activeTier' = activeTier
        /\ IsElected(activeTier) /\ gauge' = Cardinality(HealthyNodes)
    BY <1>5, <1>12, ResumePlaces
       DEF UnlockPublish, ScanIsCurrent, Inside, Typed, Procs
  <2>2. IsElected(activeTier)'
    BY <1>1, <2>1 DEF IsElected
  <2>3. ScanIsCurrent(p)'
    BY <2>1 DEF ScanIsCurrent, Inside
  <2>4. QED
    BY <1>1, <1>4, <2>1, <2>2, <2>3
<1>13. QED
  BY <1>6, <1>7, <1>8, <1>9, <1>10, <1>11, <1>12 DEF PublishStep

\* What the publisher has read stays true until somebody waits to publish, for
\* every pool and every interleaving of callers and loops.
THEOREM ElectionTracked == Spec => []ElectionInv
<1>1. Init => ElectionInv
  <2> SUFFICES ASSUME Init PROVE ElectionInv
    OBVIOUS
  <2>1. IsElected(activeTier)
    BY PoolAssumption DEF Init, IsElected, TierKeys
  <2>2. gauge = Cardinality(HealthyNodes)
    <3>1. HealthyNodes = Nodes
      BY DEF Init, HealthyNodes
    <3>2. QED
      BY <3>1, NodesFinite DEF Init
  <2>3. \A p \in Procs : ScanIsCurrent(p)
    BY DEF Init, ScanIsCurrent
  <2>4. QED
    BY <2>1, <2>2, <2>3 DEF ElectionInv
<1>2. Typed /\ Roles /\ OwnerInv /\ ElectionInv /\ [Next]_vars => ElectionInv'
  <2> SUFFICES ASSUME Typed, Roles, OwnerInv, ElectionInv, [Next]_vars
               PROVE  ElectionInv'
    OBVIOUS
  <2>1. CASE \E c \in Callers : CallerStep(c)
    <3>1. PICK c \in Callers : CallerStep(c)
      BY <2>1
    <3>2. PICK place \in {"idle", "tier", "scan", "call"} :
            pc' = [pc EXCEPT ![c] = place]
      BY <3>1 DEF CallerStep, EnterTier, ScanNode, NoHealthyNodes
    <3>3. pc[c] \in {"idle", "tier", "scan"} /\ UNCHANGED <<healthy, pubVars>>
      BY <3>1 DEF CallerStep, EnterTier, ScanNode, NoHealthyNodes, nodeVars
    <3>4. /\ NoFlipWaits' => NoFlipWaits
          /\ \A p \in Procs : pc'[p] \in Inside => pc'[p] = pc[p]
      BY <3>2, <3>3 DEF NoFlipWaits, Inside, Typed, Procs
    <3>5. QED
      BY <3>3, <3>4, ElectionUntouched
  <2>2. CASE \E n \in Nodes : LoopStep(n)
    <3>1. PICK n \in Nodes : LoopStep(n)
      BY <2>2
    <3>2. PICK place \in {"arm", "armTier", "wait", "probe", "done"} :
            pc' = [pc EXCEPT ![n] = place]
      BY <3>1 DEF LoopStep, Arm, ArmTier, Wake, Fire, Stop, StopLeadsTo
    <3>3. pc[n] \in {"arm", "armTier", "wait"} /\ UNCHANGED <<healthy, pubVars>>
      BY <3>1 DEF LoopStep, Arm, ArmTier, Wake, Fire, Stop, nodeVars
    <3>4. /\ NoFlipWaits' => NoFlipWaits
          /\ \A p \in Procs : pc'[p] \in Inside => pc'[p] = pc[p]
      BY <3>2, <3>3 DEF NoFlipWaits, Inside, Typed, Procs
    <3>5. QED
      BY <3>3, <3>4, ElectionUntouched
  <2>3. CASE \E k \in Closers : CloserStep(k)
    <3>1. UNCHANGED <<healthy, pubVars>> /\ pc' = pc
      BY <2>3 DEF CloserStep, Close, AwaitLoops, CloseTransport, nodeVars
    <3>2. QED
      BY <3>1, ElectionUntouched DEF NoFlipWaits
  <2>4. CASE UNCHANGED vars
    <3>1. UNCHANGED <<healthy, pubVars>> /\ pc' = pc
      BY <2>4 DEF vars, nodeVars
    <3>2. QED
      BY <3>1, ElectionUntouched DEF NoFlipWaits
  <2>5. QED
    BY <2>1, <2>2, <2>3, <2>4, ElectionOutcome, ElectionPublish DEF Next
<1>3. QED
  BY <1>1, <1>2, Typing, PublishExclusive, PTL DEF Spec

\* Convergence of failover: whenever no flip is left to publish, the active
\* tier is the lowest one with a healthy node and the gauge counts the healthy
\* nodes, for every pool and every interleaving of callers and loops.
THEOREM ActiveTierConverges == Spec => []Converged
<1>1. Typed /\ OwnerInv /\ ElectionInv => Converged
  <2> SUFFICES ASSUME Typed, OwnerInv, ElectionInv,
                      \A p \in Procs : ~Publishing(p)
               PROVE  IsElected(activeTier) /\ gauge = Cardinality(HealthyNodes)
    BY DEF Converged
  <2>1. NoFlipWaits /\ \A p \in Procs : pc[p] \notin Inside
    BY DEF NoFlipWaits, Publishing, Inside
  <2>2. publishMu = None
    BY <2>1 DEF OwnerInv, Typed
  <2>3. QED
    BY <2>1, <2>2 DEF ElectionInv
<1>2. QED
  BY <1>1, ElectionTracked, Typing, PublishExclusive, PTL
-----------------------------------------------------------------------------
\* n waits on an interval that was chosen for another active tier.
ArmedStale(n) ==
  /\ pc[n] = "wait"
  /\ \/ armed[n] = "active" /\ activeTier # Tier[n]
     \/ armed[n] = "inactive" /\ activeTier = Tier[n]

\* A step that leaves alone the waiting loops, the tokens and onStateChange.
LEMMA WakeupUntouched ==
  ASSUME NoLostWakeup, UNCHANGED <<notifyCh, pubVars>>,
         \A n \in Nodes : pc'[n] = "wait" => pc[n] = "wait" /\ armed'[n] = armed[n],
         \A p \in Procs : pc[p] \in Inside => pc'[p] = pc[p]
  PROVE  NoLostWakeup'
<1>1. \A n \in Nodes : ArmedStale(n)' => ArmedStale(n)
  BY DEF ArmedStale, pubVars
<1>2. \A n \in Nodes : StillToWake(n) => StillToWake(n)'
  BY DEF StillToWake, Inside, pubVars
<1>3. QED
  BY <1>1, <1>2 DEF NoLostWakeup, ArmedStale

LEMMA WakeupPublish ==
  ASSUME Typed, Roles, OwnerInv, NoLostWakeup, NEW p \in Procs, PublishStep(p)
  PROVE  NoLostWakeup'
<1>1. \A q \in Procs \ {p} : pc'[q] = pc[q]
  BY DEF PublishStep, LockPublish, Elect, Swap, CountNode, SetPoolHealth,
         Notify, UnlockPublish, Typed
<1>2. armed' = armed /\ \A n \in Nodes : pc'[n] = "wait" => pc[n] = "wait"
  <2>1. pc'[p] # "wait" /\ armed' = armed
    BY ResumePlaces
       DEF PublishStep, LockPublish, Elect, Swap, CountNode, SetPoolHealth,
           Notify, UnlockPublish, Typed, Procs, loopVars
  <2>2. QED
    BY <1>1, <2>1 DEF Procs
<1> SUFFICES ASSUME NEW n \in Nodes, ArmedStale(n)'
             PROVE  notifyCh'[n] \/ StillToWake(n)'
  BY DEF NoLostWakeup, ArmedStale
<1>3. activeTier' = activeTier => notifyCh[n] \/ StillToWake(n)
  BY <1>2 DEF ArmedStale, NoLostWakeup
<1>4. CASE LockPublish(p)
  <2>1. notifyCh' = notifyCh /\ activeTier' = activeTier /\ ~StillToWake(n)
    BY <1>4, NoneIsNoProcess DEF LockPublish, StillToWake, OwnerInv, Inside, loopVars
  <2>2. QED
    BY <1>3, <2>1
<1>5. CASE Elect(p)
  <2>1. notifyCh' = notifyCh /\ activeTier' = activeTier /\ ~StillToWake(n)
    BY <1>5 DEF Elect, StillToWake, OwnerInv, Inside, loopVars
  <2>2. QED
    BY <1>3, <2>1
<1>6. CASE Swap(p)
  <2>1. notifyCh' = notifyCh /\ ~StillToWake(n)
    BY <1>6 DEF Swap, StillToWake, OwnerInv, Inside, loopVars
  <2>2. pc'[p] = "count" /\ oldActive' = activeTier
    BY <1>6 DEF Swap, Typed
  <2>3. CASE activeTier' = activeTier
    BY <1>3, <2>1, <2>3
  <2>4. CASE activeTier' # activeTier
    BY <2>2, <2>4 DEF StillToWake
  <2>5. QED
    BY <2>3, <2>4
<1>7. CASE CountNode(p)
  <2>1. notifyCh' = notifyCh /\ activeTier' = activeTier /\ oldActive' = oldActive
        /\ pc' = pc
    BY <1>7 DEF CountNode, loopVars
  <2>2. \A q \in Procs : pc[q] # "notify"
    BY <1>7 DEF CountNode, OwnerInv, Inside
  <2>3. StillToWake(n) => StillToWake(n)'
    BY <2>1, <2>2 DEF StillToWake
  <2>4. QED
    BY <1>3, <2>1, <2>3
<1>8. CASE SetPoolHealth(p)
  <2>1. /\ notifyCh' = notifyCh /\ activeTier' = activeTier /\ oldActive' = oldActive
        /\ visited' = NeedNoWake /\ pc'[p] = "notify"
    BY <1>8 DEF SetPoolHealth, loopVars, Typed
  <2>2. StillToWake(n) => StillToWake(n)'
    BY <2>1 DEF StillToWake, NeedNoWake
  <2>3. QED
    BY <1>3, <2>1, <2>2
<1>9. CASE Notify(p)
  <2>1. PICK m \in Nodes \ visited : /\ visited' = visited \cup {m}
                                     /\ notifyCh' = [notifyCh EXCEPT ![m] = TRUE]
    BY <1>9 DEF Notify
  <2>2. activeTier' = activeTier /\ oldActive' = oldActive /\ pc' = pc
    BY <1>9 DEF Notify
  <2>3. CASE n = m
    BY <2>1, <2>3 DEF Typed
  <2>4. CASE n # m
    <3>1. notifyCh'[n] = notifyCh[n]
      BY <2>1, <2>4 DEF Typed
    <3>2. StillToWake(n) => StillToWake(n)'
      BY <2>1, <2>2, <2>4 DEF StillToWake
    <3>3. QED
      BY <1>3, <2>2, <3>1, <3>2
  <2>5. QED
    BY <2>3, <2>4
<1>10. CASE UnlockPublish(p)
  <2>1. notifyCh' = notifyCh /\ activeTier' = activeTier /\ ~StillToWake(n)
    BY <1>10 DEF UnlockPublish, StillToWake, OwnerInv, Inside, loopVars
  <2>2. QED
    BY <1>3, <2>1
<1>11. QED
  BY <1>4, <1>5, <1>6, <1>7, <1>8, <1>9, <1>10 DEF PublishStep

\* No tier shift is lost on a loop: one that waits on an interval chosen for
\* another active tier has a token or is about to be given one.
THEOREM WakeupsKept == Spec => []NoLostWakeup
<1>1. Init => NoLostWakeup
  BY DEF Init, NoLostWakeup
<1>2. Typed /\ Roles /\ OwnerInv /\ NoLostWakeup /\ [Next]_vars => NoLostWakeup'
  <2> SUFFICES ASSUME Typed, Roles, OwnerInv, NoLostWakeup, [Next]_vars
               PROVE  NoLostWakeup'
    OBVIOUS
  <2>1. CASE \E c \in Callers : CallerStep(c)
    <3>1. PICK c \in Callers : CallerStep(c)
      BY <2>1
    <3>2. PICK place \in {"idle", "tier", "scan", "call"} :
            pc' = [pc EXCEPT ![c] = place]
      BY <3>1 DEF CallerStep, EnterTier, ScanNode, NoHealthyNodes
    <3>3. /\ pc[c] \in {"idle", "tier", "scan"}
          /\ UNCHANGED <<notifyCh, pubVars>> /\ armed' = armed
      BY <3>1 DEF CallerStep, EnterTier, ScanNode, NoHealthyNodes, loopVars
    <3>4. /\ \A n \in Nodes : pc'[n] = "wait" => pc[n] = "wait"
          /\ \A p \in Procs : pc[p] \in Inside => pc'[p] = pc[p]
      BY <3>2, <3>3 DEF Inside, Typed, Procs
    <3>5. QED
      BY <3>3, <3>4, WakeupUntouched
  <2>2. CASE \E p \in Procs : OutcomeStep(p)
    <3>1. PICK p \in Procs : OutcomeStep(p)
      BY <2>2
    <3>2. PICK b \in BOOLEAN : AfterMark(p, b) /\ pc[p] \in {"call", "probe"}
      BY <3>1, PoolAssumption DEF OutcomeStep, Succeed, Fail, Ignore, MarkSuccess,
            MarkFailure, Readmits, Evicts, Typed, Target, Roles, Procs
    <3>3. UNCHANGED <<notifyCh, pubVars>> /\ armed' = armed
      BY <3>2 DEF AfterMark, loopVars
    <3>4. /\ \A n \in Nodes : pc'[n] = "wait" => pc[n] = "wait"
          /\ \A q \in Procs : pc[q] \in Inside => pc'[q] = pc[q]
      BY <3>2, ResumePlaces DEF AfterMark, Inside, Typed, Procs
    <3>5. QED
      BY <3>3, <3>4, WakeupUntouched
  <2>3. CASE \E n \in Nodes : LoopStep(n)
    <3>1. PICK m \in Nodes : LoopStep(m)
      BY <2>3
    <3>2. UNCHANGED pubVars
      BY <3>1 DEF LoopStep, Arm, ArmTier, Wake, Fire, Stop
    <3>3. PICK place \in {"arm", "armTier", "wait", "probe", "done"} :
            pc' = [pc EXCEPT ![m] = place]
      BY <3>1 DEF LoopStep, Arm, ArmTier, Wake, Fire, Stop, StopLeadsTo
    <3>4. pc[m] \in {"arm", "armTier", "wait"}
      BY <3>1 DEF LoopStep, Arm, ArmTier, Wake, Fire, Stop
    <3>5. \A n \in Nodes : StillToWake(n) => StillToWake(n)'
      BY <3>2, <3>3, <3>4 DEF StillToWake, pubVars, Typed, Procs
    <3>6. ~ArmedStale(m)'
      BY <3>1 DEF LoopStep, Arm, ArmTier, Wake, Fire, Stop, StopLeadsTo,
                  ArmedStale, Typed, Procs, pubVars
    <3>7. ASSUME NEW n \in Nodes \ {m}
          PROVE  pc'[n] = pc[n] /\ armed'[n] = armed[n] /\ notifyCh'[n] = notifyCh[n]
      BY <3>1, <3>3 DEF LoopStep, Arm, ArmTier, Wake, Fire, Stop, Typed, Procs
    <3>8. \A n \in Nodes : ArmedStale(n)' => n # m /\ ArmedStale(n)
      BY <3>2, <3>6, <3>7 DEF ArmedStale, pubVars
    <3>9. QED
      BY <3>5, <3>7, <3>8 DEF NoLostWakeup, ArmedStale
  <2>4. CASE \E k \in Closers : CloserStep(k)
    <3>1. UNCHANGED <<notifyCh, pubVars>> /\ armed' = armed /\ pc' = pc
      BY <2>4 DEF CloserStep, Close, AwaitLoops, CloseTransport, loopVars
    <3>2. QED
      BY <3>1, WakeupUntouched
  <2>5. CASE UNCHANGED vars
    <3>1. UNCHANGED <<notifyCh, pubVars>> /\ armed' = armed /\ pc' = pc
      BY <2>5 DEF vars, loopVars
    <3>2. QED
      BY <3>1, WakeupUntouched
  <2>6. QED
    BY <2>1, <2>2, <2>3, <2>4, <2>5, WakeupPublish DEF Next
<1>3. QED
  BY <1>1, <1>2, Typing, PublishExclusive, PTL DEF Spec
-----------------------------------------------------------------------------
\* A closer that is closing transports has seen every loop exit.
CloseInv ==
  \A k \in Closers :
    closing[k] \in {"closing", "done"} \/ shut[k] # {} => LoopsExited

\* Close never closes a transport while a loop that may probe it is alive, with
\* any number of concurrent calls of Close.
THEOREM CloseWaitsForLoops == Spec => []ClosedAfterLoops
<1>1. Init => CloseInv
  BY DEF Init, CloseInv
<1>2. Typed /\ Roles /\ CloseInv /\ [Next]_vars => CloseInv'
  <2> SUFFICES ASSUME Typed, Roles, CloseInv, [Next]_vars
               PROVE  CloseInv'
    OBVIOUS
  <2>1. LoopsExited => LoopsExited'
    <3>1. ASSUME NEW n \in Nodes, pc[n] = "done"
          PROVE  pc'[n] = "done"
      <4>1. ASSUME NEW c \in Callers, CallerStep(c)
            PROVE  pc'[n] = "done"
        <5>1. PICK place : pc' = [pc EXCEPT ![c] = place]
          BY <4>1 DEF CallerStep, EnterTier, ScanNode, NoHealthyNodes
        <5>2. QED
          BY <3>1, <5>1, PoolAssumption DEF Typed, Procs
      <4>2. ASSUME NEW p \in Procs, OutcomeStep(p)
            PROVE  pc'[n] = "done"
        <5>1. PICK place : pc' = [pc EXCEPT ![p] = place]
          BY <4>2 DEF OutcomeStep, Succeed, Fail, Ignore, MarkSuccess, MarkFailure,
                      AfterMark
        <5>2. pc[p] # "done"
          BY <4>2 DEF OutcomeStep, Succeed, Fail, Ignore
        <5>3. QED
          BY <3>1, <5>1, <5>2 DEF Typed, Procs
      <4>3. ASSUME NEW p \in Procs, PublishStep(p)
            PROVE  pc'[n] = "done"
        <5>1. pc[p] # "done" /\ \A q \in Procs \ {p} : pc'[q] = pc[q]
          BY <4>3 DEF PublishStep, LockPublish, Elect, Swap, CountNode, SetPoolHealth,
                      Notify, UnlockPublish, Typed
        <5>2. QED
          BY <3>1, <5>1 DEF Procs
      <4>4. ASSUME NEW m \in Nodes, LoopStep(m)
            PROVE  pc'[n] = "done"
        <5>1. pc[m] # "done" /\ \A q \in Procs \ {m} : pc'[q] = pc[q]
          BY <4>4 DEF LoopStep, Arm, ArmTier, Wake, Fire, Stop, Typed
        <5>2. QED
          BY <3>1, <5>1 DEF Procs
      <4>5. CASE (\E k \in Closers : CloserStep(k)) \/ UNCHANGED vars
        BY <3>1, <4>5 DEF CloserStep, Close, AwaitLoops, CloseTransport, vars
      <4>6. QED
        BY <4>1, <4>2, <4>3, <4>4, <4>5 DEF Next
    <3>2. QED
      BY <3>1 DEF LoopsExited
  <2>2. CASE UNCHANGED stopVars
    BY <2>1, <2>2 DEF CloseInv, stopVars
  <2>3. ASSUME NEW k \in Closers, CloserStep(k)
        PROVE  CloseInv'
    <3>1. CASE Close(k)
      BY <2>1, <3>1 DEF Close, CloseInv, Typed
    <3>2. CASE AwaitLoops(k)
      BY <2>1, <3>2 DEF AwaitLoops, CloseInv, Typed
    <3>3. CASE CloseTransport(k)
      BY <2>1, <3>3 DEF CloseTransport, CloseInv, Typed
    <3>4. QED
      BY <2>3, <3>1, <3>2, <3>3 DEF CloserStep
  <2>4. CASE \E c \in Callers : CallerStep(c)
    BY <2>2, <2>4 DEF CallerStep, EnterTier, ScanNode, NoHealthyNodes
  <2>5. CASE \E p \in Procs : OutcomeStep(p)
    BY <2>2, <2>5 DEF OutcomeStep, Succeed, Fail, Ignore, MarkSuccess, MarkFailure,
                      AfterMark
  <2>6. CASE \E p \in Procs : PublishStep(p)
    BY <2>2, <2>6 DEF PublishStep, LockPublish, Elect, Swap, CountNode,
                      SetPoolHealth, Notify, UnlockPublish
  <2>7. CASE \E n \in Nodes : LoopStep(n)
    BY <2>2, <2>7 DEF LoopStep, Arm, ArmTier, Wake, Fire, Stop
  <2>8. CASE UNCHANGED vars
    BY <2>2, <2>8 DEF vars
  <2>9. QED
    BY <2>3, <2>4, <2>5, <2>6, <2>7, <2>8 DEF Next
<1>3. CloseInv => ClosedAfterLoops
  BY DEF CloseInv, ClosedAfterLoops, LoopsExited
<1>4. QED
  BY <1>1, <1>2, <1>3, Typing, PTL DEF Spec
-----------------------------------------------------------------------------
(***************************************************************************)
(* HealthPool implements PoolElection, for every pool.                     *)
(***************************************************************************)

\* The processes that have flipped a node and not yet swapped activeTier.
Owing == {p \in Procs : pc[p] \in {"publish", "elect", "swap"}}

\* activeTier is due exactly when the abstract pool would serve it.
LEMMA ElectedServes ==
  ASSUME NEW t, IsElected(t)
  PROVE  Election!Serves(t, HealthyNodes)
BY DEF IsElected, Election!Serves, HealthyNodes

\* A step that touches neither health, nor the tier, nor who owes, stutters.
LEMMA OwingUntouched ==
  ASSUME UNCHANGED <<healthy, activeTier>>, Owing' = Owing
  PROVE  UNCHANGED Election!vars
BY DEF Election!vars, HealthyNodes, Owing

\* An outcome flips a node, and then its process owes, or it changes nothing
\* the election is about.
LEMMA OutcomeElects ==
  ASSUME Typed, Roles, NEW p \in Procs, OutcomeStep(p)
  PROVE  [Election!Next]_(Election!vars)
<1>1. Target(p) \in Nodes /\ pc[p] \in {"call", "probe"}
  BY PoolAssumption DEF OutcomeStep, Succeed, Fail, Ignore, Target, Roles, Procs
<1>2. PICK b \in BOOLEAN :
        /\ AfterMark(p, b)
        /\ ~b => healthy' = healthy
        /\ b => healthy' = [healthy EXCEPT ![Target(p)] = ~@]
  <2>1. CASE Succeed(p)
    <3>1. Readmits(Target(p)) \in BOOLEAN /\ AfterMark(p, Readmits(Target(p)))
      BY <1>1, <2>1 DEF Succeed, MarkSuccess, Readmits, Typed
    <3>2. /\ ~Readmits(Target(p)) => healthy' = healthy
          /\ Readmits(Target(p)) => healthy' = [healthy EXCEPT ![Target(p)] = ~@]
      BY <1>1, <2>1 DEF Succeed, MarkSuccess, Readmits, Typed
    <3>3. QED
      BY <3>1, <3>2
  <2>2. CASE Fail(p)
    <3>1. Evicts(Target(p)) \in BOOLEAN /\ AfterMark(p, Evicts(Target(p)))
      BY <1>1, <2>2 DEF Fail, MarkFailure, Evicts, Typed
    <3>2. /\ ~Evicts(Target(p)) => healthy' = healthy
          /\ Evicts(Target(p)) => healthy' = [healthy EXCEPT ![Target(p)] = ~@]
      BY <1>1, <2>2 DEF Fail, MarkFailure, Evicts, Typed
    <3>3. QED
      BY <3>1, <3>2
  <2>3. CASE Ignore(p)
    BY <2>3 DEF Ignore, nodeVars
  <2>4. QED
    BY <2>1, <2>2, <2>3 DEF OutcomeStep
<1>3. pc' = [pc EXCEPT ![p] = OnTransition(p, b)] /\ UNCHANGED activeTier
  BY <1>2 DEF AfterMark, pubVars
<1>4. CASE b
  <2>1. p \notin Owing /\ Owing' = Owing \cup {p}
    <3>1. OnTransition(p, b) = "publish"
      BY <1>4 DEF OnTransition
    <3>2. /\ pc'[p] = "publish"
          /\ \A q \in Procs \ {p} : pc'[q] = pc[q]
      BY <1>3, <3>1 DEF Typed
    <3>3. QED
      BY <1>1, <3>2 DEF Owing
  <2>2. PICK n \in Nodes : n = Target(p)
    BY <1>1
  <2>3. HealthyNodes' = IF n \in HealthyNodes
                          THEN HealthyNodes \ {n}
                          ELSE HealthyNodes \cup {n}
    BY <1>2, <1>4, <2>2 DEF HealthyNodes, Typed
  <2>4. Election!Flip(p, n)
    BY <1>3, <2>1, <2>3 DEF Election!Flip, Owing
  <2>5. QED
    BY <2>4 DEF Election!Next
<1>5. CASE ~b
  <2>1. Owing' = Owing
    BY <1>1, <1>3, <1>5, ResumePlaces DEF Owing, Typed
  <2>2. QED
    BY <1>2, <1>3, <1>5, <2>1, OwingUntouched
<1>6. QED
  BY <1>4, <1>5

\* The swap pays the debt; the other steps of onStateChange are inner ones.
LEMMA PublishElects ==
  ASSUME Typed, Roles, OwnerInv, ElectionInv, NEW p \in Procs, PublishStep(p)
  PROVE  [Election!Next]_(Election!vars)
<1>1. CASE Swap(p)
  <2>1. p \in Owing /\ Owing' = Owing \ {p}
    BY <1>1 DEF Swap, Owing, Typed
  <2>2. HealthyNodes' = HealthyNodes /\ activeTier' = newActive
    BY <1>1 DEF Swap, HealthyNodes, nodeVars
  <2>3. activeTier' \in Election!TierKeys \cup {NoTier}
    BY <2>2 DEF Typed, TierKeys, Election!TierKeys
  <2>4. ASSUME Owing' = {}
        PROVE  Election!Serves(activeTier', HealthyNodes)
    <3>1. NoFlipWaits
      BY <1>1, <2>1, <2>4 DEF NoFlipWaits, Owing, Swap
    <3>2. IsElected(newActive)
      BY <1>1, <3>1 DEF ElectionInv, ScanIsCurrent, Swap
    <3>3. QED
      BY <2>2, <3>2, ElectedServes
  <2>5. Election!Publish(p)
    BY <2>1, <2>2, <2>3, <2>4 DEF Election!Publish, Owing
  <2>6. QED
    BY <2>5 DEF Election!Next
<1>2. CASE LockPublish(p) \/ Elect(p)
  <2>1. Owing' = Owing
    BY <1>2 DEF LockPublish, Elect, Owing, Typed
  <2>2. QED
    BY <1>2, <2>1, OwingUntouched DEF LockPublish, Elect, nodeVars
<1>3. CASE CountNode(p) \/ SetPoolHealth(p) \/ Notify(p) \/ UnlockPublish(p)
  <2>1. Owing' = Owing
    BY <1>3, ResumePlaces
       DEF CountNode, SetPoolHealth, Notify, UnlockPublish, Resume, Owing, Typed
  <2>2. QED
    BY <1>3, <2>1, OwingUntouched
       DEF CountNode, SetPoolHealth, Notify, UnlockPublish, nodeVars
<1>4. QED
  BY <1>1, <1>2, <1>3 DEF PublishStep

\* onStateChange implements the election of PoolElection: every step of the
\* pool is a flip, a publication or a stutter there, so activeTier moves only
\* on behalf of a flip and the last publication leaves the tier that is due.
THEOREM PoolImplementsElection == Spec => ElectionSpec
<1>1. Init => Election!Init
  <2> SUFFICES ASSUME Init PROVE Election!Init
    OBVIOUS
  <2>1. HealthyNodes = Nodes /\ Owing = {}
    BY DEF Init, HealthyNodes, Owing
  <2>2. Election!Serves(activeTier, Nodes)
    BY PoolAssumption DEF Init, Election!Serves, TierKeys
  <2>3. QED
    BY <2>1, <2>2 DEF Election!Init, Owing
<1>2. Typed /\ Roles /\ OwnerInv /\ ElectionInv /\ [Next]_vars
        => [Election!Next]_(Election!vars)
  <2> SUFFICES ASSUME Typed, Roles, OwnerInv, ElectionInv, [Next]_vars
               PROVE  [Election!Next]_(Election!vars)
    OBVIOUS
  <2>1. CASE \E c \in Callers : CallerStep(c)
    <3>1. PICK c \in Callers : CallerStep(c)
      BY <2>1
    <3>2. /\ pc[c] \in {"idle", "tier", "scan"}
          /\ UNCHANGED <<healthy, activeTier>>
          /\ \E place \in {"idle", "tier", "scan", "call"} :
               pc' = [pc EXCEPT ![c] = place]
      BY <3>1 DEF CallerStep, EnterTier, ScanNode, NoHealthyNodes, nodeVars, pubVars
    <3>3. Owing' = Owing
      BY <3>2 DEF Owing, Typed, Procs
    <3>4. QED
      BY <3>2, <3>3, OwingUntouched
  <2>2. CASE \E n \in Nodes : LoopStep(n)
    <3>1. PICK n \in Nodes : LoopStep(n)
      BY <2>2
    <3>2. /\ pc[n] \in {"arm", "armTier", "wait"}
          /\ UNCHANGED <<healthy, activeTier>>
          /\ \E place \in {"arm", "armTier", "wait", "probe", "done"} :
               pc' = [pc EXCEPT ![n] = place]
      BY <3>1 DEF LoopStep, Arm, ArmTier, Wake, Fire, Stop, StopLeadsTo, nodeVars, pubVars
    <3>3. Owing' = Owing
      BY <3>2 DEF Owing, Typed, Procs
    <3>4. QED
      BY <3>2, <3>3, OwingUntouched
  <2>3. CASE \E k \in Closers : CloserStep(k)
    <3>1. UNCHANGED <<healthy, activeTier>> /\ pc' = pc
      BY <2>3 DEF CloserStep, Close, AwaitLoops, CloseTransport, nodeVars, pubVars
    <3>2. QED
      BY <3>1, OwingUntouched DEF Owing
  <2>4. CASE UNCHANGED vars
    <3>1. UNCHANGED <<healthy, activeTier>> /\ pc' = pc
      BY <2>4 DEF vars, nodeVars, pubVars
    <3>2. QED
      BY <3>1, OwingUntouched DEF Owing
  <2>5. QED
    BY <2>1, <2>2, <2>3, <2>4, OutcomeElects, PublishElects DEF Next
<1>3. QED
  BY <1>1, <1>2, Typing, PublishExclusive, ElectionTracked, PTL
     DEF Spec, ElectionSpec, Election!Spec
-----------------------------------------------------------------------------
(***************************************************************************)
(* HealthPool implements NodeHealth, for every pool.                       *)
(***************************************************************************)

LEMMA SuccessImplemented ==
  ASSUME Typed, ThresholdInv, NEW n \in Nodes,
         consecutiveSuccess' = [consecutiveSuccess EXCEPT ![n] = Count(@, SuccessThreshold)],
         consecutiveFailure' = [consecutiveFailure EXCEPT ![n] = 0],
         healthy' = [healthy EXCEPT ![n] = @ \/ Readmits(n)]
  PROVE  Health!Success(n)
<1> DEFINE longer == Count(consecutiveSuccess[n], SuccessThreshold)
<1>1. /\ SuccessThreshold \in Nat \ {0} /\ FailureThreshold \in Nat \ {0}
      /\ \A m \in Nodes : /\ consecutiveSuccess[m] \in 0..SuccessThreshold
                          /\ consecutiveFailure[m] \in 0..FailureThreshold
                          /\ consecutiveSuccess[m] = 0 \/ consecutiveFailure[m] = 0
  BY PoolAssumption DEF Typed, ThresholdInv
<1>2. longer \in Nat /\ (consecutiveSuccess[n] + 1 >= SuccessThreshold <=> longer = SuccessThreshold)
  BY <1>1 DEF Count
<1>3. longer = Health!Lesser((IF Run[n] < 0 THEN 0 ELSE Run[n]) + 1, SuccessThreshold)
  <2>1. Run[n] = consecutiveSuccess[n] - consecutiveFailure[n]
    BY DEF Run
  <2> QED BY <1>1, <2>1 DEF Count, Health!Lesser
<1> HIDE DEF longer
<1>4. \A m \in Nodes : /\ consecutiveSuccess'[m] = IF m = n THEN longer ELSE consecutiveSuccess[m]
                       /\ consecutiveFailure'[m] = IF m = n THEN 0 ELSE consecutiveFailure[m]
  BY DEF Typed, longer
<1>5. Run' = [Run EXCEPT ![n] = longer]
  <2>1. \A m \in Nodes : consecutiveSuccess'[m] - consecutiveFailure'[m]
                           = IF m = n THEN longer ELSE Run[m]
    BY <1>2, <1>4 DEF Run
  <2> QED BY <2>1 DEF Run
<1>6. HealthyNodes' = IF longer = SuccessThreshold THEN HealthyNodes \cup {n} ELSE HealthyNodes
  BY <1>2 DEF HealthyNodes, Typed, Readmits
<1>7. Run'[n] = longer
  BY <1>5 DEF Run
<1> QED BY <1>3, <1>5, <1>6, <1>7 DEF Health!Success

LEMMA FailureImplemented ==
  ASSUME Typed, ThresholdInv, NEW n \in Nodes,
         consecutiveSuccess' = [consecutiveSuccess EXCEPT ![n] = 0],
         consecutiveFailure' = [consecutiveFailure EXCEPT ![n] = Count(@, FailureThreshold)],
         healthy' = [healthy EXCEPT ![n] = @ /\ ~Evicts(n)]
  PROVE  Health!Failure(n)
<1> DEFINE longer == Count(consecutiveFailure[n], FailureThreshold)
<1>1. /\ SuccessThreshold \in Nat \ {0} /\ FailureThreshold \in Nat \ {0}
      /\ \A m \in Nodes : /\ consecutiveSuccess[m] \in 0..SuccessThreshold
                          /\ consecutiveFailure[m] \in 0..FailureThreshold
                          /\ consecutiveSuccess[m] = 0 \/ consecutiveFailure[m] = 0
  BY PoolAssumption DEF Typed, ThresholdInv
<1>2. longer \in Nat /\ (consecutiveFailure[n] + 1 < FailureThreshold <=> -longer # -FailureThreshold)
  BY <1>1 DEF Count
<1>2a. Evicts(n) <=> healthy[n] /\ -longer = -FailureThreshold
  BY <1>1, <1>2 DEF Evicts
<1>3. longer = Health!Lesser((IF Run[n] > 0 THEN 0 ELSE -Run[n]) + 1, FailureThreshold)
  <2>1. Run[n] = consecutiveSuccess[n] - consecutiveFailure[n]
    BY DEF Run
  <2> QED BY <1>1, <2>1 DEF Count, Health!Lesser
<1> HIDE DEF longer
<1>4. \A m \in Nodes : /\ consecutiveSuccess'[m] = IF m = n THEN 0 ELSE consecutiveSuccess[m]
                       /\ consecutiveFailure'[m] = IF m = n THEN longer ELSE consecutiveFailure[m]
  BY DEF Typed, longer
<1>5. Run' = [Run EXCEPT ![n] = -longer]
  <2>1. \A m \in Nodes : consecutiveSuccess'[m] - consecutiveFailure'[m]
                           = IF m = n THEN -longer ELSE Run[m]
    BY <1>2, <1>4 DEF Run
  <2> QED BY <2>1 DEF Run
<1>6. HealthyNodes' = IF -longer = -FailureThreshold THEN HealthyNodes \ {n} ELSE HealthyNodes
  BY <1>2a DEF HealthyNodes, Typed
<1>7. Run'[n] = -longer
  BY <1>5 DEF Run
<1> QED BY <1>3, <1>5, <1>6, <1>7 DEF Health!Failure

\* Probes and RPCs of a node may race, and an outcome may be that of a call from
\* before a flip: a node still loses and regains its place by runs alone.
THEOREM PoolImplementsHealth == Spec => HealthSpec
<1>1. Init => Health!Init
  BY DEF Init, Health!Init, HealthyNodes, Run
<1>2. Typed /\ Roles /\ ThresholdInv /\ [Next]_vars => [Health!Next]_(Health!vars)
  <2> SUFFICES ASSUME Typed, Roles, ThresholdInv, [Next]_vars
               PROVE  [Health!Next]_(Health!vars)
    OBVIOUS
  <2>1. CASE UNCHANGED nodeVars
    BY <2>1 DEF nodeVars, Health!vars, HealthyNodes, Run
  <2>2. ASSUME NEW p \in Procs, NEW n \in Nodes, MarkSuccess(p, n)
        PROVE  Health!Next
    <3>1. Health!Success(n)
      BY <2>2, SuccessImplemented DEF MarkSuccess
    <3> QED BY <3>1 DEF Health!Next
  <2>3. ASSUME NEW p \in Procs, NEW n \in Nodes, MarkFailure(p, n)
        PROVE  Health!Next
    <3>1. Health!Failure(n)
      BY <2>3, FailureImplemented DEF MarkFailure, RunAfterFailure
    <3> QED BY <3>1 DEF Health!Next
  <2> QED BY <2>1, <2>2, <2>3, OnlyMarksChangeNodes
<1> QED BY <1>1, <1>2, Typing, ThresholdsKept, PTL DEF Spec, HealthSpec, Health!Spec
-----------------------------------------------------------------------------
\* What a caller inside next() has ruled out was unhealthy at some moment since
\* it began, so it is not steady; a caller outside has ruled out nothing.
SteadyInv ==
  /\ steady \in [Callers -> SUBSET Nodes]
  /\ \A c \in Callers : /\ steady[c] \subseteq HealthyNodes
                        /\ InNext(c) => steady[c] \cap seen[c] = {}
                        /\ ~InNext(c) => seen[c] = {}

\* What one step can do to a caller's place in next() and to what it ruled out.
LEMMA CallerView ==
  ASSUME Typed, Roles, Next, NEW d \in Callers
  PROVE  \/ pc'[d] = pc[d] /\ seen'[d] = seen[d]
         \/ InNext(d)' /\ seen'[d] = seen[d]
         \/ /\ InNext(d) /\ InNext(d)'
            /\ \E n \in Nodes : ~healthy'[n] /\ seen'[d] = seen[d] \cup {n}
         \/ ~InNext(d)' /\ seen'[d] = {}
         \/ ~InNext(d) /\ ~InNext(d)' /\ seen'[d] = seen[d]
<1> USE DEF InNext
<1>1. ASSUME NEW c \in Callers, CallerStep(c), c # d
      PROVE  pc'[d] = pc[d] /\ seen'[d] = seen[d]
  BY <1>1 DEF CallerStep, EnterTier, ScanNode, NoHealthyNodes, Typed, Procs
<1>2. CASE EnterTier(d)
  BY <1>2 DEF EnterTier, Typed, Procs
<1>3. CASE ScanNode(d)
  <2>1. PICK n \in Nodes \ seen[d] :
          \/ /\ healthy[n]
             /\ seen' = [seen EXCEPT ![d] = {}]
             /\ pc' = [pc EXCEPT ![d] = "call"]
          \/ /\ ~healthy[n]
             /\ seen' = [seen EXCEPT ![d] = @ \cup {n}]
             /\ pc' = [pc EXCEPT ![d] =
                         IF Group(Tier[n]) \subseteq seen'[d] THEN "tier" ELSE "scan"]
    BY <1>3 DEF ScanNode, Passed
  <2>2. healthy' = healthy /\ pc[d] = "scan"
    BY <1>3 DEF ScanNode, nodeVars
  <2>3. QED
    BY <2>1, <2>2 DEF Typed, Procs
<1>4. CASE NoHealthyNodes(d)
  BY <1>4 DEF NoHealthyNodes, Typed, Procs
<1>5. ASSUME NEW p \in Procs, OutcomeStep(p) \/ PublishStep(p)
      PROVE  /\ seen'[d] = seen[d]
             /\ p # d => pc'[d] = pc[d]
             /\ p = d => ~InNext(d) /\ ~InNext(d)'
  <2>1. CASE OutcomeStep(p)
    <3>1. PICK b \in BOOLEAN : AfterMark(p, b) /\ pc[p] \in {"call", "probe"}
      BY <2>1, PoolAssumption DEF OutcomeStep, Succeed, Fail, Ignore, MarkSuccess,
            MarkFailure, Readmits, Evicts, Typed, Target, Roles, Procs
    <3>2. QED
      BY <3>1, ResumePlaces DEF AfterMark, Typed, Procs
  <2>2. CASE PublishStep(p)
    BY <2>2, ResumePlaces
       DEF PublishStep, LockPublish, Elect, Swap, CountNode, SetPoolHealth,
           Notify, UnlockPublish, Typed, Procs, nextVars
  <2>3. QED
    BY <1>5, <2>1, <2>2
<1>6. ASSUME NEW n \in Nodes, LoopStep(n)
      PROVE  pc'[d] = pc[d] /\ seen'[d] = seen[d]
  BY <1>6, PoolAssumption DEF LoopStep, Arm, ArmTier, Wake, Fire, Stop, Typed, Procs,
                              nextVars
<1>7. CASE \E k \in Closers : CloserStep(k)
  BY <1>7 DEF CloserStep, Close, AwaitLoops, CloseTransport, nextVars
<1>8. QED
  BY <1>1, <1>2, <1>3, <1>4, <1>5, <1>6, <1>7 DEF Next, CallerStep

LEMMA SteadyStep ==
  ASSUME Typed, Roles, SteadyInv, [NextH]_allVars
  PROVE  SteadyInv'
<1>1. CASE UNCHANGED allVars
  BY <1>1 DEF allVars, vars, nodeVars, nextVars, SteadyInv, InNext,
              HealthyNodes
<1>2. CASE NextH
  <2>1. /\ Next
        /\ steady' = [c \in Callers |->
             (IF InNext(c) THEN steady[c] ELSE Nodes) \cap HealthyNodes']
    BY <1>2 DEF NextH, Observe
  <2>2. steady' \in [Callers -> SUBSET Nodes]
    BY <2>1 DEF HealthyNodes
  <2>3. ASSUME NEW d \in Callers
        PROVE  /\ steady'[d] \subseteq HealthyNodes'
               /\ InNext(d)' => steady'[d] \cap seen'[d] = {}
               /\ ~InNext(d)' => seen'[d] = {}
    <3>1. /\ steady'[d] \subseteq HealthyNodes'
          /\ InNext(d) => steady'[d] \subseteq steady[d]
      BY <2>1
    <3>2. /\ InNext(d) => steady[d] \cap seen[d] = {}
          /\ ~InNext(d) => seen[d] = {}
      BY DEF SteadyInv
    <3>3. steady'[d] \cap seen[d] = {}
      BY <3>1, <3>2
    <3>4. \A n \in Nodes : ~healthy'[n] => n \notin steady'[d]
      BY <3>1 DEF HealthyNodes
    <3>5. CASE pc'[d] = pc[d] /\ seen'[d] = seen[d]
      BY <3>1, <3>2, <3>3, <3>5 DEF InNext
    <3>6. CASE InNext(d)' /\ seen'[d] = seen[d]
      BY <3>1, <3>3, <3>6
    <3>7. CASE /\ InNext(d) /\ InNext(d)'
               /\ \E n \in Nodes : ~healthy'[n] /\ seen'[d] = seen[d] \cup {n}
      BY <3>1, <3>3, <3>4, <3>7
    <3>8. CASE ~InNext(d)' /\ seen'[d] = {}
      BY <3>1, <3>8
    <3>9. CASE ~InNext(d) /\ ~InNext(d)' /\ seen'[d] = seen[d]
      BY <3>1, <3>2, <3>9
    <3>10. QED
      BY <2>1, <3>5, <3>6, <3>7, <3>8, <3>9, CallerView
  <2>4. QED
    BY <2>2, <2>3 DEF SteadyInv
<1>3. QED
  BY <1>1, <1>2

\* The steps of a caller by which next() returns.
LEMMA SteadyChoice ==
  ASSUME Typed, Roles, SteadyInv, NextH, NEW c \in Callers
  PROVE  /\ pc[c] = "scan" /\ pc'[c] = "call" =>
              \A n \in steady[c] : Tier[target'[c]] <= Tier[n]
         /\ pc[c] = "tier" /\ pc'[c] = "idle" => steady[c] = {}
<1>1. ASSUME pc[c] \in {"scan", "tier"}, pc'[c] \in {"call", "idle"}
      PROVE  ScanNode(c) \/ NoHealthyNodes(c)
  <2>1. ASSUME NEW d \in Callers, CallerStep(d)
        PROVE  d = c /\ (ScanNode(c) \/ NoHealthyNodes(c))
    BY <1>1, <2>1 DEF CallerStep, EnterTier, ScanNode, NoHealthyNodes, Typed, Procs
  <2>2. ASSUME NEW p \in Procs, OutcomeStep(p) \/ PublishStep(p)
        PROVE  FALSE
    <3>1. pc[p] \notin {"scan", "tier"} /\ \A q \in Procs \ {p} : pc'[q] = pc[q]
      BY <2>2 DEF OutcomeStep, Succeed, Fail, Ignore, MarkSuccess, MarkFailure,
                  AfterMark, PublishStep, LockPublish, Elect, Swap, CountNode,
                  SetPoolHealth, Notify, UnlockPublish, Typed
    <3>2. QED
      BY <1>1, <3>1 DEF Procs
  <2>3. ASSUME NEW n \in Nodes, LoopStep(n)
        PROVE  FALSE
    BY <1>1, <2>3, PoolAssumption DEF LoopStep, Arm, ArmTier, Wake, Fire, Stop,
                                      Typed, Procs
  <2>4. ASSUME NEW k \in Closers, CloserStep(k)
        PROVE  FALSE
    BY <1>1, <2>4 DEF CloserStep, Close, AwaitLoops, CloseTransport
  <2>5. QED
    BY <2>1, <2>2, <2>3, <2>4 DEF NextH, Next
<1>2. ASSUME pc[c] = "scan", pc'[c] = "call"
      PROVE  \A n \in steady[c] : Tier[target'[c]] <= Tier[n]
  <2>1. ScanNode(c)
    BY <1>1, <1>2 DEF NoHealthyNodes
  <2>2. PICK m \in Nodes \ seen[c] :
          FirstInRotation(m, Nodes \ seen[c], start[c]) /\ target'[c] = m
    <3>1. PICK m \in Nodes \ seen[c] :
            /\ FirstInRotation(m, Nodes \ seen[c], start[c])
            /\ \/ target' = [target EXCEPT ![c] = m]
               \/ pc' = [pc EXCEPT ![c] =
                    IF Group(Tier[m]) \subseteq seen'[c] THEN "tier" ELSE "scan"]
      BY <2>1 DEF ScanNode
    <3>2. QED
      BY <1>2, <3>1 DEF Typed, Procs
  <2>3. steady[c] \subseteq Nodes \ seen[c]
    BY <1>2 DEF SteadyInv, InNext
  <2>4. QED
    BY <2>2, <2>3, PoolAssumption DEF FirstInRotation
<1>3. ASSUME pc[c] = "tier", pc'[c] = "idle"
      PROVE  steady[c] = {}
  <2>1. seen[c] = Nodes
    BY <1>1, <1>3 DEF NoHealthyNodes, ScanNode
  <2>2. QED
    BY <1>3, <2>1 DEF SteadyInv, InNext
<1>4. QED
  BY <1>2, <1>3

\* next() never passes over a node that was healthy throughout its scan,
\* neither for a higher tier nor for ErrNoHealthyNodes.
THEOREM SteadyNodeNeverSkipped == SpecH => NeverSkipsSteadyNode
<1>1. InitH => Init /\ SteadyInv
  BY DEF InitH, Init, SteadyInv, HealthyNodes, InNext, Procs
<1>2. [NextH]_allVars => [Next]_vars
  BY DEF NextH, allVars
<1>3. Typed /\ Roles /\ SteadyInv /\ [NextH]_allVars => SteadyInv'
  BY SteadyStep
<1>4. Typed /\ Roles /\ SteadyInv /\ [NextH]_allVars =>
        [\A c \in Callers :
           /\ pc[c] = "scan" /\ pc'[c] = "call" =>
                \A n \in steady[c] : Tier[target'[c]] <= Tier[n]
           /\ pc[c] = "tier" /\ pc'[c] = "idle" => steady[c] = {}]_allVars
  BY SteadyChoice
<1>5. QED
  BY <1>1, <1>2, <1>3, <1>4, Typing, PTL DEF Spec, SpecH, NeverSkipsSteadyNode
=============================================================================
