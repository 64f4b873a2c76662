--------------------------- MODULE ClientStackProofs ---------------------------
(***************************************************************************)
(* Construction, rotation and accounting, for any number of nodes and      *)
(* callers and any range of the counter.                                   *)
(***************************************************************************)
EXTENDS ClientStack, Sums

\* The RPCs that have begun and have no node yet.
Before == {c \in Callers : call[c] = "before"}

\* The transports open in each phase of the client.
Held ==
  /\ created \subseteq Nodes /\ open \subseteq created
  /\ phase \in {"creating", "failed", "ready", "closed"}
  /\ phase = "creating" => open = created
  /\ NothingLeaks

\* The types, for counts that are bounded only below; Routed and Recording give
\* the upper bounds.
Typed ==
  /\ disabled \in BOOLEAN
  /\ counter \in 0..(CounterRange - 1)
  /\ call \in [Callers -> {"idle", "before", "inner"}]
  /\ picks \in [Nodes -> Nat]
  /\ begun \in 0..MaxCalls
  /\ recorded \in [{"success", "error"} -> Nat]

\* No node got more RPCs than have begun and left the start.
Routed ==
  /\ IsFiniteSet(InProgress)
  /\ \A n \in Nodes : picks[n] + Cardinality(Before) <= begun

\* Recorded are the RPCs that have ended.
Recording ==
  recorded["success"] + recorded["error"]
    = IF WithMetrics THEN begun - Cardinality(InProgress) ELSE 0

\* After q full rounds and r more nodes.
Rounds(q, r) ==
  /\ q * N + r + Cardinality(Before) <= begun
  /\ \A n \in Nodes : picks[n] = q + (IF n <= r THEN 1 ELSE 0)
  /\ counter = IF q * N + r = CounterRange THEN 0 ELSE q * N + r

Rotating ==
  disabled /\ begun <= CounterRange => \E q \in Nat, r \in 0..(N - 1) : Rounds(q, r)

\* What construction, rotation and accounting keep together.
IInv == Held /\ Typed /\ Routed /\ Recording /\ Rotating
-----------------------------------------------------------------------------
LEMMA ProductNat == ASSUME NEW q \in Nat, NEW n \in Nat PROVE q * n \in Nat
BY SMT

LEMMA BeforeFinite ==
  ASSUME Routed
  PROVE  /\ IsFiniteSet(Before) /\ Before \subseteq InProgress
         /\ Cardinality(Before) \in Nat /\ Cardinality(InProgress) \in Nat
<1>1. Before \subseteq InProgress BY DEF Before, InProgress
<1> QED BY <1>1, FS_Subset, FS_CardinalityType DEF Routed

\* A caller at work moves: how the two sets follow.
LEMMA Moves ==
  ASSUME Typed, Routed, NEW c \in Callers, NEW to \in {"idle", "before", "inner"},
         call' = [call EXCEPT ![c] = to]
  PROVE  /\ Before' = IF to = "before" THEN Before \cup {c} ELSE Before \ {c}
         /\ InProgress' = IF to = "idle" THEN InProgress \ {c} ELSE InProgress \cup {c}
         /\ call' \in [Callers -> {"idle", "before", "inner"}]
BY DEF Typed, Before, InProgress

LEMMA Enters ==
  ASSUME NEW S, IsFiniteSet(S), NEW c, c \notin S
  PROVE  IsFiniteSet(S \cup {c}) /\ Cardinality(S \cup {c}) = Cardinality(S) + 1
BY FS_AddElement

LEMMA Leaves ==
  ASSUME NEW S, IsFiniteSet(S), NEW c, c \in S
  PROVE  IsFiniteSet(S \ {c}) /\ Cardinality(S \ {c}) = Cardinality(S) - 1
BY FS_RemoveElement

LEMMA InitIInv == Init => IInv
<1> SUFFICES ASSUME Init PROVE IInv
  OBVIOUS
<1>1. InProgress = {} /\ Before = {} BY DEF Init, InProgress, Before
<1>2. Cardinality({}) = 0 /\ IsFiniteSet({}) BY FS_EmptySet
<1>3. Held BY DEF Init, Held, NothingLeaks
<1>4. Typed
  <2>1. 0 \in 0..(CounterRange - 1) /\ 0 \in 0..MaxCalls BY StackAssumption
  <2> QED BY <2>1 DEF Init, Typed
<1>5. Routed BY <1>1, <1>2 DEF Init, Routed
<1>6. Recording BY <1>1, <1>2 DEF Init, Recording
<1>7. Rotating
  <2>1. 0 * N + 0 = 0 /\ 0 \in 0..(N - 1) /\ \A n \in Nodes : ~(n <= 0)
    BY StackAssumption DEF Nodes
  <2>2. Rounds(0, 0) BY <1>1, <1>2, <2>1, StackAssumption DEF Init, Rounds
  <2> QED BY <2>1, <2>2 DEF Rotating
<1> QED BY <1>3, <1>4, <1>5, <1>6, <1>7 DEF IInv

\* New and Close touch the transports only.
LEMMA CallsUntouched ==
  ASSUME IInv, UNCHANGED <<disabled, counter, call, picks, begun, recorded>>
  PROVE  Typed' /\ Routed' /\ Recording' /\ Rotating'
<1>1. Before' = Before /\ InProgress' = InProgress BY DEF Before, InProgress
<1> QED BY <1>1 DEF IInv, Typed, Routed, Recording, Rotating, Rounds

LEMMA HeldKept ==
  ASSUME IInv, UNCHANGED newVars PROVE Held'
BY DEF IInv, newVars, Held, NothingLeaks

LEMMA CreateTransportIInv == ASSUME IInv, NEW n \in Nodes, CreateTransport(n) PROVE IInv'
<1>1. Held'
  BY DEF CreateTransport, IInv, Held, NothingLeaks
<1> QED BY <1>1, CallsUntouched DEF CreateTransport, IInv

LEMMA CreateFailsIInv == ASSUME IInv, NEW n \in Nodes, CreateFails(n) PROVE IInv'
<1>1. Held'
  BY DEF CreateFails, ClosedOnFailure, IInv, Held, NothingLeaks
<1> QED BY <1>1, CallsUntouched DEF CreateFails, IInv

LEMMA CloseIInv == ASSUME IInv, Close PROVE IInv'
<1>1. Held'
  BY DEF Close, IInv, Held, NothingLeaks
<1> QED BY <1>1, CallsUntouched DEF Close, IInv

LEMMA BeginIInv == ASSUME IInv, NEW c \in Callers, Begin(c) PROVE IInv'
<1>1. /\ UNCHANGED <<disabled, counter, picks, recorded>> /\ Held'
      /\ begun' = begun + 1 /\ begun < MaxCalls /\ begun \in 0..MaxCalls
      /\ call[c] = "idle" /\ call' = [call EXCEPT ![c] = "before"]
  BY HeldKept DEF Begin, newVars, IInv, Typed
<1>2. /\ Before' = Before \cup {c} /\ InProgress' = InProgress \cup {c}
      /\ call' \in [Callers -> {"idle", "before", "inner"}]
  BY <1>1, Moves DEF IInv
<1>3. c \notin Before /\ c \notin InProgress BY <1>1 DEF Before, InProgress
<1>4. /\ Cardinality(Before') = Cardinality(Before) + 1
      /\ Cardinality(InProgress') = Cardinality(InProgress) + 1
      /\ IsFiniteSet(InProgress')
      /\ Cardinality(Before) \in Nat /\ Cardinality(InProgress) \in Nat
  BY <1>2, <1>3, BeforeFinite, Enters DEF IInv, Routed
<1>5. Typed' BY <1>1, <1>2, StackAssumption DEF IInv, Typed
<1>6. Routed' BY <1>1, <1>4 DEF IInv, Typed, Routed
<1>7. Recording' BY <1>1, <1>4 DEF IInv, Typed, Recording
<1>8. Rotating'
  <2> SUFFICES ASSUME disabled, begun + 1 <= CounterRange
               PROVE  \E q \in Nat, r \in 0..(N - 1) : Rounds(q, r)'
    BY <1>1 DEF Rotating
  <2>1. PICK q \in Nat, r \in 0..(N - 1) : Rounds(q, r)
    BY <1>1, StackAssumption DEF IInv, Rotating
  <2>2. q * N \in Nat BY ProductNat, StackAssumption
  <2>3. Rounds(q, r)' BY <1>1, <1>4, <2>1, <2>2 DEF Rounds
  <2> QED BY <2>3
<1> QED BY <1>1, <1>5, <1>6, <1>7, <1>8 DEF IInv

\* Where the counter points to in a round.
LEMMA IndexedInRound ==
  ASSUME NEW q \in Nat, NEW r \in 0..(N - 1)
  PROVE  Indexed(q * N + r) = r + 1
<1>1. N \in Nat \ {0} BY StackAssumption
<1> DEFINE i == q * N + r
           d == i \div N
           m == i % N
<1>2. q * N \in Nat /\ i \in Nat BY <1>1, ProductNat
<1>3. d \in Int /\ m \in 0..(N - 1) /\ i = N * d + m BY <1>1, <1>2, SMT
<1> HIDE DEF d, m
<1>4. N * (q - d) = m - r BY <1>1, <1>2, <1>3, SMT
<1>5. q = d
  <2>1. CASE q - d >= 1
    <3>1. N * (q - d) >= N BY <1>1, <1>3, <2>1, SMT
    <3> QED BY <1>1, <1>3, <1>4, <3>1, SMT
  <2>2. CASE d - q >= 1
    <3>1. N * (d - q) >= N BY <1>1, <1>3, <2>2, SMT
    <3>2. N * (q - d) = -(N * (d - q)) BY <1>1, <1>3, SMT
    <3> QED BY <1>1, <1>3, <1>4, <3>1, <3>2, SMT
  <2> QED BY <1>3, <2>1, <2>2, SMT
<1>6. m = r BY <1>1, <1>3, <1>4, <1>5, SMT
<1> QED BY <1>6 DEF Indexed, m

LEMMA PickRoundRobinIInv == ASSUME IInv, NEW c \in Callers, PickRoundRobin(c) PROVE IInv'
<1>1. /\ UNCHANGED <<disabled, begun, recorded>> /\ Held' /\ disabled
      /\ counter' = Advanced(counter)
      /\ picks' = [picks EXCEPT ![Indexed(counter)] = @ + 1]
      /\ call[c] = "before" /\ call' = [call EXCEPT ![c] = "inner"]
  BY HeldKept DEF PickRoundRobin, newVars
<1>2. /\ Before' = Before \ {c} /\ InProgress' = InProgress \cup {c}
      /\ call' \in [Callers -> {"idle", "before", "inner"}]
  BY <1>1, Moves DEF IInv
<1>3. c \in Before /\ InProgress' = InProgress BY <1>1, <1>2 DEF Before, InProgress
<1>4. /\ Cardinality(Before') = Cardinality(Before) - 1
      /\ Cardinality(Before) \in Nat /\ Cardinality(InProgress) \in Nat
  BY <1>2, <1>3, BeforeFinite, Leaves DEF IInv
<1>5. counter' \in 0..(CounterRange - 1)
  BY <1>1, StackAssumption DEF IInv, Typed, Advanced
<1>6. Indexed(counter) \in Nodes /\ picks' \in [Nodes -> Nat]
  <2>1. Indexed(counter) \in Nodes BY StackAssumption DEF IInv, Typed, Indexed, Nodes
  <2> QED BY <1>1, <2>1 DEF IInv, Typed
<1>7. Typed' BY <1>1, <1>2, <1>5, <1>6 DEF IInv, Typed
<1>8. Routed'
  <2> SUFFICES ASSUME NEW n \in Nodes PROVE picks'[n] + Cardinality(Before') <= begun
    BY <1>1, <1>3 DEF IInv, Routed
  <2>1. picks[n] + Cardinality(Before) <= begun /\ picks[n] \in Nat /\ begun \in Int
    BY DEF IInv, Routed, Typed
  <2>2. picks'[n] <= picks[n] + 1 /\ picks'[n] \in Nat BY <1>1, <1>6, <2>1 DEF IInv, Typed
  <2> QED BY <1>4, <2>1, <2>2
<1>9. Recording' BY <1>1, <1>3 DEF IInv, Recording
<1>10. Rotating'
  <2> SUFFICES ASSUME begun <= CounterRange
               PROVE  \E q \in Nat, r \in 0..(N - 1) : Rounds(q, r)'
    BY <1>1 DEF Rotating
  <2>1. PICK q \in Nat, r \in 0..(N - 1) : Rounds(q, r)
    BY <1>1 DEF IInv, Rotating
  <2> DEFINE t == q * N + r
  <2>2. q * N \in Nat /\ t \in Nat /\ N \in Nat \ {0} /\ CounterRange \in Nat \ {0}
    BY ProductNat, StackAssumption
  <2>3. Cardinality(Before) >= 1
    BY <1>3, <1>4, BeforeFinite, FS_EmptySet DEF IInv
  <2>4. t + Cardinality(Before) <= begun /\ begun \in Int BY <2>1 DEF Rounds, IInv, Typed
  <2>5. t < CounterRange BY <1>4, <2>2, <2>3, <2>4
  <2>6. counter = t BY <2>1, <2>2, <2>5 DEF Rounds
  <2>7. Indexed(counter) = r + 1 BY <2>6, IndexedInRound
  <2>8. counter' = IF t + 1 = CounterRange THEN 0 ELSE t + 1
    <3> HIDE DEF t
    <3>1. CASE t + 1 = CounterRange BY <1>1, <2>2, <2>6, <3>1 DEF Advanced
    <3>2. CASE t + 1 < CounterRange BY <1>1, <2>2, <2>6, <3>2 DEF Advanced
    <3> QED BY <2>2, <2>5, <3>1, <3>2
  <2>9. \A n \in Nodes : /\ n \in Nat /\ picks'[n] = IF n = r + 1 THEN picks[n] + 1 ELSE picks[n]
                         /\ picks[n] = q + (IF n <= r THEN 1 ELSE 0)
    BY <1>1, <1>6, <2>1, <2>7 DEF IInv, Typed, Rounds, Nodes
  <2>10. CASE r + 1 < N
    <3>1. q * N + (r + 1) = t + 1 BY <2>2
    <3>2. \A n \in Nodes : picks'[n] = q + (IF n <= r + 1 THEN 1 ELSE 0) BY <2>9
    <3>3. Rounds(q, r + 1)'
      BY <1>1, <1>4, <2>2, <2>4, <2>8, <3>1, <3>2 DEF Rounds
    <3> QED BY <2>2, <2>10, <3>3
  <2>11. CASE r + 1 = N
    <3>1. (q + 1) * N + 0 = t + 1 BY <2>2, <2>11, SMT
    <3>2. \A n \in Nodes : picks'[n] = (q + 1) + (IF n <= 0 THEN 1 ELSE 0)
      BY <2>2, <2>9, <2>11 DEF Nodes
    <3>3. Rounds(q + 1, 0)'
      BY <1>1, <1>4, <2>2, <2>4, <2>8, <3>1, <3>2 DEF Rounds
    <3> QED BY <2>2, <3>3
  <2> QED BY <2>2, <2>10, <2>11
<1> QED BY <1>1, <1>7, <1>8, <1>9, <1>10 DEF IInv

LEMMA PickHealthyIInv == ASSUME IInv, NEW c \in Callers, PickHealthy(c) PROVE IInv'
<1>1. PICK m \in Nodes : picks' = [picks EXCEPT ![m] = @ + 1]
  BY DEF PickHealthy
<1>2. /\ UNCHANGED <<disabled, counter, begun, recorded>> /\ Held' /\ ~disabled
      /\ call[c] = "before" /\ call' = [call EXCEPT ![c] = "inner"]
  BY HeldKept DEF PickHealthy, newVars
<1>3. /\ Before' = Before \ {c} /\ InProgress' = InProgress \cup {c}
      /\ call' \in [Callers -> {"idle", "before", "inner"}]
  BY <1>2, Moves DEF IInv
<1>4. c \in Before /\ InProgress' = InProgress BY <1>2, <1>3 DEF Before, InProgress
<1>5. /\ Cardinality(Before') = Cardinality(Before) - 1
      /\ Cardinality(Before) \in Nat /\ Cardinality(InProgress) \in Nat
  BY <1>3, <1>4, BeforeFinite, Leaves DEF IInv
<1>6. Typed' BY <1>1, <1>2, <1>3 DEF IInv, Typed
<1>7. Routed'
  <2> SUFFICES ASSUME NEW n \in Nodes PROVE picks'[n] + Cardinality(Before') <= begun
    BY <1>2, <1>4 DEF IInv, Routed
  <2>1. picks[n] + Cardinality(Before) <= begun /\ picks[n] \in Nat /\ begun \in Int
    BY DEF IInv, Routed, Typed
  <2>2. picks'[n] <= picks[n] + 1 /\ picks'[n] \in Nat BY <1>1, <2>1 DEF IInv, Typed
  <2> QED BY <1>5, <2>1, <2>2
<1>8. Recording' BY <1>2, <1>4 DEF IInv, Recording
<1>9. Rotating' BY <1>2 DEF Rotating
<1> QED BY <1>2, <1>6, <1>7, <1>8, <1>9 DEF IInv

\* An RPC ends and is recorded.
LEMMA RecordedOnce ==
  ASSUME Typed, NEW status \in {"success", "error"}, Recorded(status)
  PROVE  /\ recorded' \in [{"success", "error"} -> Nat]
         /\ recorded'["success"] + recorded'["error"]
              = recorded["success"] + recorded["error"] + (IF WithMetrics THEN 1 ELSE 0)
BY DEF Typed, Recorded

LEMMA EndIInv ==
  ASSUME IInv, NEW c \in Callers, call[c] # "idle", call' = [call EXCEPT ![c] = "idle"],
         NEW status \in {"success", "error"}, Recorded(status),
         UNCHANGED <<newVars, counter, picks, begun>>
  PROVE  IInv'
<1>1. Held' /\ disabled' = disabled BY HeldKept DEF newVars
<1>2. /\ Before' = Before \ {c} /\ InProgress' = InProgress \ {c}
      /\ call' \in [Callers -> {"idle", "before", "inner"}]
  BY Moves DEF IInv
<1>3. c \in InProgress BY DEF InProgress
<1>4. /\ Cardinality(InProgress') = Cardinality(InProgress) - 1
      /\ IsFiniteSet(InProgress') /\ Cardinality(InProgress) \in Nat
      /\ Cardinality(Before) \in Nat /\ IsFiniteSet(Before)
  BY <1>2, <1>3, BeforeFinite, Leaves DEF IInv, Routed
<1>5. Cardinality(Before') <= Cardinality(Before) /\ Cardinality(Before') \in Nat
  <2>1. CASE c \in Before
    <3>1. /\ Cardinality(Before \ {c}) = Cardinality(Before) - 1
          /\ IsFiniteSet(Before \ {c})
      BY <1>4, <2>1, Leaves
    <3>2. Cardinality(Before') = Cardinality(Before) - 1 /\ IsFiniteSet(Before')
      BY <1>2, <3>1
    <3>3. Cardinality(Before') \in Nat BY <3>2, FS_CardinalityType
    <3> QED BY <1>4, <3>2, <3>3
  <2>2. CASE c \notin Before
    <3>1. Before' = Before BY <1>2, <2>2
    <3> QED BY <1>4, <3>1
  <2> QED BY <2>1, <2>2
<1>6. Typed' BY <1>1, <1>2, RecordedOnce DEF IInv, Typed
<1>7. Routed' BY <1>4, <1>5 DEF IInv, Typed, Routed
<1>8. Recording'
  <2>1. recorded'["success"] + recorded'["error"]
          = recorded["success"] + recorded["error"] + (IF WithMetrics THEN 1 ELSE 0)
    BY RecordedOnce DEF IInv
  <2> QED BY <1>4, <2>1 DEF IInv, Typed, Recording
<1>9. Rotating'
  <2> SUFFICES ASSUME disabled, begun <= CounterRange
               PROVE  \E q \in Nat, r \in 0..(N - 1) : Rounds(q, r)'
    BY <1>1 DEF Rotating
  <2>1. PICK q \in Nat, r \in 0..(N - 1) : Rounds(q, r)
    BY DEF IInv, Rotating
  <2>2. q * N \in Nat /\ begun \in Nat BY ProductNat, StackAssumption DEF IInv, Typed
  <2>3. Rounds(q, r)' BY <1>4, <1>5, <2>1, <2>2 DEF Rounds
  <2> QED BY <2>3
<1> QED BY <1>1, <1>6, <1>7, <1>8, <1>9 DEF IInv

LEMMA StepIInv == IInv /\ [Next]_vars => IInv'
<1> SUFFICES ASSUME IInv, [Next]_vars PROVE IInv'
  OBVIOUS
<1>1. ASSUME NEW c \in Callers, PickNone(c) PROVE IInv'
  BY <1>1, EndIInv DEF PickNone, StatusOf
<1>2. ASSUME NEW c \in Callers, Return(c) PROVE IInv'
  BY <1>2, EndIInv DEF Return, StatusOf
<1>3. CASE UNCHANGED vars
  BY <1>3, CallsUntouched, HeldKept DEF vars, newVars, IInv
<1> QED
  BY <1>1, <1>2, <1>3, CreateTransportIInv, CreateFailsIInv, CloseIInv, BeginIInv,
     PickRoundRobinIInv, PickHealthyIInv DEF Next

\* Every state of the client, however it is built, used and closed.
THEOREM Invariant == Spec => []IInv
BY InitIInv, StepIInv, PTL DEF Spec

\* No node is sent more RPCs than were begun and none is recorded twice over, the
\* rotation keeps its width.
THEOREM TypeCorrect == Spec => []TypeOK
<1>1. IInv => TypeOK
  <2> SUFFICES ASSUME IInv PROVE TypeOK
    OBVIOUS
  <2>1. Cardinality(Before) \in Nat /\ Cardinality(InProgress) \in Nat
    BY BeforeFinite DEF IInv
  <2>2. \A n \in Nodes : picks[n] \in 0..begun
    BY <2>1, StackAssumption DEF IInv, Routed, Typed
  <2>3. recorded["success"] \in 0..MaxCalls /\ recorded["error"] \in 0..MaxCalls
    BY <2>1, StackAssumption DEF IInv, Recording, Typed
  <2>4. picks \in [Nodes -> 0..begun] BY <2>2 DEF IInv, Typed
  <2>5. recorded \in [{"success", "error"} -> 0..MaxCalls] BY <2>3 DEF IInv, Typed
  <2> QED BY <2>4, <2>5 DEF IInv, Held, Typed, TypeOK
<1> QED BY <1>1, Invariant, PTL

\* Whichever node New fails at, nothing stays open; and a client in service has
\* every transport open until Close.
THEOREM NothingLeaksEver == Spec => []NothingLeaks
<1>1. IInv => NothingLeaks BY DEF IInv, Held
<1> QED BY <1>1, Invariant, PTL

\* Any number of concurrent callers share any number of nodes evenly, up to the
\* wrap of the counter.
THEOREM RotationIsFair == Spec => []RoundRobinBalanced
<1>1. IInv => RoundRobinBalanced
  <2> SUFFICES ASSUME IInv, disabled, begun <= CounterRange, NEW m \in Nodes, NEW n \in Nodes
               PROVE  picks[m] <= picks[n] + 1
    BY DEF RoundRobinBalanced
  <2>1. PICK q \in Nat, r \in 0..(N - 1) : Rounds(q, r) BY DEF IInv, Rotating
  <2> QED BY <2>1 DEF Rounds
<1> QED BY <1>1, Invariant, PTL
-----------------------------------------------------------------------------
\* The RPCs that have a node and have not ended.
Inner == {c \in Callers : call[c] = "inner"}

\* A success stands for an RPC that had a node, and so does each RPC that is
\* still at one.
Answered ==
  recorded["success"] + Cardinality(Inner) <= SumFunction(picks)

LEMMA InnerFinite ==
  ASSUME IInv
  PROVE  /\ IsFiniteSet(Inner) /\ Cardinality(Inner) \in Nat
         /\ IsFiniteSet(Nodes) /\ SumFunction(picks) \in Int
<1>1. Inner \subseteq InProgress /\ IsFiniteSet(InProgress)
  BY DEF Inner, InProgress, IInv, Routed
<1>2. IsFiniteSet(Inner) /\ Cardinality(Inner) \in Nat
  BY <1>1, FS_Subset, FS_CardinalityType
<1>3. IsFiniteSet(Nodes)
  BY StackAssumption, FS_Interval DEF Nodes
<1>4. DOMAIN picks = Nodes /\ \A n \in Nodes : picks[n] \in Int
  BY DEF IInv, Typed
<1>5. SumFunctionOnSet(picks, Nodes) \in Int
  BY <1>3, <1>4, SumPicks
<1> QED BY <1>2, <1>3, <1>4, <1>5 DEF SumFunction

\* An RPC is routed: one more at a node, one more in the sum.
LEMMA PickAnswered ==
  ASSUME IInv, Answered, NEW c \in Callers, NEW n \in Nodes,
         call[c] = "before", call' = [call EXCEPT ![c] = "inner"],
         picks' = [picks EXCEPT ![n] = @ + 1], recorded' = recorded
  PROVE  Answered'
<1>1. Inner' = Inner \cup {c} /\ c \notin Inner
  BY DEF Inner, IInv, Typed
<1>2. Cardinality(Inner') = Cardinality(Inner) + 1
  BY <1>1, InnerFinite, Enters
<1>3. picks \in [Nodes -> Int]
  BY DEF IInv, Typed
<1>4. SumFunction(picks') = SumFunction(picks) + 1
  BY <1>3, InnerFinite, SumIncrement
<1> QED BY <1>2, <1>4, InnerFinite DEF Answered, IInv, Typed

\* An RPC at a node ends: it may be one success more.
LEMMA ReturnAnswered ==
  ASSUME IInv, Answered, NEW c \in Callers, Return(c)
  PROVE  Answered'
<1>1. call[c] = "inner" /\ call' = [call EXCEPT ![c] = "idle"] /\ picks' = picks
  BY DEF Return
<1>2. Inner' = Inner \ {c} /\ c \in Inner
  BY <1>1 DEF Inner, IInv, Typed
<1>3. Cardinality(Inner') = Cardinality(Inner) - 1
  BY <1>2, InnerFinite, Leaves
<1>4. recorded'["success"] <= recorded["success"] + 1 /\ recorded'["success"] \in Nat
  BY DEF Return, Recorded, StatusOf, IInv, Typed
<1> QED BY <1>1, <1>3, <1>4, InnerFinite DEF Answered, IInv, Typed

\* No RPC is at a node that was not, no success is recorded: so when New goes
\* on, when Close does, when an RPC begins or is refused.
LEMMA UnroutedAnswered ==
  ASSUME Answered, Inner' = Inner, picks' = picks, recorded'["success"] = recorded["success"]
  PROVE  Answered'
BY DEF Answered

LEMMA StepAnswered == IInv /\ Answered /\ [Next]_vars => Answered'
<1> SUFFICES ASSUME IInv, Answered, [Next]_vars PROVE Answered'
  OBVIOUS
<1>1. ASSUME NEW n \in Nodes, CreateTransport(n) \/ CreateFails(n) PROVE Answered'
  BY <1>1, UnroutedAnswered DEF CreateTransport, CreateFails, Inner
<1>2. ASSUME NEW c \in Callers, Begin(c) PROVE Answered'
  <2>1. Inner' = Inner
    BY <1>2 DEF Begin, Inner, IInv, Typed
  <2> QED BY <1>2, <2>1, UnroutedAnswered DEF Begin
<1>3. ASSUME NEW c \in Callers, PickRoundRobin(c) PROVE Answered'
  <2>1. Indexed(counter) \in Nodes
    BY StackAssumption DEF IInv, Typed, Indexed, Nodes
  <2> QED BY <1>3, <2>1, PickAnswered DEF PickRoundRobin
<1>4. ASSUME NEW c \in Callers, PickHealthy(c) PROVE Answered'
  BY <1>4, PickAnswered DEF PickHealthy
<1>5. ASSUME NEW c \in Callers, PickNone(c) PROVE Answered'
  <2>1. Inner' = Inner
    BY <1>5 DEF PickNone, Inner, IInv, Typed
  <2>2. recorded'["success"] = recorded["success"]
    BY <1>5 DEF PickNone, Recorded, StatusOf, IInv, Typed
  <2> QED BY <1>5, <2>1, <2>2, UnroutedAnswered DEF PickNone
<1>6. CASE Close
  BY <1>6, UnroutedAnswered DEF Close, Inner
<1>7. CASE UNCHANGED vars
  BY <1>7, UnroutedAnswered DEF vars, Inner
<1> QED
  BY <1>1, <1>2, <1>3, <1>4, <1>5, <1>6, <1>7, ReturnAnswered DEF Next

\* Every RPC is recorded exactly once when it ends, whichever way it ends, and
\* no success is recorded for one that no node got.
THEOREM AccountsBalance == Spec => []CallsAccounted
<1>1. Init => Answered
  <2> SUFFICES ASSUME Init PROVE Answered
    OBVIOUS
  <2>1. IInv
    BY InitIInv
  <2>2. DOMAIN picks = Nodes /\ \A n \in Nodes : picks[n] = 0
    BY DEF Init
  <2>3. SumFunctionOnSet(picks, Nodes) \in Nat
    BY <2>1, <2>2, InnerFinite, SumNat
  <2>4. Inner = {} /\ Cardinality({}) = 0 /\ recorded["success"] = 0
    BY FS_EmptySet DEF Init, Inner
  <2> QED BY <2>2, <2>3, <2>4 DEF Answered, SumFunction
<1>2. IInv /\ Answered => CallsAccounted
  <2> SUFFICES ASSUME IInv, Answered, WithMetrics PROVE CallsAccounted
    BY DEF CallsAccounted
  <2>1. recorded["success"] <= SumFunction(picks)
    BY InnerFinite DEF Answered, IInv, Typed
  <2> QED BY <2>1 DEF CallsAccounted, IInv, Recording
<1> QED BY <1>1, <1>2, StepAnswered, Invariant, PTL DEF Spec
=============================================================================
