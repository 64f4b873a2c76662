----------------------------- MODULE ClientStack -----------------------------
(***************************************************************************)
(* client.New and what it stacks up: the transports of the configured      *)
(* nodes, the selecting transport over them (round robin when the health   *)
(* checker is disabled, the health-aware pool otherwise) and the metrics   *)
(* wrapper on top; RPCs through the stack and Client.Close.                *)
(* How the health-aware pool selects is HealthPool's subject: here it      *)
(* picks any node or none.                                                 *)
(***************************************************************************)
EXTENDS Integers, FiniteSets, Functions

CONSTANTS
  N,             \* number of configured nodes
  WithMetrics,   \* Config.Metrics is not nil
  Callers,       \* goroutines issuing RPCs
  MaxCalls,      \* bound of the model: RPCs begun
  CounterRange   \* the range of the uint64 counter

Nodes == 1..N

ASSUME StackAssumption ==
  /\ N \in Nat \ {0}
  /\ WithMetrics \in BOOLEAN
  /\ MaxCalls \in Nat
  /\ CounterRange \in Nat \ {0}

VARIABLES
  disabled,  \* HealthConfig.Disabled: use RoundRobinTransport
  phase,     \* of New: "creating", "failed", "ready"; then "closed"
  created,   \* transports created so far, in the order of the configuration
  open,      \* transports created and not closed
  counter,   \* RoundRobinTransport.counter
  call,      \* per caller: "idle", "before" (start taken), "inner" (routed)
  picks,     \* per node: RPCs routed to it
  begun,     \* RPCs begun
  recorded   \* RPCs recorded by RecordRequest, per status

vars == <<disabled, phase, created, open, counter, call, picks, begun, recorded>>
newVars == <<disabled, phase, created, open>>
-----------------------------------------------------------------------------
Init ==
  /\ disabled \in BOOLEAN
  /\ phase = "creating"
  /\ created = {}
  /\ open = {}
  /\ counter = 0
  /\ call = [c \in Callers |-> "idle"]
  /\ picks = [n \in Nodes |-> 0]
  /\ begun = 0
  /\ recorded = [s \in {"success", "error"} |-> 0]

\* The node New creates a transport for next.
IsNextNode(n) == n \notin created /\ \A m \in Nodes \ created : n <= m

\* createTransportFromNode succeeded; after the last node the stack is ready.
CreateTransport(n) ==
  /\ phase = "creating"
  /\ IsNextNode(n)
  /\ created' = created \cup {n}
  /\ open' = open \cup {n}
  /\ phase' = IF created' = Nodes THEN "ready" ELSE "creating"
  /\ UNCHANGED <<disabled, counter, call, picks, begun, recorded>>

\* Mutant of ClosedOnFailure: only the last transport is closed.
ClosedOnFailureLast == {n \in created : \A m \in created : m <= n}

\* What New closes before it returns the error.
ClosedOnFailure == created

\* createTransportFromNode failed for n: New closes what it created so far.
CreateFails(n) ==
  /\ phase = "creating"
  /\ IsNextNode(n)
  /\ open' = open \ ClosedOnFailure
  /\ phase' = "failed"
  /\ UNCHANGED <<disabled, created, counter, call, picks, begun, recorded>>
-----------------------------------------------------------------------------
\* Transport methods of MetricsTransport: start := time.Now().
Begin(c) ==
  /\ phase \in {"ready", "closed"}
  /\ call[c] = "idle"
  /\ begun < MaxCalls
  /\ begun' = begun + 1
  /\ call' = [call EXCEPT ![c] = "before"]
  /\ UNCHANGED <<newVars, counter, picks, recorded>>

\* Mutant of Indexed: the index is reduced by one node too few.
IndexedShort(i) == (i % (IF N > 1 THEN N - 1 ELSE N)) + 1

\* t.transports[i % len].
Indexed(i) == (i % N) + 1

\* counter.Add(1) on a uint64.
Advanced(i) == (i + 1) % CounterRange

\* RoundRobinTransport.next: Add(1) - 1, then the transport at that index. Only
\* the atomic Add is shared; routing in the same step changes no outcome.
PickRoundRobin(c) ==
  /\ disabled
  /\ call[c] = "before"
  /\ counter' = Advanced(counter)
  /\ picks' = [picks EXCEPT ![Indexed(counter)] = @ + 1]
  /\ call' = [call EXCEPT ![c] = "inner"]
  /\ UNCHANGED <<newVars, begun, recorded>>

\* HealthAwareTransport.next returned a node.
PickHealthy(c) ==
  /\ ~disabled
  /\ call[c] = "before"
  /\ \E n \in Nodes : picks' = [picks EXCEPT ![n] = @ + 1]
  /\ call' = [call EXCEPT ![c] = "inner"]
  /\ UNCHANGED <<newVars, counter, begun, recorded>>

\* MetricsTransport.after: one more request with this status.
Recorded(status) ==
  recorded' = IF WithMetrics THEN [recorded EXCEPT ![status] = @ + 1]
              ELSE recorded

\* Mutant of StatusOf: an RPC that never reached a node is not an error.
StatusOfReached(reached, ok) == IF reached /\ ~ok THEN "error" ELSE "success"

\* after's status: whether the inner transport returned an error, its own
\* included.
StatusOf(reached, ok) == IF reached /\ ok THEN "success" ELSE "error"

\* HealthAwareTransport.next returned ErrNoHealthyNodes.
PickNone(c) ==
  /\ ~disabled
  /\ call[c] = "before"
  /\ call' = [call EXCEPT ![c] = "idle"]
  /\ Recorded(StatusOf(FALSE, FALSE))
  /\ UNCHANGED <<newVars, counter, picks, begun>>

\* Mutant of Return: an RPC that failed is tried on another node.
ReturnRetried(c) ==
  /\ call[c] = "inner"
  /\ \E ok \in BOOLEAN :
       /\ call' = [call EXCEPT ![c] = IF ok THEN "idle" ELSE "before"]
       /\ IF ok THEN Recorded(StatusOf(TRUE, TRUE)) ELSE UNCHANGED recorded
  /\ UNCHANGED <<newVars, counter, picks, begun>>

\* The node answered, or the RPC failed: no other node is tried.
Return(c) ==
  /\ call[c] = "inner"
  /\ call' = [call EXCEPT ![c] = "idle"]
  /\ \E ok \in BOOLEAN : Recorded(StatusOf(TRUE, ok))
  /\ UNCHANGED <<newVars, counter, picks, begun>>

\* Client.Close closes every transport; it may be called again and RPCs may
\* still be running.
Close ==
  /\ phase \in {"ready", "closed"}
  /\ open' = {}
  /\ phase' = "closed"
  /\ UNCHANGED <<disabled, created, counter, call, picks, begun, recorded>>

Next ==
  \/ \E n \in Nodes : CreateTransport(n) \/ CreateFails(n)
  \/ \E c \in Callers : \/ Begin(c) \/ PickRoundRobin(c) \/ PickHealthy(c)
                        \/ PickNone(c) \/ Return(c)
  \/ Close

Spec == Init /\ [][Next]_vars
-----------------------------------------------------------------------------
InProgress == {c \in Callers : call[c] # "idle"}

\* Every variable has its type; no node is sent more RPCs than were begun, so
\* none is repeated behind the caller's back.
TypeOK ==
  /\ disabled \in BOOLEAN
  /\ phase \in {"creating", "failed", "ready", "closed"}
  /\ created \subseteq Nodes /\ open \subseteq created
  /\ counter \in 0..(CounterRange - 1)
  /\ call \in [Callers -> {"idle", "before", "inner"}]
  /\ picks \in [Nodes -> 0..begun]
  /\ begun \in 0..MaxCalls
  /\ recorded \in [{"success", "error"} -> 0..MaxCalls]

\* New keeps nothing open when it fails, and a stack that serves RPCs has every
\* configured transport open until Close.
NothingLeaks ==
  /\ phase \in {"failed", "closed"} => open = {}
  /\ phase = "ready" => open = Nodes

\* Concurrent callers share the round robin evenly, whatever the order in which
\* they take the counter: until the counter has wrapped no node is ahead of
\* another by more than one RPC.
RoundRobinBalanced ==
  disabled /\ begun <= CounterRange =>
    \A m, n \in Nodes : picks[m] <= picks[n] + 1

\* Each RPC is recorded exactly once when it ends, and one refused for want of
\* a healthy node counts as an error: successes are RPCs a node answered.
CallsAccounted ==
  WithMetrics =>
    /\ recorded["success"] + recorded["error"] = begun - Cardinality(InProgress)
    /\ recorded["success"] <= SumFunction(picks)
=============================================================================
