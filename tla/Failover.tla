------------------------------- MODULE Failover -------------------------------
(***************************************************************************)
(* The client over a pool of nodes that come into trouble and out of it:   *)
(* callers pick a node of the lowest tier that has a healthy one, get an   *)
(* answer or an error (Answers), and the error's classification moves the  *)
(* node's health, as the outcomes of the probes do. Elections are taken    *)
(* for immediate here (HealthPool has their interleavings) and the node a  *)
(* rotation yields for any of the tier (ClientStack, SelectionHistory).    *)
(***************************************************************************)
EXTENDS Answers, FiniteSets

CONSTANTS
  N,                 \* number of nodes
  Tier,              \* NodeConfig.Tier of every node
  Protocol,          \* NodeConfig.Protocol of every node
  Conditions,        \* the troubles nodes come into
  Callers,           \* goroutines that issue requests, one after the other
  FailureThreshold,  \* HealthConfig.FailureThreshold
  SuccessThreshold   \* HealthConfig.SuccessThreshold

Nodes == 1..N

ASSUME FailoverAssumption ==
  /\ N \in Nat \ {0}
  /\ Tier \in [Nodes -> Int]
  /\ Protocol \in [Nodes -> {"grpc", "http"}]
  /\ Conditions \subseteq Troubles
  /\ FailureThreshold \in Nat \ {0}
  /\ SuccessThreshold \in Nat \ {0}

VARIABLES
  trouble,             \* the trouble a node is in, or "none"
  healthy,             \* nodeState.healthy
  consecutiveSuccess,  \* nodeState.consecutiveSuccess, up to its threshold
  consecutiveFailure,  \* nodeState.consecutiveFailure, up to its threshold
  calling,             \* the node a caller waits for, or Idle
  told,                \* what the caller was told of its last request
  faults               \* history: faults of a node since its last success

healthVars == <<healthy, consecutiveSuccess, consecutiveFailure, faults>>
vars == <<trouble, healthVars, calling, told>>

Idle == 0
Outcome(what) == [op |-> "none", deed |-> "none", by |-> "none", what |-> what]

Init ==
  /\ trouble = [n \in Nodes |-> "none"]
  /\ healthy = [n \in Nodes |-> TRUE]
  /\ consecutiveSuccess = [n \in Nodes |-> 0]
  /\ consecutiveFailure = [n \in Nodes |-> 0]
  /\ calling = [c \in Callers |-> Idle]
  /\ told = [c \in Callers |-> Outcome("none")]
  /\ faults = [n \in Nodes |-> 0]

\* The nodes next() may return.
Candidates ==
  {n \in Nodes : healthy[n] /\ \A m \in Nodes : healthy[m] => Tier[n] <= Tier[m]}
-----------------------------------------------------------------------------
Count(x, limit) == IF x < limit THEN x + 1 ELSE x

MarkSuccess(n) ==
  /\ consecutiveFailure' = [consecutiveFailure EXCEPT ![n] = 0]
  /\ consecutiveSuccess' = [consecutiveSuccess EXCEPT ![n] = Count(@, SuccessThreshold)]
  /\ healthy' = [healthy EXCEPT ![n] = @ \/ consecutiveSuccess'[n] = SuccessThreshold]
  /\ faults' = [faults EXCEPT ![n] = 0]

\* Mutant of MarkFailure: the node is let go one failure later than counted.
MarkFailureLate(n) ==
  /\ consecutiveSuccess' = [consecutiveSuccess EXCEPT ![n] = 0]
  /\ consecutiveFailure' = [consecutiveFailure EXCEPT ![n] = Count(@, FailureThreshold)]
  /\ healthy' = [healthy EXCEPT ![n] = @ /\ consecutiveFailure'[n] <= FailureThreshold]

\* Mutant of MarkFailure: a failure does not end the run of successes.
MarkFailureMixed(n) ==
  /\ consecutiveFailure' = [consecutiveFailure EXCEPT ![n] = Count(@, FailureThreshold)]
  /\ healthy' = [healthy EXCEPT ![n] = @ /\ consecutiveFailure'[n] < FailureThreshold]
  /\ UNCHANGED consecutiveSuccess

MarkFailure(n) ==
  /\ consecutiveSuccess' = [consecutiveSuccess EXCEPT ![n] = 0]
  /\ consecutiveFailure' = [consecutiveFailure EXCEPT ![n] = Count(@, FailureThreshold)]
  /\ healthy' = [healthy EXCEPT ![n] = @ /\ consecutiveFailure'[n] < FailureThreshold]

\* The node, or the way to it, was at fault.
Blame(n, fault) ==
  faults' = [faults EXCEPT ![n] = IF fault THEN Count(@, FailureThreshold) ELSE @]

\* recordOutcome, and the same in probeOnce, for an error with cause e.
RecordError(n, e, fault) ==
  /\ Blame(n, fault)
  /\ IF IsNetworkError(e)
       THEN MarkFailure(n)
       ELSE UNCHANGED <<healthy, consecutiveSuccess, consecutiveFailure>>
-----------------------------------------------------------------------------
\* A node comes into trouble, changes it, or is sound again.
Change(n) ==
  /\ \E t \in Conditions \cup {"none"} :
       t # trouble[n] /\ trouble' = [trouble EXCEPT ![n] = t]
  /\ UNCHANGED <<healthVars, calling, told>>

\* A request goes to a node, or to none.
Begin(c) ==
  /\ calling[c] = Idle
  /\ \/ /\ \E n \in Candidates : calling' = [calling EXCEPT ![c] = n]
        /\ told' = [told EXCEPT ![c] = Outcome("none")]
     \/ /\ Candidates = {}
        /\ told' = [told EXCEPT ![c] = Outcome("ErrNoHealthyNodes")]
        /\ UNCHANGED calling
  /\ UNCHANGED <<trouble, healthVars>>

Return(c, outcome) ==
  /\ told' = [told EXCEPT ![c] = outcome]
  /\ calling' = [calling EXCEPT ![c] = Idle]
  /\ UNCHANGED trouble

\* The node answers; what kind of request it was matters only now. The pool
\* sees the transport's error, not the client's: a refusal over gRPC is a
\* success to it, over HTTP an error without a verdict.
Answer(c) ==
  /\ calling[c] # Idle
  /\ trouble[calling[c]] = "none"
  /\ \E op \in Ops : \E deed \in Deeds(op, Protocol[calling[c]]) :
       LET n == calling[c]
           by == Protocol[n]
       IN /\ Return(c, [op |-> op, deed |-> deed, by |-> by, what |-> Told(op, deed, by)])
          /\ IF Delivered(op, deed, by).error = "none"
               THEN MarkSuccess(n)
               ELSE RecordError(n, NoCause, FALSE)

\* The request meets the node's trouble.
Break(c) ==
  /\ calling[c] # Idle
  /\ trouble[calling[c]] # "none"
  /\ \E e \in Causes(trouble[calling[c]], Protocol[calling[c]]) :
       RecordError(calling[c], e, TRUE)
  /\ Return(c, Outcome("outage"))

\* The caller cancels, or its deadline passes before a node that may be sound.
GiveUp(c) ==
  /\ calling[c] # Idle
  /\ \/ RecordError(calling[c], Cancelled(Protocol[calling[c]]), FALSE)
     \/ RecordError(calling[c], OutOfTime(Protocol[calling[c]]), TRUE)
  /\ Return(c, Outcome("given up"))

\* probeOnce: GetNowBlock under ProbeTimeout.
Probe(n) ==
  /\ IF trouble[n] = "none"
       THEN MarkSuccess(n)
       ELSE \E e \in Causes(trouble[n], Protocol[n]) : RecordError(n, e, TRUE)
  /\ UNCHANGED <<trouble, calling, told>>

Next ==
  \/ \E n \in Nodes : Change(n) \/ Probe(n)
  \/ \E c \in Callers : Begin(c) \/ Answer(c) \/ Break(c) \/ GiveUp(c)

Spec == Init /\ [][Next]_vars

\* Every node is probed again and again. A tier that shifts for ever could
\* prevent that (ProbeSchedule), but the liveness property is of a world at rest.
FairSpec == Spec /\ \A n \in Nodes : WF_vars(Probe(n))
-----------------------------------------------------------------------------
TypeOK ==
  /\ trouble \in [Nodes -> Conditions \cup {"none"}]
  /\ healthy \in [Nodes -> BOOLEAN]
  /\ consecutiveSuccess \in [Nodes -> 0..SuccessThreshold]
  /\ consecutiveFailure \in [Nodes -> 0..FailureThreshold]
  /\ faults \in [Nodes -> 0..FailureThreshold]
  /\ calling \in [Callers -> Nodes \cup {Idle}]

\* A node is evicted only after FailureThreshold faults since its last success:
\* requests that met trouble of the node or of the way to it, or a deadline.
\* Neither what a sound node refuses or does not have, nor a caller that
\* cancels ever costs it its place (isNetworkError's "when in doubt it returns
\* false").
OnlyFaultsEvict ==
  [][\A n \in Nodes : healthy[n] /\ ~healthy'[n] => faults'[n] = FailureThreshold]_vars

\* The outcomes of one sort that n has seen in a row: at most one of its two
\* counters is ever above zero.
Run == [n \in Nodes |-> consecutiveSuccess[n] - consecutiveFailure[n]]

\* The place of each node, read off its flag and its counters.
Health == INSTANCE NodeHealth WITH
  up <- {n \in Nodes : healthy[n]},
  run <- Run

\* Whatever errors, refusals and cancelled calls reach recordOutcome, a node is
\* out after FailureThreshold counted failures in a row, back after
\* SuccessThreshold successes in a row, and what does not count ends no run.
HealthSpec == Health!Spec

\* What the caller should be told of each deed.
Honest(op, deed) ==
  CASE deed \in {"done", "rich", "cancelling"} -> {"value"}
    [] deed = "nothing" -> {"notFound", "empty"}
    [] deed \in {"refused", "novel"} /\ op \in Builders -> {"ContractValidateError"}
    [] deed \in {"refused", "novel"} /\ op = "energy" -> {"untyped"}
    [] deed = "refused" /\ op \notin Builders \cup {"energy", "call", "constant"} ->
         {"ErrNodeRefusedRequest"}
    [] deed \in {"refused", "novel", "reverted"} /\ op \in {"call", "constant"} ->
         {"ErrContractCallFailed"}
    [] deed \in {"novel", "coded", "flagged", "rejected"} /\ op = "broadcast" ->
         {"BroadcastError"}
    [] deed = "mute" ->
         {IF op \in Builders THEN "ErrInvalidTransaction"
          ELSE IF op = "constant" THEN "empty" ELSE "ErrNilResponse"}
    [] deed = "spoiled" -> {DecodeError(op)}

\* What the code is known to tell instead, over HTTP and over gRPC.
Lapses(op, deed, by) ==
  CASE by = "http" /\ op \in {"nodes", "block", "blockById", "blocks"}
         /\ deed \in {"done", "spoiled"} -> {"mangled"}
    [] by = "http" /\ op \in {"contract", "receipts"} /\ deed \in {"rich", "spoiled"} -> {"mangled"}
    [] by = "http" /\ op = "transaction" /\ deed \in {"done", "spoiled"} -> {"truncated"}
    [] by = "http" /\ op = "receipt" /\ deed \in {"done", "spoiled"} -> {"notFound"}
    [] by = "http" /\ op \in {"receipt", "receipts"} /\ deed = "cancelling" -> {"untyped"}
    [] by = "http" /\ op \in {"account", "witnesses"} /\ deed = "rich" -> {"truncated"}
    [] by = "http" /\ op = "constant" /\ deed = "done" -> {"truncated"}
    [] by = "http" /\ op = "energy" /\ deed = "novel" -> {"empty"}
    [] by = "grpc" /\ op \in {"transfer", "setting"} /\ deed \in {"refused", "novel"} -> {"untyped"}
    [] by = "grpc" /\ op = "setting" /\ deed = "mute" -> {"empty"}
    [] OTHER -> {}

Expected(op, deed, by) ==
  IF Lapses(op, deed, by) = {} THEN Honest(op, deed) ELSE Lapses(op, deed, by)

Faithful(t) == t.op \in Ops => t.what \in Expected(t.op, t.deed, t.by)

\* What the caller is told is what a sound node did, over either transport and
\* whichever way the answer is decoded: nothing, a refusal, a revert, a rejection
\* and undecodable strings each stay what they are, only what was done is told as
\* a value, and refusals to build have one type. Lapses lists what the code does
\* not keep: bytes of blocks, nodes and some fields of contracts and receipts are
\* mangled over HTTP, parts of transactions, accounts, witnesses and constant calls
\* lost, some refusals have no type over gRPC, and some answers pass for empty.
AnswerIsFaithful == \A c \in Callers : Faithful(told[c])

\* GetTransactionInfoByHash "returns transaction receipt by hash" (transactions.go):
\* a receipt the node has is not reported missing. Over HTTP it is, since
\* GetTransactionInfoById reads the hex id as base64.
ReceiptReturned ==
  \A c \in Callers :
    told[c].op = "receipt" /\ told[c].deed = "done" => told[c].what # "notFound"

\* Once nodes stop changing, some node is sound, the others are in trouble the
\* classifier notices, and callers stop giving up, requests go to sound nodes
\* only, and never to none.
Noticed == {"unreachable", "stalled", "busy"}
SettlesOnSound ==
  (/\ <>[][FALSE]_trouble
   /\ <>[][\A c \in Callers : ~GiveUp(c)]_vars
   /\ <>[](\A n \in Nodes : trouble[n] \in Noticed \cup {"none"})
   /\ <>[](\E n \in Nodes : trouble[n] = "none"))
  => <>[](Candidates # {} /\ \A n \in Candidates : trouble[n] = "none")
=============================================================================
