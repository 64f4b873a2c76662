---------------------------- MODULE FailoverProofs ----------------------------
(***************************************************************************)
(* Types, eviction and answers, for any nodes, tiers, protocols, troubles  *)
(* and thresholds.                                                         *)
(***************************************************************************)
EXTENDS Failover, TLAPS

\* A failure that counts was a fault of the node.
CountedAreFaults ==
  /\ consecutiveFailure \in [Nodes -> 0..FailureThreshold]
  /\ faults \in [Nodes -> 0..FailureThreshold]
  /\ healthy \in [Nodes -> BOOLEAN]
  /\ \A n \in Nodes : consecutiveFailure[n] <= faults[n]

Waiting == calling \in [Callers -> Nodes \cup {Idle}]

Evicted(n) == healthy[n] /\ ~healthy'[n]

\* What is not the node's fault is not taken for a network error.
LEMMA InnocentErrors ==
  /\ ~IsNetworkError(NoCause)
  /\ \A protocol \in {"grpc", "http"} : ~IsNetworkError(Cancelled(protocol))
BY DEF IsNetworkError, Cancelled, NoCause, Ctx, Grpc, NetworkCodes, LogicalCodes

LEMMA SuccessEvictsNobody ==
  ASSUME CountedAreFaults, NEW n \in Nodes, MarkSuccess(n)
  PROVE  CountedAreFaults' /\ \A m \in Nodes : ~Evicted(m)
BY FailoverAssumption DEF CountedAreFaults, MarkSuccess, Evicted

LEMMA ErrorEvictsByFaults ==
  ASSUME CountedAreFaults, NEW n \in Nodes, NEW e, NEW fault \in BOOLEAN,
         IsNetworkError(e) => fault, RecordError(n, e, fault)
  PROVE  CountedAreFaults' /\ \A m \in Nodes : Evicted(m) => faults'[m] = FailureThreshold
<1>1. CASE IsNetworkError(e)
  <2>1. fault BY <1>1
  <2>2. MarkFailure(n) BY <1>1 DEF RecordError
  <2>3. faults' = [faults EXCEPT ![n] = Count(@, FailureThreshold)]
    BY <2>1 DEF RecordError, Blame
  <2> QED BY <2>2, <2>3, FailoverAssumption DEF CountedAreFaults, MarkFailure, Count, Evicted
<1>2. CASE ~IsNetworkError(e)
  <2>1. UNCHANGED <<healthy, consecutiveFailure>> BY <1>2 DEF RecordError
  <2>2. faults' = [faults EXCEPT ![n] = IF fault THEN Count(@, FailureThreshold) ELSE @]
    BY DEF RecordError, Blame
  <2> QED BY <2>1, <2>2, FailoverAssumption DEF CountedAreFaults, Count, Evicted
<1> QED BY <1>1, <1>2

LEMMA StepEvictsByFaults ==
  CountedAreFaults /\ Waiting /\ [Next]_vars
    => /\ CountedAreFaults' /\ Waiting'
       /\ \A n \in Nodes : Evicted(n) => faults'[n] = FailureThreshold
<1> SUFFICES ASSUME CountedAreFaults, Waiting, [Next]_vars
             PROVE  /\ CountedAreFaults' /\ Waiting'
                    /\ \A n \in Nodes : Evicted(n) => faults'[n] = FailureThreshold
  OBVIOUS
<1>1. ASSUME UNCHANGED healthVars
      PROVE  CountedAreFaults' /\ \A n \in Nodes : ~Evicted(n)
  BY <1>1 DEF CountedAreFaults, Evicted, healthVars
<1>2. ASSUME NEW n \in Nodes, Change(n)
      PROVE  UNCHANGED healthVars /\ Waiting'
  BY <1>2 DEF Change, Waiting
<1>3. ASSUME NEW n \in Nodes, Probe(n)
      PROVE  /\ CountedAreFaults' /\ Waiting'
             /\ \A m \in Nodes : Evicted(m) => faults'[m] = FailureThreshold
  <2>1. Waiting' BY <1>3 DEF Probe, Waiting
  <2>2. CASE trouble[n] = "none"
    <3>1. MarkSuccess(n) BY <1>3, <2>2 DEF Probe
    <3> QED BY <2>1, <3>1, SuccessEvictsNobody
  <2>3. CASE trouble[n] # "none"
    <3>1. PICK e : RecordError(n, e, TRUE) BY <1>3, <2>3 DEF Probe
    <3> QED BY <2>1, <3>1, ErrorEvictsByFaults
  <2> QED BY <2>2, <2>3
<1>4. ASSUME NEW c \in Callers, Begin(c)
      PROVE  UNCHANGED healthVars /\ Waiting'
  BY <1>4 DEF Begin, Waiting, Candidates
<1>5. ASSUME NEW c \in Callers, NEW outcome, Return(c, outcome)
      PROVE  Waiting'
  BY <1>5 DEF Return, Waiting
<1>6. ASSUME NEW c \in Callers, calling[c] # Idle
      PROVE  calling[c] \in Nodes /\ Protocol[calling[c]] \in {"grpc", "http"}
  BY <1>6, FailoverAssumption DEF Waiting
<1>7. ASSUME NEW c \in Callers, Answer(c)
      PROVE  /\ CountedAreFaults' /\ Waiting'
             /\ \A m \in Nodes : Evicted(m) => faults'[m] = FailureThreshold
  <2>1. calling[c] \in Nodes BY <1>6, <1>7 DEF Answer
  <2>2. MarkSuccess(calling[c]) \/ RecordError(calling[c], NoCause, FALSE)
    BY <1>7 DEF Answer
  <2>3. Waiting' BY <1>5, <1>7 DEF Answer
  <2>4. CASE MarkSuccess(calling[c]) BY <2>1, <2>3, <2>4, SuccessEvictsNobody
  <2>5. CASE RecordError(calling[c], NoCause, FALSE)
    BY <2>1, <2>3, <2>5, InnocentErrors, ErrorEvictsByFaults
  <2> QED BY <2>2, <2>4, <2>5
<1>8. ASSUME NEW c \in Callers, Break(c)
      PROVE  /\ CountedAreFaults' /\ Waiting'
             /\ \A m \in Nodes : Evicted(m) => faults'[m] = FailureThreshold
  <2>1. calling[c] \in Nodes BY <1>6, <1>8 DEF Break
  <2>2. PICK e : RecordError(calling[c], e, TRUE) BY <1>8 DEF Break
  <2>3. Waiting' BY <1>5, <1>8 DEF Break
  <2> QED BY <2>1, <2>2, <2>3, ErrorEvictsByFaults
<1>9. ASSUME NEW c \in Callers, GiveUp(c)
      PROVE  /\ CountedAreFaults' /\ Waiting'
             /\ \A m \in Nodes : Evicted(m) => faults'[m] = FailureThreshold
  <2>1. calling[c] \in Nodes /\ Protocol[calling[c]] \in {"grpc", "http"}
    BY <1>6, <1>9 DEF GiveUp
  <2>2. Waiting' BY <1>5, <1>9 DEF GiveUp
  <2>3. CASE RecordError(calling[c], Cancelled(Protocol[calling[c]]), FALSE)
    BY <2>1, <2>2, <2>3, InnocentErrors, ErrorEvictsByFaults
  <2>4. CASE RecordError(calling[c], OutOfTime(Protocol[calling[c]]), TRUE)
    BY <2>1, <2>2, <2>4, ErrorEvictsByFaults
  <2> QED BY <1>9, <2>3, <2>4 DEF GiveUp
<1>10. ASSUME UNCHANGED vars PROVE UNCHANGED healthVars /\ Waiting'
  BY <1>10 DEF vars, Waiting
<1> QED BY <1>1, <1>2, <1>3, <1>4, <1>7, <1>8, <1>9, <1>10 DEF Next

\* A node loses its place only to FailureThreshold faults since its last success,
\* whatever sound nodes refuse or lack and however callers cancel: the failures
\* counted never exceed the faults.
THEOREM EvictionByFaults == Spec => OnlyFaultsEvict
<1>1. Init => CountedAreFaults /\ Waiting
  BY FailoverAssumption DEF Init, CountedAreFaults, Waiting, Idle
<1>2. CountedAreFaults /\ Waiting /\ [Next]_vars => CountedAreFaults' /\ Waiting'
  BY StepEvictsByFaults
<1>3. CountedAreFaults /\ Waiting /\ [Next]_vars
        => [\A n \in Nodes : healthy[n] /\ ~healthy'[n] => faults'[n] = FailureThreshold]_vars
  BY StepEvictsByFaults DEF Evicted
<1> QED BY <1>1, <1>2, <1>3, PTL DEF Spec, OnlyFaultsEvict
-----------------------------------------------------------------------------
(***************************************************************************)
(* Types.                                                                  *)
(***************************************************************************)
HealthTyped ==
  /\ healthy \in [Nodes -> BOOLEAN]
  /\ consecutiveSuccess \in [Nodes -> 0..SuccessThreshold]
  /\ consecutiveFailure \in [Nodes -> 0..FailureThreshold]
  /\ faults \in [Nodes -> 0..FailureThreshold]

LEMMA CountBounded ==
  ASSUME NEW limit \in Nat, NEW x \in 0..limit
  PROVE  Count(x, limit) \in 0..limit
BY DEF Count

LEMMA SuccessTyped ==
  ASSUME HealthTyped, NEW n \in Nodes, MarkSuccess(n)
  PROVE  HealthTyped'
<1>1. Count(consecutiveSuccess[n], SuccessThreshold) \in 0..SuccessThreshold
  BY FailoverAssumption, CountBounded DEF HealthTyped
<1> QED BY <1>1, FailoverAssumption DEF HealthTyped, MarkSuccess

LEMMA ErrorTyped ==
  ASSUME HealthTyped, NEW n \in Nodes, NEW e, NEW fault, RecordError(n, e, fault)
  PROVE  HealthTyped'
<1>1. /\ Count(consecutiveFailure[n], FailureThreshold) \in 0..FailureThreshold
      /\ Count(faults[n], FailureThreshold) \in 0..FailureThreshold
  BY FailoverAssumption, CountBounded DEF HealthTyped
<1>2. faults' \in [Nodes -> 0..FailureThreshold]
  BY <1>1 DEF HealthTyped, RecordError, Blame
<1>3. CASE IsNetworkError(e)
  <2>1. MarkFailure(n)
    BY <1>3 DEF RecordError
  <2> QED BY <1>1, <1>2, <2>1, FailoverAssumption DEF HealthTyped, MarkFailure
<1>4. CASE ~IsNetworkError(e)
  BY <1>2, <1>4 DEF HealthTyped, RecordError
<1> QED BY <1>3, <1>4

\* TypeOK needs no strengthening.
LEMMA StepTypeOK == TypeOK /\ [Next]_vars => TypeOK'
<1> SUFFICES ASSUME TypeOK, [Next]_vars PROVE TypeOK'
  OBVIOUS
<1>1. HealthTyped /\ Waiting
  BY DEF TypeOK, HealthTyped, Waiting
<1>2. ASSUME NEW n \in Nodes, Change(n) PROVE TypeOK'
  BY <1>2 DEF Change, TypeOK, healthVars
<1>3. ASSUME NEW n \in Nodes, Probe(n) PROVE TypeOK'
  <2>1. UNCHANGED <<trouble, calling>>
    BY <1>3 DEF Probe
  <2>2. HealthTyped'
    <3>1. CASE trouble[n] = "none"
      BY <1>1, <1>3, <3>1, SuccessTyped DEF Probe
    <3>2. CASE trouble[n] # "none"
      <4>1. PICK e : RecordError(n, e, TRUE)
        BY <1>3, <3>2 DEF Probe
      <4> QED BY <1>1, <4>1, ErrorTyped
    <3> QED BY <3>1, <3>2
  <2> QED BY <2>1, <2>2 DEF TypeOK, HealthTyped
<1>4. ASSUME NEW c \in Callers, Begin(c) PROVE TypeOK'
  BY <1>4 DEF Begin, Candidates, TypeOK, healthVars
<1>5. ASSUME NEW c \in Callers, NEW outcome, Return(c, outcome), HealthTyped' PROVE TypeOK'
  BY <1>5 DEF Return, TypeOK, HealthTyped
<1>6. ASSUME NEW c \in Callers, Answer(c) PROVE TypeOK'
  <2>1. calling[c] \in Nodes
    BY <1>1, <1>6 DEF Waiting, Answer
  <2>2. MarkSuccess(calling[c]) \/ RecordError(calling[c], NoCause, FALSE)
    BY <1>6 DEF Answer
  <2>3. HealthTyped'
    BY <1>1, <2>1, <2>2, SuccessTyped, ErrorTyped
  <2>4. PICK outcome : Return(c, outcome)
    BY <1>6 DEF Answer
  <2> QED BY <1>5, <2>3, <2>4
<1>7. ASSUME NEW c \in Callers, Break(c) \/ GiveUp(c) PROVE TypeOK'
  <2>1. calling[c] \in Nodes
    BY <1>1, <1>7 DEF Waiting, Break, GiveUp
  <2>2. PICK e, fault : RecordError(calling[c], e, fault)
    BY <1>7 DEF Break, GiveUp
  <2>3. HealthTyped'
    BY <1>1, <2>1, <2>2, ErrorTyped
  <2>4. PICK outcome : Return(c, outcome)
    BY <1>7 DEF Break, GiveUp
  <2> QED BY <1>5, <2>3, <2>4
<1>8. CASE UNCHANGED vars
  BY <1>8 DEF vars, healthVars, TypeOK
<1> QED BY <1>2, <1>3, <1>4, <1>6, <1>7, <1>8 DEF Next

\* The counters never pass their thresholds, and a caller waits for a node of
\* the pool or for none.
THEOREM TypeCorrect == Spec => []TypeOK
<1>1. Init => TypeOK
  BY FailoverAssumption DEF Init, TypeOK, Idle
<1> QED BY <1>1, StepTypeOK, PTL DEF Spec
-----------------------------------------------------------------------------
(***************************************************************************)
(* Answers: what the caller is told of each request and deed, one lemma    *)
(* per deed, over both transports.                                         *)
(***************************************************************************)
\* The path of each request, read off the sections that name it.
LEMMA HttpPaths ==
  /\ HttpPath("energy") = "plain" /\ HttpPath("number") = "plain" /\ HttpPath("nodes") = "plain"
  /\ HttpPath("receipt") = "plain" /\ HttpPath("transaction") = "plain"
  /\ HttpPath("contract") = "transformed" /\ HttpPath("blockById") = "transformed"
  /\ HttpPath("height") = "block" /\ HttpPath("block") = "block"
  /\ HttpPath("blocks") = "blockList" /\ HttpPath("receipts") = "receiptList"
  /\ HttpPath("resource") = "helper" /\ HttpPath("broadcast") = "helper"
  /\ HttpPath("call") = "helper" /\ HttpPath("constant") = "helper"
  /\ HttpPath("asset") = "helper" /\ HttpPath("witnesses") = "helper"
  /\ HttpPath("reward") = "helper" /\ HttpPath("account") = "visible"
  /\ HttpPath("index") = "visible" /\ HttpPath("delegations") = "visible"
  /\ HttpPath("build") = "tx" /\ HttpPath("transfer") = "tx" /\ HttpPath("setting") = "tx"
  /\ HttpPath("trigger") = "wrapped"
BY DEF HttpPath, AccountPaths, BlockPaths, TransactionPaths, ContractPaths, DelegationPaths,
       StakingPaths, WitnessPaths, AssetPaths, NetworkPaths

LEMMA BuilderPaths == \A op \in Ops : HttpPath(op) \in {"tx", "wrapped"} <=> op \in Builders
BY HttpPaths DEF Ops, Builders

\* What the decoding path does not read of what is usually written.
UsuallyMissed(op) == UsuallyWritten(op) \ Reads(HttpPath(op))

LEMMA MissedByOp ==
  /\ \A op \in {"nodes", "receipt"} : UsuallyMissed(op) = {"hex"}
  /\ \A op \in {"block", "blockById", "blocks"} : UsuallyMissed(op) = {"unlisted"}
  /\ UsuallyMissed("transaction") = {"hex", "unlisted", "any"}
  /\ UsuallyMissed("constant") = {"unnamed"}
  /\ \A op \in Ops \ {"nodes", "receipt", "block", "blockById", "blocks", "transaction", "constant"} :
       UsuallyMissed(op) = {}
BY HttpPaths
DEF Ops, Builders, UsuallyMissed, UsuallyWritten, Reads, PlainReads, TransformReads, BlockReads,
    BlockListReads, ReceiptListReads, HelperReads, VisibleReads, TxReads

\* No path reads a map, a spoiled string or what no field is named for; those that
\* read unlisted bytes are not asked for contracts and receipts.
LEMMA MissedByDeed ==
  ASSUME NEW op \in Ops, NEW deed
  PROVE  /\ deed \notin {"rich", "cancelling", "spoiled"} => Missed(op, deed) = UsuallyMissed(op)
         /\ deed = "cancelling" => Missed(op, deed) = UsuallyMissed(op) \cup {"map"}
         /\ deed = "spoiled" => Missed(op, deed) = UsuallyMissed(op) \cup {"spoiled"}
         /\ deed = "rich" /\ op \in {"account", "witnesses"} => Missed(op, deed) = {"unnamed"}
         /\ deed = "rich" /\ op \in {"contract", "receipts"} => Missed(op, deed) = {"unlisted"}
<1>1. \A x \in {"map", "spoiled", "unnamed", "unlisted"} : x \notin Reads(HttpPath(op))
  BY HttpPaths
  DEF Ops, Reads, PlainReads, TransformReads, BlockReads, BlockListReads, ReceiptListReads,
      HelperReads, VisibleReads, TxReads
<1>2. op \in {"account", "witnesses", "contract", "receipts"} => UsuallyMissed(op) = {}
  BY MissedByOp DEF Ops
<1>3. CASE deed = "rich"
  BY <1>1, <1>2, <1>3 DEF Missed, Written, UsuallyMissed
<1>4. CASE deed \in {"cancelling", "spoiled"}
  BY <1>1, <1>4 DEF Missed, Written, UsuallyMissed
<1>5. CASE deed \notin {"rich", "cancelling", "spoiled"}
  BY <1>5 DEF Missed, Written, UsuallyMissed
<1> QED BY <1>3, <1>4, <1>5

\* What is refused in decoding: maps, and spoiled strings where they are decoded by
\* name.
LEMMA UndecodableDeeds ==
  ASSUME NEW op \in Ops, NEW deed
  PROVE  Undecodable(op, deed) <=>
           \/ deed = "cancelling"
           \/ deed = "spoiled" /\ HttpPath(op) \in {"helper", "visible", "tx", "wrapped"}
<1>1. "map" \notin UsuallyMissed(op) /\ "spoiled" \notin UsuallyMissed(op)
  BY MissedByOp DEF Ops
<1>2. deed = "rich" => "map" \notin Missed(op, deed) /\ "spoiled" \notin Missed(op, deed)
  BY <1>1 DEF Missed, Written, UsuallyMissed
<1> QED BY <1>1, <1>2, MissedByDeed DEF Undecodable

\* What arrives of a reply: over gRPC all of it.
LEMMA GrpcTold ==
  ASSUME NEW op, NEW deed
  PROVE  Told(op, deed, "grpc") = Checked(op, Reply(op, deed, "grpc"))
BY DEF Told, Delivered, Message

\* Over HTTP a refusal, a decoding error, or the translation.
LEMMA HttpTold ==
  ASSUME NEW op \in Ops, NEW deed
  PROVE  LET m == Reply(op, deed, "http")
         IN  /\ op \in Builders =>
                  Told(op, deed, "http") =
                    IF m.Error \/ m.code # "SUCCESS" THEN "ContractValidateError"
                    ELSE IF m.content = "none" THEN "ErrInvalidTransaction"
                    ELSE IF Undecodable(op, deed) THEN DecodeError(op)
                    ELSE Checked(op, Translated(op, deed, m))
             /\ op \notin Builders =>
                  Told(op, deed, "http") =
                    IF m.Error THEN "ErrNodeRefusedRequest"
                    ELSE IF Undecodable(op, deed) THEN DecodeError(op)
                    ELSE Checked(op, Translated(op, deed, m))
<1> DEFINE m == Reply(op, deed, "http")
<1>1. Told(op, deed, "http") =
        LET d == HttpDelivered(op, deed, m)
        IN  IF d.error = "none" THEN Checked(op, d.reply) ELSE d.error
  BY DEF Told, Delivered
<1>2. DecodeError(op) # "none"
  BY DEF DecodeError
<1> HIDE DEF m
<1>3. CASE op \in Builders
  <2>1. HttpPath(op) \in {"tx", "wrapped"}
    BY <1>3, BuilderPaths
  <2>2. HttpDelivered(op, deed, m) =
          IF m.Error \/ m.code # "SUCCESS" THEN Failure("ContractValidateError", m)
          ELSE IF m.content = "none" THEN Failure("ErrInvalidTransaction", m)
          ELSE IF Undecodable(op, deed) THEN Failure(DecodeError(op), m)
          ELSE Message(Translated(op, deed, m))
    BY <2>1 DEF HttpDelivered
  <2> QED BY <1>1, <1>2, <1>3, <2>2 DEF Failure, Message, m
<1>4. CASE op \notin Builders
  <2>1. HttpPath(op) \notin {"tx", "wrapped"}
    BY <1>4, BuilderPaths
  <2>2. HttpDelivered(op, deed, m) =
          IF m.Error THEN Failure("ErrNodeRefusedRequest", m)
          ELSE IF Undecodable(op, deed) THEN Failure(DecodeError(op), m)
          ELSE Message(Translated(op, deed, m))
    BY <2>1 DEF HttpDelivered, RefusedRead
  <2> QED BY <1>1, <1>2, <1>4, <2>2 DEF Failure, Message, m
<1> QED BY <1>3, <1>4

LEMMA TranslatedParts ==
  ASSUME NEW op, NEW deed
  PROVE  LET m == Reply(op, deed, "http")
             r == Translated(op, deed, m)
         IN  /\ r.result = m.result /\ r.message = m.message
             /\ r.code = IF m.code = "NOVEL" THEN "SUCCESS" ELSE m.code
             /\ r.content = IF m.content = "none" THEN "none"
                            ELSE IF Missed(op, deed) \cap Shapes # {} THEN "partial"
                            ELSE IF Missed(op, deed) = {} THEN "bytes" ELSE "garbage"
<1> DEFINE m == Reply(op, deed, "http")
<1>1. m = [Error |-> m.Error, result |-> m.result, code |-> m.code, message |-> m.message,
           content |-> m.content]
  BY DEF Reply
<1> HIDE DEF m
<1>2. /\ Translated(op, deed, m).result = m.result
      /\ Translated(op, deed, m).message = m.message
      /\ Translated(op, deed, m).code = IF m.code = "NOVEL" THEN "SUCCESS" ELSE m.code
      /\ Translated(op, deed, m).content =
           IF m.content = "none" THEN "none"
           ELSE IF Missed(op, deed) \cap Shapes # {} THEN "partial"
           ELSE IF Missed(op, deed) = {} THEN "bytes" ELSE "garbage"
  <2> DEFINE X == Missed(op, deed) \cap Shapes
             Y == Missed(op, deed)
  <2>1. Translated(op, deed, m) =
          [m EXCEPT
            !.code = IF @ = "NOVEL" THEN "SUCCESS" ELSE @,
            !.content = IF @ = "none" THEN "none"
                        ELSE IF X # {} THEN "partial"
                        ELSE IF Y = {} THEN "bytes" ELSE "garbage"]
    BY DEF Translated
  <2> HIDE DEF X, Y
  <2> QED BY <1>1, <2>1 DEF X, Y
<1> QED BY <1>2 DEF m

\* What the caller should be told, or what it is told instead.
Right(op, deed, by) == Told(op, deed, by) \in Expected(op, deed, by)

\* What is done, over gRPC whole, over HTTP as far as the path reads it.
LEMMA DoneRight ==
  ASSUME NEW op \in Ops, NEW by \in {"grpc", "http"}
  PROVE  Right(op, "done", by)
<1> DEFINE m == Reply(op, "done", by)
           r == Translated(op, "done", m)
<1>1. /\ ~m.Error /\ m.result /\ m.code = "SUCCESS" /\ ~m.message
      /\ m.content = IF by = "http" THEN "json" ELSE "bytes"
  BY DEF Reply
<1>2. CASE by = "grpc"
  <2>1. Told(op, "done", by) = Checked(op, m)
    BY <1>2, GrpcTold
  <2>2. Lapses(op, "done", by) = {} /\ Honest(op, "done") = {"value"}
    BY <1>2 DEF Lapses, Honest
  <2> HIDE DEF m
  <2>3. Checked(op, m) = "value"
    BY <1>1, <1>2
    DEF Checked, GetAccount, GetLastBlockHeight, GetTransactionInfoByHash, GetTransactionByHash,
        CheckTransaction, CreateTransferTransaction, UpdateSettingContract, TRC20Call,
        TriggerConstantContract, EstimateEnergy, BroadcastTransaction, Passed, Empty, CallFailed
  <2> QED BY <2>1, <2>2, <2>3 DEF Right, Expected
<1>3. CASE by = "http"
  <2>1. /\ r.result /\ r.code = "SUCCESS" /\ ~r.message
        /\ r.content = IF UsuallyMissed(op) \cap Shapes # {} THEN "partial"
                       ELSE IF UsuallyMissed(op) = {} THEN "bytes" ELSE "garbage"
    BY <1>1, <1>3, TranslatedParts, MissedByDeed
  <2>2. Told(op, "done", by) = Checked(op, r)
    BY <1>1, <1>3, HttpTold, UndecodableDeeds
  <2>3. r.content = IF op \in {"transaction", "constant"} THEN "partial"
                    ELSE IF op \in {"nodes", "receipt", "block", "blockById", "blocks"}
                      THEN "garbage" ELSE "bytes"
    <3>1. /\ UsuallyMissed("transaction") \cap Shapes # {}
          /\ UsuallyMissed("constant") \cap Shapes # {}
          /\ {"hex"} \cap Shapes = {} /\ {"unlisted"} \cap Shapes = {}
      BY MissedByOp DEF Shapes
    <3> HIDE DEF r
    <3> QED BY <2>1, <3>1, MissedByOp
  <2> HIDE DEF m, r
  <2>4. Checked(op, r) = IF op \in {"transaction", "constant"} THEN "truncated"
                         ELSE IF op \in {"nodes", "block", "blockById", "blocks"} THEN "mangled"
                         ELSE IF op = "receipt" THEN "notFound" ELSE "value"
    BY <2>1, <2>3
    DEF Ops, Checked, GetAccount, GetLastBlockHeight, GetTransactionInfoByHash, GetTransactionByHash,
        CheckTransaction, CreateTransferTransaction, UpdateSettingContract, TRC20Call,
        TriggerConstantContract, EstimateEnergy, BroadcastTransaction, Passed, Empty, CallFailed
  <2> QED BY <1>3, <2>2, <2>4 DEF Right, Expected, Lapses, Honest
<1> QED BY <1>2, <1>3

\* What is not there, or has nothing in it.
LEMMA NothingRight ==
  ASSUME NEW op \in Ops, NEW by \in {"grpc", "http"}, NEW deed \in {"nothing", "mute"},
         deed \in Deeds(op, by)
  PROVE  Right(op, deed, by)
<1> DEFINE m == Reply(op, deed, by)
           r == Translated(op, deed, m)
<1>1. /\ ~m.Error /\ (m.result <=> deed = "nothing") /\ m.code = "SUCCESS" /\ ~m.message
      /\ m.content = "none"
  BY DEF Reply
<1>2. Lapses(op, deed, by) = IF by = "grpc" /\ op = "setting" /\ deed = "mute" THEN {"empty"} ELSE {}
  BY DEF Lapses
<1>3. deed = "nothing" => op \in Lookups
  BY DEF Deeds
<1>4. deed = "mute" => op \in Builders \cup {"call", "constant", "height"}
  BY DEF Deeds
<1>5. by = "http" => r.result = m.result /\ r.code = "SUCCESS" /\ ~r.message /\ r.content = "none"
  BY <1>1, TranslatedParts
<1>6. CASE by = "grpc"
  <2>1. Told(op, deed, by) = Checked(op, m)
    BY <1>6, GrpcTold
  <2> HIDE DEF m
  <2> QED BY <1>1, <1>2, <1>3, <1>4, <1>6, <2>1
    DEF Right, Expected, Honest, Lookups, Builders, Checked, GetAccount, GetLastBlockHeight,
        GetTransactionInfoByHash, GetTransactionByHash, CheckTransaction,
        CreateTransferTransaction, UpdateSettingContract, TRC20Call, TriggerConstantContract,
        Passed, Empty, CallFailed
<1>7. CASE by = "http"
  <2>1. Told(op, deed, by) = IF op \in Builders THEN "ErrInvalidTransaction" ELSE Checked(op, r)
    BY <1>1, <1>7, HttpTold, UndecodableDeeds
  <2> HIDE DEF m, r
  <2> QED BY <1>1, <1>2, <1>3, <1>4, <1>5, <1>7, <2>1
    DEF Right, Expected, Honest, Lookups, Builders, Checked, GetAccount, GetLastBlockHeight,
        GetTransactionInfoByHash, GetTransactionByHash, TRC20Call, TriggerConstantContract,
        Passed, CallFailed
<1> QED BY <1>6, <1>7

\* What is refused, by an Error or by a code; a code without a name is none.
LEMMA RefusedRight ==
  ASSUME NEW op \in Ops, NEW by \in {"grpc", "http"}, NEW deed \in {"refused", "novel"},
         deed \in Deeds(op, by), deed = "refused" \/ op # "broadcast"
  PROVE  Right(op, deed, by)
<1> DEFINE m == Reply(op, deed, by)
           r == Translated(op, deed, m)
<1>1. /\ ~m.result /\ m.content = "none"
      /\ m.Error <=> deed = "refused" /\ ~InResult(op) /\ by = "http"
      /\ m.message <=> InResult(op) \/ by = "grpc"
      /\ m.code = IF deed = "novel" THEN "NOVEL"
                  ELSE IF InResult(op) \/ by = "grpc" THEN "FAILED" ELSE "SUCCESS"
  BY DEF Reply, InResult
<1>2. by = "grpc" => op \in Builders \cup {"call", "constant", "energy"}
  BY DEF Deeds, InResult, Builders
<1>3. deed = "novel" => InResult(op) \/ (op \in Builders /\ by = "grpc")
  BY DEF Deeds
<1>4. CASE by = "grpc"
  <2>1. Told(op, deed, by) = Checked(op, m)
    BY <1>4, GrpcTold
  <2> HIDE DEF m
  <2> QED BY <1>1, <1>2, <1>4, <2>1
    DEF Right, Expected, Lapses, Honest, Builders, Checked, CheckTransaction,
        CreateTransferTransaction, UpdateSettingContract, TRC20Call, TriggerConstantContract,
        EstimateEnergy, Passed, Empty, CallFailed
<1>5. CASE by = "http"
  <2>1. ~Undecodable(op, deed)
    BY UndecodableDeeds
  <2>2. /\ ~r.result /\ r.message = m.message /\ r.content = "none"
        /\ r.code = IF m.code = "NOVEL" THEN "SUCCESS" ELSE m.code
    BY <1>1, <1>5, TranslatedParts
  <2>3. Told(op, deed, by) =
          IF op \in Builders THEN "ContractValidateError"
          ELSE IF m.Error THEN "ErrNodeRefusedRequest" ELSE Checked(op, r)
    BY <1>1, <1>3, <1>5, <2>1, HttpTold DEF Builders, InResult
  <2> HIDE DEF m, r
  <2> QED BY <1>1, <1>3, <1>5, <2>2, <2>3
    DEF Right, Expected, Lapses, Honest, Builders, InResult, Checked, TRC20Call,
        TriggerConstantContract, EstimateEnergy, Passed, CallFailed
<1> QED BY <1>4, <1>5

\* A broadcast that is rejected, by a code, by the flag, or by both.
LEMMA RejectedRight ==
  ASSUME NEW by \in {"grpc", "http"}, NEW deed \in {"novel", "coded", "flagged", "rejected"}
  PROVE  Right("broadcast", deed, by)
<1> DEFINE m == Reply("broadcast", deed, by)
           r == Translated("broadcast", deed, m)
<1>1. ~m.Error /\ (m.result <=> deed = "coded") /\ (deed = "coded" => m.code = "FAILED")
  BY DEF Reply, InResult
<1>2. by = "http" => r.result = m.result /\ (deed = "coded" => r.code = "FAILED")
  BY <1>1, TranslatedParts
<1>3. Told("broadcast", deed, by) = BroadcastTransaction(IF by = "http" THEN r ELSE m)
  <2>1. "broadcast" \in Ops \ Builders
    BY DEF Ops, Builders
  <2> QED BY <1>1, <2>1, GrpcTold, HttpTold, UndecodableDeeds DEF Checked
<1> HIDE DEF m, r
<1>4. Told("broadcast", deed, by) = "BroadcastError"
  BY <1>1, <1>2, <1>3 DEF BroadcastTransaction
<1> QED BY <1>4 DEF Right, Expected, Lapses, Honest, Builders

\* A call that reverted: its code is SUCCESS, its message says otherwise.
LEMMA RevertedRight ==
  ASSUME NEW op \in {"call", "constant"}, NEW by \in {"grpc", "http"}
  PROVE  Right(op, "reverted", by)
<1> DEFINE m == Reply(op, "reverted", by)
           r == Translated(op, "reverted", m)
<1>1. ~m.Error /\ m.message
  BY DEF Reply
<1>2. by = "http" => r.message
  BY <1>1, TranslatedParts
<1>3. Told(op, "reverted", by) = Checked(op, IF by = "http" THEN r ELSE m)
  <2>1. op \in Ops \ Builders
    BY DEF Ops, Builders
  <2> QED BY <1>1, <2>1, GrpcTold, HttpTold, UndecodableDeeds
<1> HIDE DEF m, r
<1>4. Told(op, "reverted", by) = "ErrContractCallFailed"
  BY <1>1, <1>2, <1>3 DEF Checked, TRC20Call, TriggerConstantContract, CallFailed
<1> QED BY <1>4 DEF Right, Expected, Lapses, Honest

\* What comes with it now and then, and is whole over gRPC only.
LEMMA RichRight ==
  ASSUME NEW op \in {"account", "witnesses", "contract", "receipts"}, NEW by \in {"grpc", "http"}
  PROVE  Right(op, "rich", by)
<1> DEFINE m == Reply(op, "rich", by)
           r == Translated(op, "rich", m)
<1>1. ~m.Error /\ m.content = IF by = "http" THEN "json" ELSE "bytes"
  BY DEF Reply
<1>2. op \in Ops \ Builders
  BY DEF Ops, Builders
<1>3. by = "http" =>
        r.content = IF op \in {"account", "witnesses"} THEN "partial" ELSE "garbage"
  <2>1. {"unnamed"} \cap Shapes # {} /\ {"unlisted"} \cap Shapes = {}
    BY DEF Shapes
  <2> QED BY <1>1, <1>2, <2>1, TranslatedParts, MissedByDeed
<1>4. Told(op, "rich", by) = Checked(op, IF by = "http" THEN r ELSE m)
  BY <1>1, <1>2, GrpcTold, HttpTold, UndecodableDeeds
<1> HIDE DEF m, r
<1> QED BY <1>1, <1>3, <1>4
  DEF Right, Expected, Lapses, Honest, Checked, GetAccount, Passed

\* A receipt with a map is not decoded over HTTP.
LEMMA CancellingRight ==
  ASSUME NEW op \in {"receipt", "receipts"}, NEW by \in {"grpc", "http"}
  PROVE  Right(op, "cancelling", by)
<1> DEFINE m == Reply(op, "cancelling", by)
<1>1. ~m.Error /\ m.content = IF by = "http" THEN "json" ELSE "bytes"
  BY DEF Reply
<1>2. op \in Ops \ Builders
  BY DEF Ops, Builders
<1>3. Told(op, "cancelling", by) = IF by = "http" THEN DecodeError(op) ELSE Checked(op, m)
  BY <1>1, <1>2, GrpcTold, HttpTold, UndecodableDeeds
<1> HIDE DEF m
<1> QED BY <1>1, <1>3
  DEF Right, Expected, Lapses, Honest, DecodeError, Checked, GetTransactionInfoByHash, Passed

\* A spoiled string is an error where it is decoded by name, and passes for a value
\* where it is not.
LEMMA SpoiledRight ==
  ASSUME NEW op \in Ops, "spoiled" \in Deeds(op, "http")
  PROVE  Right(op, "spoiled", "http")
<1> DEFINE m == Reply(op, "spoiled", "http")
           r == Translated(op, "spoiled", m)
           named == HttpPath(op) \in {"helper", "visible", "tx", "wrapped"}
<1>1. ~m.Error /\ m.code = "SUCCESS" /\ m.content = "json"
  BY DEF Reply
<1>2. Undecodable(op, "spoiled") <=> named
  BY UndecodableDeeds
<1>3. r.content = IF Missed(op, "spoiled") \cap Shapes # {} THEN "partial" ELSE "garbage"
  <2>1. Missed(op, "spoiled") # {}
    BY MissedByDeed
  <2> QED BY <1>1, <2>1, TranslatedParts
<1>4. Told(op, "spoiled", "http") = IF named THEN DecodeError(op) ELSE Checked(op, r)
  BY <1>1, <1>2, BuilderPaths, HttpTold
<1>5. UsuallyWritten(op) \cap {"hex", "base58"} # {}
  BY DEF Deeds
<1>6. ~named => op \in {"receipt", "transaction", "blockById", "block", "blocks", "nodes",
                        "contract", "receipts"}
  BY <1>5, HttpPaths DEF Ops, Builders, UsuallyWritten
<1>7. named => op \notin {"receipt", "transaction", "blockById", "block", "blocks", "nodes",
                          "contract", "receipts"}
  BY HttpPaths
<1>8. r.content = "partial" <=> op \in {"transaction", "constant"}
  <2>1. Missed(op, "spoiled") = UsuallyMissed(op) \cup {"spoiled"}
    BY MissedByDeed
  <2>2. UsuallyMissed(op) \cap Shapes # {} <=> op \in {"transaction", "constant"}
    BY MissedByOp DEF Shapes
  <2>3. "spoiled" \notin Shapes
    BY DEF Shapes
  <2> QED BY <1>3, <2>1, <2>2, <2>3
<1> HIDE DEF m, r, named
<1>9. CASE named
  BY <1>4, <1>7, <1>9 DEF Right, Expected, Lapses, Honest
<1>10. CASE ~named
  BY <1>3, <1>4, <1>6, <1>8, <1>10
  DEF Right, Expected, Lapses, Checked, GetTransactionInfoByHash, GetTransactionByHash, Passed
<1> QED BY <1>9, <1>10

\* The deeds by the lemma they fall under.
LEMMA DeedsByKind ==
  ASSUME NEW op \in Ops, NEW by \in {"grpc", "http"}, NEW deed \in Deeds(op, by)
  PROVE  \/ deed \in {"done", "nothing", "mute"}
         \/ deed \in {"refused", "novel"} /\ (deed = "refused" \/ op # "broadcast")
         \/ op = "broadcast" /\ deed \in {"novel", "coded", "flagged", "rejected"}
         \/ deed = "reverted" /\ op \in {"call", "constant"}
         \/ deed = "rich" /\ op \in {"account", "witnesses", "contract", "receipts"}
         \/ deed = "cancelling" /\ op \in {"receipt", "receipts"}
         \/ deed = "spoiled" /\ by = "http"
BY DEF Deeds, Builders, Lookups, InResult

LEMMA ToldFaithfully ==
  ASSUME NEW op \in Ops, NEW by \in {"grpc", "http"}, NEW deed \in Deeds(op, by),
         NEW t, t.op = op, t.deed = deed, t.by = by, t.what = Told(op, deed, by)
  PROVE  Faithful(t)
<1>1. Right(op, deed, by)
  BY DoneRight, NothingRight, RefusedRight, RejectedRight, RevertedRight, RichRight,
     CancellingRight, SpoiledRight, DeedsByKind
<1> QED BY <1>1 DEF Right, Faithful

\* Outcomes that are no answer of a sound node.
LEMMA OutcomesFaithful ==
  \A what \in {"none", "ErrNoHealthyNodes", "outage", "given up"} : Faithful(Outcome(what))
BY DEF Faithful, Outcome, Ops

\* The inductive form: every caller has been told something, and it is faithful.
Heard == DOMAIN told = Callers /\ AnswerIsFaithful

LEMMA HeardKept ==
  ASSUME Heard, NEW c \in Callers, NEW t, Faithful(t), told' = [told EXCEPT ![c] = t]
  PROVE  Heard'
BY DEF Heard, AnswerIsFaithful

LEMMA StepHeard == TypeOK /\ Heard /\ [Next]_vars => Heard'
<1> SUFFICES ASSUME TypeOK, Heard, [Next]_vars PROVE Heard'
  OBVIOUS
<1>1. CASE told' = told
  BY <1>1 DEF Heard, AnswerIsFaithful
<1>2. ASSUME NEW c \in Callers, Begin(c) PROVE Heard'
  BY <1>2, OutcomesFaithful, HeardKept DEF Begin
<1>3. ASSUME NEW c \in Callers, Answer(c) PROVE Heard'
  <2> DEFINE by == Protocol[calling[c]]
  <2>1. by \in {"grpc", "http"}
    BY <1>3, FailoverAssumption DEF Answer, TypeOK
  <2>2. PICK op \in Ops : \E deed \in Deeds(op, by) :
          Return(c, [op |-> op, deed |-> deed, by |-> by, what |-> Told(op, deed, by)])
    BY <1>3 DEF Answer
  <2>3. PICK deed \in Deeds(op, by) :
          Return(c, [op |-> op, deed |-> deed, by |-> by, what |-> Told(op, deed, by)])
    BY <2>2
  <2> DEFINE t == [op |-> op, deed |-> deed, by |-> by, what |-> Told(op, deed, by)]
  <2>4. t.op = op /\ t.deed = deed /\ t.by = by /\ t.what = Told(op, deed, by)
    OBVIOUS
  <2>5. told' = [told EXCEPT ![c] = t]
    BY <2>3 DEF Return
  <2> HIDE DEF t, by
  <2>6. Faithful(t)
    BY <2>1, <2>4, ToldFaithfully
  <2> QED BY <2>5, <2>6, HeardKept
<1>4. ASSUME NEW c \in Callers, Break(c) \/ GiveUp(c) PROVE Heard'
  BY <1>4, OutcomesFaithful, HeardKept DEF Break, GiveUp, Return
<1>5. ASSUME NEW n \in Nodes, Change(n) \/ Probe(n) PROVE told' = told
  BY <1>5 DEF Change, Probe
<1>6. CASE UNCHANGED vars
  BY <1>1, <1>6 DEF vars
<1> QED BY <1>1, <1>2, <1>3, <1>4, <1>5, <1>6 DEF Next

\* Whatever a sound node does with whichever request, the caller is told of it as
\* it was, over either transport and along every decoding path.
THEOREM AnswersFaithful == Spec => []AnswerIsFaithful
<1>1. Init => Heard
  BY OutcomesFaithful DEF Init, Heard, AnswerIsFaithful
<1>2. Heard => AnswerIsFaithful
  BY DEF Heard
<1> QED BY <1>1, <1>2, StepHeard, TypeCorrect, PTL DEF Spec
-----------------------------------------------------------------------------
(***************************************************************************)
(* Failover implements NodeHealth, for every pool.                          *)
(***************************************************************************)

\* Of the two counters of a node at least one is zero.
Streaks ==
  \A n \in Nodes : consecutiveSuccess[n] = 0 \/ consecutiveFailure[n] = 0

LEMMA SuccessImplemented ==
  ASSUME HealthTyped, Streaks, NEW n \in Nodes,
         consecutiveSuccess' = [consecutiveSuccess EXCEPT ![n] = Count(@, SuccessThreshold)],
         consecutiveFailure' = [consecutiveFailure EXCEPT ![n] = 0],
         healthy' = [healthy EXCEPT ![n] = @ \/ consecutiveSuccess'[n] = SuccessThreshold]
  PROVE  Streaks' /\ Health!Success(n)
<1> DEFINE longer == Count(consecutiveSuccess[n], SuccessThreshold)
           Up == {m \in Nodes : healthy[m]}
<1>1. /\ SuccessThreshold \in Nat \ {0} /\ FailureThreshold \in Nat \ {0}
      /\ \A m \in Nodes : /\ consecutiveSuccess[m] \in 0..SuccessThreshold
                          /\ consecutiveFailure[m] \in 0..FailureThreshold
                          /\ consecutiveSuccess[m] = 0 \/ consecutiveFailure[m] = 0
  BY FailoverAssumption DEF HealthTyped, Streaks
<1>2. longer \in 0..SuccessThreshold /\ longer = consecutiveSuccess'[n]
  BY <1>1 DEF Count, HealthTyped
<1>3. longer = Health!Lesser((IF Run[n] < 0 THEN 0 ELSE Run[n]) + 1, SuccessThreshold)
  <2>1. Run[n] = consecutiveSuccess[n] - consecutiveFailure[n]
    BY DEF Run
  <2> QED BY <1>1, <2>1 DEF Count, Health!Lesser
<1> HIDE DEF longer
<1>4. \A m \in Nodes : /\ consecutiveSuccess'[m] = IF m = n THEN longer ELSE consecutiveSuccess[m]
                       /\ consecutiveFailure'[m] = IF m = n THEN 0 ELSE consecutiveFailure[m]
  BY DEF HealthTyped, longer
<1>5. Run' = [Run EXCEPT ![n] = longer]
  <2>1. \A m \in Nodes : consecutiveSuccess'[m] - consecutiveFailure'[m]
                           = IF m = n THEN longer ELSE Run[m]
    BY <1>2, <1>4 DEF Run
  <2> QED BY <2>1 DEF Run
<1>6. Up' = IF longer = SuccessThreshold THEN Up \cup {n} ELSE Up
  BY <1>2 DEF HealthTyped
<1>7. Run'[n] = longer
  BY <1>5 DEF Run
<1>8. Streaks'
  BY <1>1, <1>4 DEF Streaks
<1> QED BY <1>3, <1>5, <1>6, <1>7, <1>8 DEF Health!Success

LEMMA FailureImplemented ==
  ASSUME HealthTyped, Streaks, NEW n \in Nodes,
         consecutiveSuccess' = [consecutiveSuccess EXCEPT ![n] = 0],
         consecutiveFailure' = [consecutiveFailure EXCEPT ![n] = Count(@, FailureThreshold)],
         healthy' = [healthy EXCEPT ![n] = @ /\ consecutiveFailure'[n] < FailureThreshold]
  PROVE  Streaks' /\ Health!Failure(n)
<1> DEFINE longer == Count(consecutiveFailure[n], FailureThreshold)
           Up == {m \in Nodes : healthy[m]}
<1>1. /\ SuccessThreshold \in Nat \ {0} /\ FailureThreshold \in Nat \ {0}
      /\ \A m \in Nodes : /\ consecutiveSuccess[m] \in 0..SuccessThreshold
                          /\ consecutiveFailure[m] \in 0..FailureThreshold
                          /\ consecutiveSuccess[m] = 0 \/ consecutiveFailure[m] = 0
  BY FailoverAssumption DEF HealthTyped, Streaks
<1>2. longer \in 0..FailureThreshold /\ longer = consecutiveFailure'[n]
      /\ (longer < FailureThreshold <=> -longer # -FailureThreshold)
  BY <1>1 DEF Count, HealthTyped
<1>3. longer = Health!Lesser((IF Run[n] > 0 THEN 0 ELSE -Run[n]) + 1, FailureThreshold)
  <2>1. Run[n] = consecutiveSuccess[n] - consecutiveFailure[n]
    BY DEF Run
  <2> QED BY <1>1, <2>1 DEF Count, Health!Lesser
<1> HIDE DEF longer
<1>4. \A m \in Nodes : /\ consecutiveSuccess'[m] = IF m = n THEN 0 ELSE consecutiveSuccess[m]
                       /\ consecutiveFailure'[m] = IF m = n THEN longer ELSE consecutiveFailure[m]
  BY DEF HealthTyped, longer
<1>5. Run' = [Run EXCEPT ![n] = -longer]
  <2>1. \A m \in Nodes : consecutiveSuccess'[m] - consecutiveFailure'[m]
                           = IF m = n THEN -longer ELSE Run[m]
    BY <1>2, <1>4 DEF Run
  <2> QED BY <2>1 DEF Run
<1>6. Up' = IF -longer = -FailureThreshold THEN Up \ {n} ELSE Up
  BY <1>2 DEF HealthTyped
<1>7. Run'[n] = -longer
  BY <1>5 DEF Run
<1>8. Streaks'
  BY <1>1, <1>4 DEF Streaks
<1> QED BY <1>3, <1>5, <1>6, <1>7, <1>8 DEF Health!Failure

\* An error that counts is a failure of the node, any other leaves its place.
LEMMA ErrorImplemented ==
  ASSUME HealthTyped, Streaks, NEW n \in Nodes, NEW e, NEW fault, RecordError(n, e, fault)
  PROVE  Streaks' /\ [Health!Next]_(Health!vars)
<1>1. CASE IsNetworkError(e)
  <2>1. MarkFailure(n) BY <1>1 DEF RecordError
  <2>2. Streaks' /\ Health!Failure(n) BY <2>1, FailureImplemented DEF MarkFailure
  <2> QED BY <2>2 DEF Health!Next
<1>2. CASE ~IsNetworkError(e)
  BY <1>2 DEF RecordError, Streaks, Health!vars, Run
<1> QED BY <1>1, <1>2

\* Whatever reaches recordOutcome from nodes in trouble, sound nodes that refuse
\* and callers that give up, a node loses and regains its place by runs alone.
THEOREM FailoverImplementsHealth == Spec => HealthSpec
<1>1. Init => Streaks /\ Health!Init
  BY DEF Init, Streaks, Run, Health!Init
<1>2. TypeOK /\ Streaks /\ [Next]_vars => Streaks' /\ [Health!Next]_(Health!vars)
  <2> SUFFICES ASSUME TypeOK, Streaks, [Next]_vars
               PROVE  Streaks' /\ [Health!Next]_(Health!vars)
    OBVIOUS
  <2>1. HealthTyped BY DEF TypeOK, HealthTyped
  <2>2. ASSUME UNCHANGED healthVars
        PROVE  Streaks' /\ [Health!Next]_(Health!vars)
    BY <2>2 DEF healthVars, Streaks, Run, Health!vars
  <2>3. ASSUME NEW n \in Nodes, MarkSuccess(n)
        PROVE  Streaks' /\ [Health!Next]_(Health!vars)
    <3>1. Streaks' /\ Health!Success(n)
      BY <2>1, <2>3, SuccessImplemented DEF MarkSuccess
    <3> QED BY <3>1 DEF Health!Next
  <2>4. ASSUME NEW n \in Nodes, Probe(n)
        PROVE  Streaks' /\ [Health!Next]_(Health!vars)
    BY <2>1, <2>3, <2>4, ErrorImplemented DEF Probe
  <2>5. ASSUME NEW c \in Callers, calling[c] # Idle
        PROVE  calling[c] \in Nodes
    BY <2>5 DEF TypeOK
  <2>6. ASSUME NEW c \in Callers, Answer(c)
        PROVE  Streaks' /\ [Health!Next]_(Health!vars)
    <3>1. calling[c] \in Nodes BY <2>5, <2>6 DEF Answer
    <3>2. MarkSuccess(calling[c]) \/ RecordError(calling[c], NoCause, FALSE)
      BY <2>6 DEF Answer
    <3> QED BY <2>1, <2>3, <3>1, <3>2, ErrorImplemented
  <2>7. ASSUME NEW c \in Callers, Break(c) \/ GiveUp(c)
        PROVE  Streaks' /\ [Health!Next]_(Health!vars)
    <3>1. calling[c] \in Nodes BY <2>5, <2>7 DEF Break, GiveUp
    <3>2. PICK e, fault : RecordError(calling[c], e, fault) BY <2>7 DEF Break, GiveUp
    <3> QED BY <2>1, <3>1, <3>2, ErrorImplemented
  <2>8. CASE \E n \in Nodes : Change(n) BY <2>2, <2>8 DEF Change
  <2>9. CASE \E c \in Callers : Begin(c) BY <2>2, <2>9 DEF Begin
  <2>10. CASE UNCHANGED vars BY <2>2, <2>10 DEF vars, healthVars
  <2> QED BY <2>4, <2>6, <2>7, <2>8, <2>9, <2>10 DEF Next
<1> QED BY <1>1, <1>2, TypeCorrect, PTL DEF Spec, HealthSpec, Health!Spec
-----------------------------------------------------------------------------
(***************************************************************************)
(* The steps of SettlesOnSound: which way each step moves a node, given    *)
(* its condition. Liveness is then a matter of enough probes.              *)
(***************************************************************************)

\* A node in trouble that is noticed is never readmitted, its failures are not
\* forgotten, and a probe of it takes it out or counts one more.
Sinks(n) ==
  trouble[n] \in Noticed =>
    /\ healthy'[n] => healthy[n]
    /\ consecutiveFailure'[n] >= consecutiveFailure[n]
    /\ Probe(n) => ~healthy'[n] \/ consecutiveFailure'[n] = consecutiveFailure[n] + 1

\* Unless a caller gives up, a sound node is not evicted, its successes are not
\* forgotten, and a probe of it brings it back or counts one more.
Rises(n) ==
  trouble[n] = "none" /\ (\A c \in Callers : ~GiveUp(c)) =>
    /\ healthy[n] => healthy'[n]
    /\ consecutiveSuccess'[n] >= consecutiveSuccess[n]
    /\ Probe(n) => healthy'[n] \/ consecutiveSuccess'[n] = consecutiveSuccess[n] + 1

\* isNetworkError tells just by the error which of the troubles it was, over
\* either transport: those of Noticed count, a barred or garbled answer never.
THEOREM NoticedByError ==
  \A t \in Troubles, protocol \in {"grpc", "http"} :
    \A e \in Causes(t, protocol) : IsNetworkError(e) <=> t \in Noticed
BY DEF Troubles, Causes, Noticed, IsNetworkError, NetworkCodes, LogicalCodes,
       NoCause, Grpc, Http, Ctx, Net

\* What a counted failure and a success do to the node m they are about or not.
LEMMA FailureMoves ==
  ASSUME HealthTyped, NEW n \in Nodes, NEW m \in Nodes, MarkFailure(n)
  PROVE  /\ healthy'[m] => healthy[m]
         /\ consecutiveFailure'[m] >= consecutiveFailure[m]
         /\ m = n => ~healthy'[m] \/ consecutiveFailure'[m] = consecutiveFailure[m] + 1
         /\ m # n => UNCHANGED <<healthy[m], consecutiveSuccess[m]>>
<1>1. consecutiveFailure[m] \in 0..FailureThreshold /\ FailureThreshold \in Nat \ {0}
  BY FailoverAssumption DEF HealthTyped
<1>2. CASE m # n
  <2>1. UNCHANGED <<healthy[m], consecutiveSuccess[m], consecutiveFailure[m]>>
    BY <1>2 DEF HealthTyped, MarkFailure
  <2> QED BY <1>1, <1>2, <2>1
<1>3. CASE m = n
  <2>1. /\ consecutiveFailure'[m] = Count(consecutiveFailure[m], FailureThreshold)
        /\ healthy'[m] <=> healthy[m] /\ consecutiveFailure'[m] < FailureThreshold
    BY <1>3 DEF HealthTyped, MarkFailure
  <2> QED BY <1>1, <1>3, <2>1 DEF Count
<1> QED BY <1>2, <1>3

LEMMA SuccessMoves ==
  ASSUME HealthTyped, NEW n \in Nodes, NEW m \in Nodes, MarkSuccess(n)
  PROVE  /\ healthy[m] => healthy'[m]
         /\ consecutiveSuccess'[m] >= consecutiveSuccess[m]
         /\ m = n => healthy'[m] \/ consecutiveSuccess'[m] = consecutiveSuccess[m] + 1
         /\ m # n => UNCHANGED <<healthy[m], consecutiveFailure[m]>>
<1>1. consecutiveSuccess[m] \in 0..SuccessThreshold /\ SuccessThreshold \in Nat \ {0}
  BY FailoverAssumption DEF HealthTyped
<1>2. CASE m # n
  <2>1. UNCHANGED <<healthy[m], consecutiveSuccess[m], consecutiveFailure[m]>>
    BY <1>2 DEF HealthTyped, MarkSuccess
  <2> QED BY <1>1, <1>2, <2>1
<1>3. CASE m = n
  <2>1. /\ consecutiveSuccess'[m] = Count(consecutiveSuccess[m], SuccessThreshold)
        /\ healthy'[m] <=> healthy[m] \/ consecutiveSuccess'[m] = SuccessThreshold
    BY <1>3 DEF HealthTyped, MarkSuccess
  <2> QED BY <1>1, <1>3, <2>1 DEF Count
<1> QED BY <1>2, <1>3

\* Health moves by a success of a sound node, or by an error; one that counts
\* and is none of a caller's giving up is that of a node in trouble.
LEMMA StepKinds ==
  ASSUME TypeOK, [Next]_vars
  PROVE  \/ UNCHANGED healthVars
         \/ \E k \in Nodes : trouble[k] = "none" /\ MarkSuccess(k)
         \/ \E k \in Nodes : \E e, fault :
              /\ RecordError(k, e, fault)
              /\ \/ trouble[k] # "none"
                 \/ ~IsNetworkError(e)
                 \/ \E c \in Callers : GiveUp(c)
<1>1. ASSUME NEW c \in Callers, calling[c] # Idle
      PROVE  calling[c] \in Nodes
  BY <1>1 DEF TypeOK
<1>2. CASE \E m \in Nodes : Probe(m)
  BY <1>2 DEF Probe
<1>3. ASSUME NEW c \in Callers, Answer(c)
      PROVE  \/ trouble[calling[c]] = "none" /\ MarkSuccess(calling[c])
             \/ RecordError(calling[c], NoCause, FALSE)
  BY <1>3 DEF Answer
<1>4. CASE \E c \in Callers : Answer(c)
  BY <1>1, <1>3, <1>4, InnocentErrors DEF Answer
<1>5. CASE \E c \in Callers : Break(c)
  BY <1>1, <1>5 DEF Break
<1>6. ASSUME NEW c \in Callers, GiveUp(c)
      PROVE  calling[c] \in Nodes /\ \E e, fault : RecordError(calling[c], e, fault)
  BY <1>1, <1>6 DEF GiveUp
<1>7. CASE \E c \in Callers : GiveUp(c)
  BY <1>6, <1>7
<1>8. CASE (\E m \in Nodes : Change(m)) \/ (\E c \in Callers : Begin(c)) \/ UNCHANGED vars
  BY <1>8 DEF Change, Begin, vars
<1> QED BY <1>2, <1>4, <1>5, <1>7, <1>8 DEF Next

LEMMA StepMoves ==
  ASSUME TypeOK, [Next]_vars, NEW n \in Nodes
  PROVE  Sinks(n) /\ Rises(n)
<1>1. /\ HealthTyped
      /\ consecutiveFailure[n] \in Int /\ consecutiveSuccess[n] \in Int
      /\ "none" \notin Noticed
  BY FailoverAssumption DEF TypeOK, HealthTyped, Noticed
<1>2. ASSUME NEW k \in Nodes, NEW e, NEW fault, RecordError(k, e, fault)
      PROVE  \/ IsNetworkError(e) /\ MarkFailure(k)
             \/ UNCHANGED <<healthy, consecutiveSuccess, consecutiveFailure>>
  BY <1>2 DEF RecordError
<1>3. ASSUME trouble[n] \in Noticed
      PROVE  /\ healthy'[n] => healthy[n]
             /\ consecutiveFailure'[n] >= consecutiveFailure[n]
  <2>1. CASE UNCHANGED <<healthy, consecutiveSuccess, consecutiveFailure>>
    BY <1>1, <2>1
  <2>2. ASSUME NEW k \in Nodes, trouble[k] = "none", MarkSuccess(k)
        PROVE  UNCHANGED <<healthy[n], consecutiveFailure[n]>>
    BY <1>1, <1>3, <2>2, SuccessMoves
  <2>3. ASSUME NEW k \in Nodes, MarkFailure(k)
        PROVE  /\ healthy'[n] => healthy[n]
               /\ consecutiveFailure'[n] >= consecutiveFailure[n]
    BY <1>1, <2>3, FailureMoves
  <2>4. CASE \E k \in Nodes : trouble[k] = "none" /\ MarkSuccess(k)
    BY <1>1, <2>2, <2>4
  <2>5. CASE \E k \in Nodes : \E e, fault : RecordError(k, e, fault)
    BY <1>2, <2>1, <2>3, <2>5
  <2>6. CASE UNCHANGED healthVars
    BY <2>1, <2>6 DEF healthVars
  <2> QED BY <2>4, <2>5, <2>6, StepKinds
<1>4. ASSUME trouble[n] = "none", \A c \in Callers : ~GiveUp(c)
      PROVE  /\ healthy[n] => healthy'[n]
             /\ consecutiveSuccess'[n] >= consecutiveSuccess[n]
  <2>1. CASE UNCHANGED <<healthy, consecutiveSuccess, consecutiveFailure>>
    BY <1>1, <2>1
  <2>2. ASSUME NEW k \in Nodes, MarkSuccess(k)
        PROVE  /\ healthy[n] => healthy'[n]
               /\ consecutiveSuccess'[n] >= consecutiveSuccess[n]
    BY <1>1, <2>2, SuccessMoves
  <2>3. ASSUME NEW k \in Nodes, trouble[k] # "none", MarkFailure(k)
        PROVE  UNCHANGED <<healthy[n], consecutiveSuccess[n]>>
    BY <1>1, <1>4, <2>3, FailureMoves
  <2>4. CASE \E k \in Nodes : MarkSuccess(k)
    BY <2>2, <2>4
  <2>5. CASE \E k \in Nodes : \E e, fault :
               RecordError(k, e, fault) /\ (trouble[k] # "none" \/ ~IsNetworkError(e))
    <3>0. PICK k \in Nodes : \E e, fault :
            RecordError(k, e, fault) /\ (trouble[k] # "none" \/ ~IsNetworkError(e))
      BY <2>5
    <3>1. PICK e, fault :
            RecordError(k, e, fault) /\ (trouble[k] # "none" \/ ~IsNetworkError(e))
      BY <3>0
    <3>2. \/ trouble[k] # "none" /\ MarkFailure(k)
          \/ UNCHANGED <<healthy, consecutiveSuccess, consecutiveFailure>>
      BY <3>1 DEF RecordError
    <3>3. CASE trouble[k] # "none" /\ MarkFailure(k)
      <4>1. healthy'[n] = healthy[n] /\ consecutiveSuccess'[n] = consecutiveSuccess[n]
        BY <2>3, <3>3
      <4> QED BY <1>1, <4>1
    <3> QED BY <2>1, <3>2, <3>3
  <2>6. CASE UNCHANGED healthVars
    BY <2>1, <2>6 DEF healthVars
  <2> QED BY <1>4, <2>4, <2>5, <2>6, StepKinds
<1>5. ASSUME trouble[n] \in Noticed, Probe(n)
      PROVE  ~healthy'[n] \/ consecutiveFailure'[n] = consecutiveFailure[n] + 1
  <2>1. Protocol[n] \in {"grpc", "http"} /\ trouble[n] \in Troubles
    BY <1>5, FailoverAssumption DEF Noticed, Troubles
  <2>2. MarkFailure(n)
    BY <1>1, <1>5, <2>1, NoticedByError DEF Probe, RecordError
  <2> QED BY <1>1, <2>2, FailureMoves
<1>6. ASSUME trouble[n] = "none", Probe(n)
      PROVE  healthy'[n] \/ consecutiveSuccess'[n] = consecutiveSuccess[n] + 1
  <2>1. MarkSuccess(n)
    BY <1>6 DEF Probe
  <2> QED BY <1>1, <2>1, SuccessMoves
<1> QED BY <1>3, <1>4, <1>5, <1>6 DEF Sinks, Rises

\* Every step leaves a node in noticed trouble on its way out and, as long as
\* callers are patient, a sound one on its way in, and each probe takes it there
\* or one nearer: the safety half of SettlesOnSound.
THEOREM ConditionsTell == Spec => [][\A n \in Nodes : Sinks(n) /\ Rises(n)]_vars
<1>1. TypeOK /\ [Next]_vars => [\A n \in Nodes : Sinks(n) /\ Rises(n)]_vars
  BY StepMoves
<1> QED BY <1>1, TypeCorrect, PTL DEF Spec
=============================================================================
