------------------------------- MODULE Answers -------------------------------
(***************************************************************************)
(* From what a node makes of a request to what the caller is told:         *)
(*   node -> Reply -> transport (gRPC, or HTTP decoding JSON by one of     *)
(*   several paths) -> Delivered -> the client's own checks -> Told,       *)
(* and, for a request that got no reply, from the trouble the node is in   *)
(* to the error the transport returns and to isNetworkError's verdict.     *)
(* Operators only; Failover drives them.                                   *)
(***************************************************************************)
EXTENDS Integers

\* The requests, by how they are decoded and checked; the methods of Transport
\* that share both share a name: "number" stands for every answer that is one or
\* a few numbers, "build", "transfer" and "setting" for the builders by the check
\* their client method makes, "call" and "constant" for a constant call of which
\* only the result is read, and for one that is handed on. GetNodeInfo is left out.
Ops == {"account", "resource", "height", "block", "blockById", "blocks", "receipts", "receipt",
        "transaction", "broadcast", "build", "transfer", "setting", "trigger", "call", "constant",
        "energy", "contract", "index", "delegations", "number", "reward", "witnesses", "asset",
        "nodes"}

Builders == {"build", "transfer", "setting", "trigger"}
Lookups == {"account", "receipt", "transaction", "block", "blockById", "blocks", "receipts",
            "contract", "index", "delegations", "asset"}

\* HTTPTransport's path from JSON to a message, section by section of the file:
\* protojson alone; hex turned into base64 first; the same for a block, a list of
\* blocks or of receipts, which are also nested as the message wants it; a helper
\* struct whose bytes are hex, or visible (base58) addresses; or a transaction
\* rebuilt from its hex, at the top level or under "transaction".
AccountPaths == [account |-> "visible", resource |-> "helper", transfer |-> "tx", build |-> "tx"]

BlockPaths == [height |-> "block", block |-> "block", blockById |-> "transformed",
               blocks |-> "blockList", receipts |-> "receiptList"]

TransactionPaths == [transaction |-> "plain", receipt |-> "plain", broadcast |-> "helper",
                     transfer |-> "tx"]

ContractPaths == [trigger |-> "wrapped", call |-> "helper", constant |-> "helper",
                  energy |-> "plain", build |-> "tx", setting |-> "tx",
                  contract |-> "transformed"]

DelegationPaths == [delegations |-> "visible", index |-> "visible", number |-> "plain",
                    build |-> "tx"]

StakingPaths == [build |-> "tx", number |-> "plain"]

WitnessPaths == [build |-> "tx", witnesses |-> "helper", reward |-> "helper"]

AssetPaths == [asset |-> "helper"]

NetworkPaths == [nodes |-> "plain", number |-> "plain"]

HttpPath(op) ==
  CHOOSE path \in {"plain", "transformed", "block", "blockList", "receiptList", "helper",
                   "visible", "tx", "wrapped"} :
    \E section \in {AccountPaths, BlockPaths, TransactionPaths, ContractPaths, DelegationPaths,
                    StakingPaths, WitnessPaths, AssetPaths, NetworkPaths} :
      op \in DOMAIN section /\ section[op] = path

\* How the node writes what is read of the message: numbers, plain text, bytes in
\* hex, addresses in base58; "unlisted", bytes under names that bytesFields does
\* not list (a block's transactions have a ref_block_bytes and a ref_block_hash);
\* "any", an Any as {type_url, value}; "bare", transactions that are not nested in
\* an extention; "list", a list that is no object; "unnamed", parts that have no
\* field in a helper struct (a constant call's transaction and logs).
UsuallyWritten(op) ==
  CASE op \in {"resource", "energy", "number", "reward", "height"} -> {"numbers"}
    [] op = "broadcast" -> {"text"}
    [] op \in Builders \cup {"receipt", "contract", "witnesses", "asset", "nodes", "call"} -> {"hex"}
    [] op = "constant" -> {"hex", "unnamed"}
    [] op \in {"transaction", "blockById"} -> {"hex", "unlisted", "any"}
    [] op = "block" -> {"hex", "unlisted", "any", "bare"}
    [] op = "blocks" -> {"hex", "unlisted", "any", "bare", "list"}
    [] op = "receipts" -> {"hex", "list"}
    [] op = "account" -> {"base58", "hex"}
    [] op \in {"index", "delegations"} -> {"base58"}

\* What comes with it now and then. "rich": an account has votes, an allowance, a
\* name or whatever else httpAccount does not name, a witness a public key; a
\* contract has a trx_hash, a receipt an orderId. "cancelling": a receipt has a
\* cancel_unfreezeV2_amount, a "map" that Tron writes as an array. "spoiled": a
\* string, an address if there is one, is not what it should be, but still made of
\* base64 characters.
Written(op, deed) ==
  UsuallyWritten(op) \cup
    CASE deed = "rich" -> IF op \in {"account", "witnesses"} THEN {"unnamed"} ELSE {"unlisted"}
      [] deed = "cancelling" -> {"map"}
      [] deed = "spoiled" -> {"spoiled"}
      [] OTHER -> {}

\* Whether the endpoint reports its outcome in "result" rather than "Error".
InResult(op) == op \in {"trigger", "call", "constant", "energy"}

\* What a sound node may make of a request: do it, find nothing there, refuse it,
\* refuse it with a response code this build has no name for ("novel"), run it
\* into a revert, answer with a message that has nothing in it ("mute"), reject a
\* transaction by code, by the flag, or by both. Only JSON can be malformed: a
\* plain read is refused over HTTP only, and only there may a string be spoiled.
Deeds(op, protocol) ==
  {"done"}
  \cup (IF op \in Lookups THEN {"nothing"} ELSE {})
  \cup (IF op \in Builders \cup {"call", "constant", "energy"} \/ protocol = "http"
          THEN {"refused"} ELSE {})
  \cup (IF InResult(op) \/ op = "broadcast" \/ (op \in Builders /\ protocol = "grpc")
          THEN {"novel"} ELSE {})
  \cup (IF op \in {"call", "constant"} THEN {"reverted"} ELSE {})
  \cup (IF op \in Builders \cup {"call", "constant", "height"} THEN {"mute"} ELSE {})
  \cup (IF op = "broadcast" THEN {"coded", "flagged", "rejected"} ELSE {})
  \cup (IF op \in {"account", "witnesses", "contract", "receipts"} THEN {"rich"} ELSE {})
  \cup (IF op \in {"receipt", "receipts"} THEN {"cancelling"} ELSE {})
  \cup (IF protocol = "http" /\ UsuallyWritten(op) \cap {"hex", "base58"} # {}
          THEN {"spoiled"} ELSE {})

\* What the message or the JSON of the answer says. A refused broadcast sets
\* result to false or names a code that is known, as java-tron does.
Reply(op, deed, protocol) ==
  LET failed == deed \in {"refused", "novel"} /\ (InResult(op) \/ protocol = "grpc")
  IN [Error   |-> deed = "refused" /\ ~failed,
      result  |-> deed \notin {"refused", "novel", "mute", "flagged", "rejected"},
      code    |-> IF deed = "novel" THEN "NOVEL"
                  ELSE IF failed \/ deed \in {"coded", "rejected"} THEN "FAILED" ELSE "SUCCESS",
      message |-> failed \/ deed = "reverted",
      content |-> IF deed \notin {"done", "reverted", "rich", "cancelling", "spoiled"} THEN "none"
                  ELSE IF protocol = "http" THEN "json" ELSE "bytes"]
-----------------------------------------------------------------------------
(***************************************************************************)
(* Errors: the causes isNetworkError looks for in a chain of wrapped       *)
(* errors, and what the client calls the error.                            *)
(***************************************************************************)
NoCause == [ctx |-> "none", code |-> "none", status |-> 0, net |-> FALSE]
Ctx(cause)  == [NoCause EXCEPT !.ctx = cause]
Grpc(code)  == [NoCause EXCEPT !.code = code]
Http(status) == [NoCause EXCEPT !.status = status]
Net == [NoCause EXCEPT !.net = TRUE]

NetworkCodes == {"Unavailable", "DeadlineExceeded", "Aborted", "ResourceExhausted",
                 "Internal", "Unknown"}
LogicalCodes == {"InvalidArgument", "NotFound", "AlreadyExists", "PermissionDenied",
                 "Unauthenticated", "FailedPrecondition", "OutOfRange", "Unimplemented"}

\* Mutant of IsNetworkError: in doubt, the node is blamed.
IsNetworkErrorInDoubt(e) ==
  \/ e.ctx = "deadline"
  \/ e.ctx = "none" /\ e.code \notin LogicalCodes /\ e.status \notin 400..499

\* isNetworkError: the first cause in the order of the code decides; a code of
\* neither list is as good as none.
IsNetworkError(e) ==
  \/ e.ctx = "deadline"
  \/ /\ e.ctx = "none"
     /\ e.code \notin LogicalCodes
     /\ \/ e.code \in NetworkCodes
        \/ e.status >= 500
        \/ e.status \in {408, 429}
        \/ (e.status = 0) /\ e.net

\* Troubles a node, or what stands in front of it, may be in.
Troubles == {"unreachable", "stalled", "busy", "barred", "garbled"}

\* The errors the transport returns when the request meets the trouble.
Causes(trouble, protocol) ==
  CASE trouble = "unreachable" ->
         IF protocol = "grpc" THEN {Grpc("Unavailable"), Grpc("Internal")} ELSE {Net}
    [] trouble = "stalled" ->
         IF protocol = "grpc" THEN {Grpc("DeadlineExceeded")} ELSE {Ctx("deadline")}
    [] trouble = "busy" ->
         IF protocol = "grpc" THEN {Grpc("ResourceExhausted")} ELSE {Http(503), Http(429)}
    [] trouble = "barred" ->
         IF protocol = "grpc" THEN {Grpc("Unauthenticated")} ELSE {Http(403)}
    [] trouble = "garbled" ->
         IF protocol = "grpc" THEN {Grpc("Unimplemented")} ELSE {NoCause}

\* The caller cancels its context.
Cancelled(protocol) == IF protocol = "grpc" THEN Grpc("Canceled") ELSE Ctx("cancelled")

\* The caller's own deadline passes.
OutOfTime(protocol) ==
  IF protocol = "grpc" THEN Grpc("DeadlineExceeded") ELSE Ctx("deadline")
-----------------------------------------------------------------------------
(***************************************************************************)
(* The transports. The result is a message, or an error with its name and  *)
(* its cause (a refusal has none that counts).                             *)
(***************************************************************************)
Message(reply) == [error |-> "none", reply |-> reply]
Failure(name, reply) == [error |-> name, reply |-> reply]

\* Mutant of RefusedRead: the decoding paths start from doRequestRaw, not from fetch.
RefusedReadNowhere(reply) == FALSE

\* apiError, in front of every decoding path of a read.
RefusedRead(reply) == reply.Error

\* What of the node's dialect a path understands. protojson reads hex and base58
\* as base64, which they happen to be, and drops what it does not know.
PlainReads == {"numbers"}
TransformReads == PlainReads \cup {"hex", "any"}
BlockReads == TransformReads \cup {"bare"}
BlockListReads == BlockReads \cup {"list"}
ReceiptListReads == TransformReads \cup {"list"}
HelperReads == {"numbers", "text", "hex"}
VisibleReads == {"numbers", "base58", "hex"}
TxReads == {"hex"}

Reads(path) ==
  CASE path = "plain" -> PlainReads
    [] path = "transformed" -> TransformReads
    [] path = "block" -> BlockReads
    [] path = "blockList" -> BlockListReads
    [] path = "receiptList" -> ReceiptListReads
    [] path = "helper" -> HelperReads
    [] path = "visible" -> VisibleReads
    [] path \in {"tx", "wrapped"} -> TxReads

Missed(op, deed) == Written(op, deed) \ Reads(HttpPath(op))

\* What is not understood as a message costs part of it, not just its bytes.
Shapes == {"any", "bare", "list", "unnamed"}

\* protojson refuses an array for a map. Where hex and base58 are decoded by name a
\* spoiled string is refused: dropped, it would pass for nothing, kept, an address
\* would be somebody else's. hexToBase64 and protojson keep it.
Undecodable(op, deed) ==
  \/ "map" \in Missed(op, deed)
  \/ "spoiled" \in Missed(op, deed) /\ HttpPath(op) \in {"helper", "visible", "tx", "wrapped"}

\* Only accounts, delegations and assets name the error, if it is an address.
DecodeError(op) ==
  IF op \in {"account", "index", "delegations", "asset"} THEN "ErrInvalidAddress" ELSE "untyped"

\* A name that ReturnResponseCode_value lacks is looked up as 0, and protojson
\* drops it: both make it SUCCESS.
Translated(op, deed, reply) ==
  [reply EXCEPT
    !.code = IF @ = "NOVEL" THEN "SUCCESS" ELSE @,
    !.content = IF @ = "none" THEN "none"
                ELSE IF Missed(op, deed) \cap Shapes # {} THEN "partial"
                ELSE IF Missed(op, deed) = {} THEN "bytes" ELSE "garbage"]

HttpDelivered(op, deed, reply) ==
  CASE HttpPath(op) \in {"tx", "wrapped"} ->
         IF reply.Error \/ reply.code # "SUCCESS"
           THEN Failure("ContractValidateError", reply)
         ELSE IF reply.content = "none" THEN Failure("ErrInvalidTransaction", reply)
         ELSE IF Undecodable(op, deed) THEN Failure(DecodeError(op), reply)
         ELSE Message(Translated(op, deed, reply))
    [] OTHER ->
         IF RefusedRead(reply) THEN Failure("ErrNodeRefusedRequest", reply)
         ELSE IF Undecodable(op, deed) THEN Failure(DecodeError(op), reply)
         ELSE Message(Translated(op, deed, reply))

Delivered(op, deed, protocol) ==
  LET reply == Reply(op, deed, protocol)
  IN IF protocol = "http" THEN HttpDelivered(op, deed, reply) ELSE Message(reply)
-----------------------------------------------------------------------------
(***************************************************************************)
(* The client's checks on a message.                                       *)
(***************************************************************************)
\* Handed on as it is. No transport answers nil without an error, so what is not
\* there is an empty message.
Passed(m) ==
  CASE m.content = "none" -> "empty"
    [] m.content = "partial" -> "truncated"
    [] m.content = "garbage" -> "mangled"
    [] OTHER -> "value"

\* GetAccount and GetTransactionInfoByHash compare what they got with what they
\* asked for, an address and a txid.
GetAccount(m) == IF m.content \in {"none", "garbage"} THEN "notFound" ELSE Passed(m)

GetTransactionInfoByHash(m) == IF m.content \in {"none", "garbage"} THEN "notFound" ELSE Passed(m)

GetTransactionByHash(m) == IF m.content = "none" THEN "notFound" ELSE Passed(m)

\* proto.Size(tx) = 0.
Empty(m) == m.content = "none" /\ ~m.result /\ m.code = "SUCCESS" /\ ~m.message

CheckTransaction(m) ==
  IF Empty(m) THEN "ErrInvalidTransaction"
  ELSE IF m.code # "SUCCESS" THEN "ContractValidateError"
  ELSE IF m.content = "none" THEN "ErrInvalidTransaction" ELSE "value"

\* CreateTransferTransaction and CreateAccount give the refusal no type.
CreateTransferTransaction(m) ==
  IF Empty(m) THEN "ErrInvalidTransaction"
  ELSE IF m.code # "SUCCESS" THEN "untyped" ELSE Passed(m)

\* UpdateSettingContract and UpdateEnergyLimitContract look at the code alone.
UpdateSettingContract(m) == IF m.code # "SUCCESS" THEN "untyped" ELSE Passed(m)

\* A revert carries code SUCCESS and a message.
CallFailed(m) == m.message \/ m.code # "SUCCESS"

TriggerConstantContract(m) == IF CallFailed(m) THEN "ErrContractCallFailed" ELSE Passed(m)

\* TRC20Call and firstConstantResult.
TRC20Call(m) ==
  IF CallFailed(m) THEN "ErrContractCallFailed"
  ELSE IF m.content = "none" THEN "ErrNilResponse" ELSE "value"

BroadcastTransaction(m) ==
  IF ~m.result \/ m.code # "SUCCESS" THEN "BroadcastError" ELSE "value"

EstimateEnergy(m) == IF m.code # "SUCCESS" THEN "untyped" ELSE Passed(m)

\* GetLastBlockHeight: a block without its header has no height.
GetLastBlockHeight(m) == IF m.content = "none" THEN "ErrNilResponse" ELSE "value"

Checked(op, m) ==
  CASE op = "account" -> GetAccount(m)
    [] op = "height" -> GetLastBlockHeight(m)
    [] op = "receipt" -> GetTransactionInfoByHash(m)
    [] op = "transaction" -> GetTransactionByHash(m)
    [] op \in {"build", "trigger"} -> CheckTransaction(m)
    [] op = "transfer" -> CreateTransferTransaction(m)
    [] op = "setting" -> UpdateSettingContract(m)
    [] op = "call" -> TRC20Call(m)
    [] op = "constant" -> TriggerConstantContract(m)
    [] op = "energy" -> EstimateEnergy(m)
    [] op = "broadcast" -> BroadcastTransaction(m)
    [] OTHER -> Passed(m)

\* What the caller of the client is told of what a sound node did.
Told(op, deed, protocol) ==
  LET d == Delivered(op, deed, protocol)
  IN IF d.error = "none" THEN Checked(op, d.reply) ELSE d.error
=============================================================================
