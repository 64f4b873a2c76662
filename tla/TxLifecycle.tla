----------------------------- MODULE TxLifecycle -----------------------------
(***************************************************************************)
(* A transaction of one account, from the call that builds it to its       *)
(* broadcast, together with the account's permissions, which decide whose  *)
(* signatures the chain accepts (transactions.go, account_permissions.go,  *)
(* contract.go, and the helpers of TransactionExtention).                  *)
(* The caller may use the operations in any order; a transaction is not    *)
(* used by two goroutines at once. The node and the chain are external:    *)
(* what the code and its comments rely on.                                 *)
(***************************************************************************)
EXTENDS Integers, Sequences, FiniteSets, Functions

CONSTANTS
  Keys,           \* addresses that sign or are listed in a permission
  Account,        \* the account's own address
  Types,          \* registered contract types
  UpdateType,     \* AccountPermissionUpdateContract
  CallTypes,      \* types built with a fee limit (a trigger, a deployment)
  DeployType,     \* CreateSmartContract
  PlainTypes,     \* types whose builder does not use checkTransaction
  Requests,       \* updates callers ask for, valid or not: an owner permission,
                  \* a witness permission or None, a sequence of actives
  Ids,            \* permission ids callers use
  Requirements,   \* sets of types ValidatePermissionSigner is asked about
  MaxActives,     \* maxActivePermissions
  MaxInt64,       \* math.MaxInt64
  MaxSignatures,  \* bound of the model: signatures per transaction
  MaxPending,     \* bound of the model: permission updates waiting for a block
  None            \* absent: no transaction, no stored permission, no request

\* core.Permission: the fields that are looked at.
Permissions ==
  [type: {"Owner", "Witness", "Active"}, id: Int, threshold: Int,
   keys: Seq([address: Keys, weight: Int]), operations: SUBSET Types]

\* AccountPermissionUpdateRequest; nil, for no witness, is None.
Updates == [owner: Permissions, witness: Permissions \cup {None}, actives: Seq(Permissions)]

ASSUME LifecycleAssumption ==
  /\ Account \in Keys
  /\ UpdateType \in Types
  /\ CallTypes \subseteq Types \ {UpdateType}
  /\ DeployType \in CallTypes
  /\ PlainTypes \subseteq Types \ (CallTypes \cup {UpdateType})
  /\ Requests \subseteq Updates
  /\ Ids \subseteq Int
  /\ Requirements \subseteq SUBSET Types
  /\ MaxActives \in Nat \ {0}
  /\ MaxInt64 \in Nat \ {0}
  /\ MaxSignatures \in Nat
  /\ MaxPending \in Nat

VARIABLES
  owner,     \* the stored owner permission, or None on a legacy account
  witness,   \* the stored witness permission, or None
  actives,   \* the stored active permissions; the i-th has id i + 1
  tx,        \* the TransactionExtention at hand: raw data, txid, signatures
  sent,      \* history: what the network has taken in of tx, as raw data
  pending,   \* requests of the updates taken in that no block contains yet
  noted,     \* what the caller last took for the address tx deploys to, and whether
             \* tx was signed then, or None
  approved,  \* the last approval of ValidatePermissionSigner, None when the
             \* account's permissions have changed since
  reply      \* how the last call ended, if it was one the node took part in

account == <<owner, witness, actives, approved>>
chain == <<account, pending>>
vars == <<owner, witness, actives, approved, pending, tx, sent, noted, reply>>
-----------------------------------------------------------------------------
(***************************************************************************)
(* Permissions.                                                            *)
(***************************************************************************)
OwnerPermissionID == 0
WitnessPermissionID == 1
FirstActivePermissionID == 2
LastActivePermissionID == FirstActivePermissionID + MaxActives - 1

KeysOf(p) == {p.keys[i].address : i \in DOMAIN p.keys}

\* The weights of the keys listed in p, as validatePermission sums them.
TotalWeight(p) == SumFunction([i \in DOMAIN p.keys |-> p.keys[i].weight])

\* The weight of k in p: that of the first key with this address.
WeightOf(p, k) ==
  LET first == CHOOSE i \in DOMAIN p.keys :
                 /\ p.keys[i].address = k
                 /\ \A j \in 1..(i - 1) : p.keys[j].address # k
  IN  p.keys[first].weight

\* Mutant of KeysAdmitted: an address may be listed twice.
KeysAdmittedTwice(p) == \A i \in DOMAIN p.keys : p.keys[i].weight > 0

\* Each key is well formed and its address is listed once.
KeysAdmitted(p) ==
  /\ \A i \in DOMAIN p.keys : p.keys[i].weight > 0
  /\ \A i, j \in DOMAIN p.keys : p.keys[i].address = p.keys[j].address => i = j

\* validatePermission. Names, parent ids and the length of the bitmap are left out.
ValidPermission(p, wantType) ==
  /\ p.type = wantType
  /\ p.id \in CASE wantType = "Owner" -> {OwnerPermissionID}
               [] wantType = "Witness" -> {WitnessPermissionID}
               [] OTHER -> {0} \cup (FirstActivePermissionID..LastActivePermissionID)
  /\ p.threshold > 0
  /\ p.keys # <<>>
  /\ wantType = "Witness" => Len(p.keys) = 1
  /\ KeysAdmitted(p)
  /\ TotalWeight(p) <= MaxInt64
  /\ TotalWeight(p) >= p.threshold
  /\ wantType # "Active" => p.operations = {}

\* Mutant of CountAdmitted: one active permission too many.
CountAdmittedOver(as) == Len(as) \in 1..(MaxActives + 1)

CountAdmitted(as) == Len(as) \in 1..MaxActives

\* validatePermissionUpdate.
ValidUpdate(request) ==
  /\ ValidPermission(request.owner, "Owner")
  /\ request.witness # None => ValidPermission(request.witness, "Witness")
  /\ CountAdmitted(request.actives)
  /\ \A i \in DOMAIN request.actives : ValidPermission(request.actives[i], "Active")

DefaultOwnerPermission ==
  [type |-> "Owner", id |-> OwnerPermissionID, threshold |-> 1,
   keys |-> <<[address |-> Account, weight |-> 1]>>, operations |-> {}]

\* What GetAccountPermission finds under id, None if nothing. The chain
\* numbers the actives of an update by position, whatever ids they came with.
PermissionOf(id) ==
  IF id = OwnerPermissionID
    THEN IF owner = None THEN DefaultOwnerPermission ELSE owner
  ELSE IF id = WitnessPermissionID THEN witness
  ELSE IF id - 1 \in DOMAIN actives THEN actives[id - 1] ELSE None

TransactionIds ==
  (OwnerPermissionID..LastActivePermissionID) \ {WitnessPermissionID}

\* PermissionAllows for a registered type.
PermissionAllows(p, type) ==
  p.type = "Owner" \/ (p.type = "Active" /\ type \in p.operations)

\* Mutant of TypeFits: a permission without a type is taken at its word.
TypeFitsAny(id, p) == TRUE

\* A non-zero id is only good for a permission that arrived typed Active.
TypeFits(id, p) == id # OwnerPermissionID => p.type = "Active"

\* What ValidatePermissionSigner checks of the permission it was given.
Approves(p, signer, id, required) ==
  /\ TypeFits(id, p)
  /\ p.threshold > 0
  /\ signer \in KeysOf(p)
  /\ WeightOf(p, signer) >= p.threshold
  /\ \A type \in required : PermissionAllows(p, type)
-----------------------------------------------------------------------------
(***************************************************************************)
(* Transactions. raw stands for raw_data, and for its hash: two raw data   *)
(* are equal exactly when their hashes are. A signature is the key and the *)
(* raw data it was made over.                                              *)
(***************************************************************************)
NewRaw(type, request) ==
  [type |-> type, request |-> request, permissionId |-> OwnerPermissionID,
   feeLimit |-> 0, memo |-> 0]

\* The txid after an edit to raw of a transaction with txid old: UpdateHash.
HashAfter(raw, old) == raw

Init ==
  /\ owner = None
  /\ witness = None
  /\ actives = <<>>
  /\ tx = None
  /\ sent = {}
  /\ pending = {}
  /\ noted = None
  /\ approved = None
  /\ reply = "none"

\* A builder got a transaction from the node.
Built(raw, txid) ==
  /\ tx' = [raw |-> raw, txid |-> txid, signatures |-> <<>>]
  /\ sent' = {} /\ noted' = None
  /\ reply' = "built"
  /\ UNCHANGED chain

\* Builders that hand on what the node returned (a transfer, a stake, ...).
CreateTransaction(type) ==
  /\ type \notin CallTypes \cup {UpdateType}
  /\ Built(NewRaw(type, None), NewRaw(type, None))

\* triggerContract and DeployContract put the fee limit into raw_data.
BuildCall(type, feeLimit) ==
  LET raw == [NewRaw(type, None) EXCEPT !.feeLimit = feeLimit]
  IN  type \in CallTypes /\ Built(raw, HashAfter(raw, NewRaw(type, None)))

UpdateAccountPermissions(request) ==
  LET raw == NewRaw(UpdateType, request)
  IN  ValidUpdate(request) /\ Built(raw, raw)

\* The node refused to build. Over HTTP the transport gives the error its type,
\* over gRPC checkTransaction does; the builders without it (transfer.go,
\* account.go) return the message alone there.
Refusals(type) ==
  {"ContractValidateError"} \cup (IF type \in PlainTypes THEN {"plain error"} ELSE {})

BuildRefused(type) ==
  /\ reply' \in Refusals(type)
  /\ UNCHANGED <<chain, tx, sent, noted>>

\* Mutant of MayEdit: signed transactions are edited too.
MayEditSigned == tx # None

\* SetPermissionID's check of the signatures.
MayEdit == tx # None /\ tx.signatures = <<>>

\* A call that only works on tx.
Local == reply' = "none" /\ UNCHANGED <<chain, sent, noted>>

Edit(raw) ==
  /\ tx' = [tx EXCEPT !.raw = raw, !.txid = HashAfter(raw, @)]
  /\ Local

SetPermissionID(id) ==
  /\ id \in TransactionIds
  /\ MayEdit
  /\ Edit([tx.raw EXCEPT !.permissionId = id])

\* TransactionExtention.SetData: refused only if a memo is already there.
SetData ==
  /\ tx # None
  /\ tx.raw.memo = 0
  /\ Edit([tx.raw EXCEPT !.memo = 1])

\* Mutant of Signed: the last signature is the only one.
SignedAnew(signatures, s) == <<s>>

\* SignTransaction and SignTransactionRaw append a signature.
Signed(signatures, s) == Append(signatures, s)

SignTransaction(k) ==
  /\ tx # None
  /\ Len(tx.signatures) < MaxSignatures
  /\ tx' = [tx EXCEPT !.signatures = Signed(@, [by |-> k, over |-> tx.raw])]
  /\ Local

\* The reply may lack the permission's type, which then reads as Owner, the
\* protobuf zero value.
ValidatePermissionSigner(signer, id, required) ==
  /\ id \in TransactionIds
  /\ PermissionOf(id) # None
  /\ \E type \in {PermissionOf(id).type, "Owner"} :
       Approves([PermissionOf(id) EXCEPT !.type = type], signer, id, required)
  /\ approved' = [signer |-> signer, id |-> id, required |-> required]
  /\ reply' = "none"
  /\ UNCHANGED <<owner, witness, actives, pending, tx, sent, noted>>

\* Mutant of AddressOf: the address depends on the contract alone.
AddressOfContract(raw) == NewRaw(raw.type, raw.request)

\* The address is a hash of the txid, taken anew, and so stands for all of raw.
AddressOf(raw) == raw

DeployedContractAddress ==
  /\ tx # None /\ tx.raw.type = DeployType
  /\ noted' = [address |-> AddressOf(tx.raw), signed |-> tx.signatures # <<>>]
  /\ reply' = "none"
  /\ UNCHANGED <<chain, tx, sent>>
-----------------------------------------------------------------------------
(***************************************************************************)
(* The network, as account_permissions.go describes java-tron's            *)
(* checkPermission, and BroadcastTransaction. A node that takes a          *)
(* transaction in has checked it and passes it on; a block may contain it  *)
(* later or never, and only then does an update change the permissions. No *)
(* answer of a broadcast speaks of that: the outcome is in the receipt.    *)
(***************************************************************************)
Signers == {tx.signatures[i].by : i \in DOMAIN tx.signatures}

ChainAccepts ==
  LET p == PermissionOf(tx.raw.permissionId)
  IN  /\ p # None
      /\ tx.raw.permissionId # OwnerPermissionID
           => p.type = "Active" /\ tx.raw.type \in p.operations
      /\ tx.signatures # <<>>
      /\ \A i \in DOMAIN tx.signatures : tx.signatures[i].over = tx.raw
      /\ Cardinality(Signers) = Len(tx.signatures)
      /\ Signers \subseteq KeysOf(p)
      /\ SumFunction([k \in Signers |-> WeightOf(p, k)]) >= p.threshold

\* BroadcastTransaction's verdict on the node's answer.
Outcome(result, code) ==
  IF ~result \/ code # "SUCCESS" THEN "BroadcastError" ELSE "ok"

\* The node takes tx in, once; its answer may be lost on the way.
Accept ==
  /\ ChainAccepts
  /\ tx.raw \notin sent
  /\ sent' = sent \cup {tx.raw}
  /\ IF tx.raw.type = UpdateType
       THEN /\ Cardinality(pending) < MaxPending
            /\ pending' = pending \cup {tx.raw.request}
       ELSE UNCHANGED pending
  /\ reply' \in {Outcome(TRUE, "SUCCESS"), "transport error"}

\* It may refuse any transaction (it is busy, has it already, ...), by a false
\* result, by an error code, or by both.
Reject ==
  /\ \/ \E code \in {"SUCCESS", "ERROR"} : reply' = Outcome(FALSE, code)
     \/ reply' = Outcome(TRUE, "ERROR")
     \/ reply' = "transport error"
  /\ UNCHANGED <<sent, pending>>

BroadcastTransaction ==
  /\ tx # None
  /\ Accept \/ Reject
  /\ UNCHANGED <<account, tx, noted>>

Execute(request) ==
  /\ owner' = request.owner
  /\ witness' = request.witness
  /\ actives' = request.actives
  /\ approved' = None

\* An update leaves the pending ones: executed, or dropped because it expired or
\* its signers are no longer entitled to it, which is left open here.
Settle ==
  /\ \E request \in pending :
       /\ pending' = pending \ {request}
       /\ Execute(request) \/ UNCHANGED account
  /\ reply' = "none"
  /\ UNCHANGED <<tx, sent, noted>>

Next ==
  \/ \E type \in Types : CreateTransaction(type) \/ BuildRefused(type)
  \/ \E type \in Types : BuildCall(type, 1)
  \/ \E request \in Requests : UpdateAccountPermissions(request)
  \/ \E id \in Ids : SetPermissionID(id)
  \/ SetData \/ DeployedContractAddress
  \/ \E k \in Keys : SignTransaction(k)
  \/ \E k \in Keys, id \in Ids, required \in Requirements :
       ValidatePermissionSigner(k, id, required)
  \/ BroadcastTransaction \/ Settle

Spec == Init /\ [][Next]_vars
-----------------------------------------------------------------------------
\* Every variable has its type; no stored permission list outgrows its ids.
TypeOK ==
  /\ owner = None \/ owner.type = "Owner"
  /\ witness = None \/ witness.type = "Witness"
  /\ Len(actives) \in 0..MaxActives
  /\ tx # None => /\ tx.raw.type \in Types
                  /\ tx.raw.permissionId \in TransactionIds
                  /\ Len(tx.signatures) \in 0..MaxSignatures
  /\ reply \in {"none", "built", "ok", "BroadcastError", "transport error",
                "ContractValidateError", "plain error"}

\* The txid is that of the raw data, and what was signed is what is sent: no
\* edit of this library turns a signature invalid but a memo added after it.
SignaturesCover ==
  tx # None =>
    /\ tx.txid = tx.raw
    /\ \A i \in DOMAIN tx.signatures :
         tx.signatures[i].over = [tx.raw EXCEPT !.memo = tx.signatures[i].over.memo]

\* ValidatePermissionSigner promises enough: a transaction under the permission
\* id it was asked about, of a type it was asked about and signed by that signer
\* alone is accepted by the chain, unless the permissions have changed since.
ApprovedSignerSuffices ==
  /\ tx # None /\ approved # None
  /\ tx.raw.permissionId = approved.id
  /\ tx.raw.type \in approved.required
  /\ tx.signatures = <<[by |-> approved.signer, over |-> tx.raw]>>
  => ChainAccepts

\* The keys of p, each signing once, reach its threshold.
Reachable(p) ==
  SumFunction([k \in KeysOf(p) |-> WeightOf(p, k)]) >= p.threshold

\* No update that validatePermissionUpdate let through locks the account: every
\* stored permission is within reach of its keys, although a signer counts once.
NeverLockedOut ==
  /\ \A p \in {owner, witness} \ {None} : Reachable(p)
  /\ \A i \in DOMAIN actives : Reachable(actives[i])

\* However a caller goes on after a broadcast whose answer was lost or refused,
\* editing, signing again, sending again in any order, the network takes in at
\* most one transaction of each that was built: nothing is paid twice.
PaidOnce == Cardinality(sent) <= 1

\* The address taken from a signed deployment before it is sent is where the
\* contract will be: if the network takes the transaction in later, no edit in
\* between has moved it, not even a memo, which the signatures do not survive.
DeployedWhereNoted ==
  [][noted # None /\ noted.signed => sent' \ sent \subseteq {noted.address}]_vars
=============================================================================
