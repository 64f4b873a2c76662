-------------------------- MODULE TxLifecycleProofs --------------------------
(***************************************************************************)
(* What holds of a transaction in any order of building, editing, signing  *)
(* and broadcasting, for any keys, types, permissions and bounds.          *)
(***************************************************************************)
EXTENDS TxLifecycle, Sums

\* A permission of this type that validatePermission let through.
Valid(p, type) == p \in Permissions /\ ValidPermission(p, type)

\* A request that validatePermissionUpdate let through.
Admitted(request) == request \in Updates /\ ValidUpdate(request)

\* Raw data: a record of its fields; a permission update carries a request that
\* validatePermissionUpdate let through.
IsRaw(raw) ==
  /\ raw = [type |-> raw.type, request |-> raw.request, permissionId |-> raw.permissionId,
            feeLimit |-> raw.feeLimit, memo |-> raw.memo]
  /\ raw.type \in Types
  /\ raw.permissionId \in TransactionIds
  /\ raw.memo \in {0, 1}
  /\ raw.type = UpdateType => Admitted(raw.request)

\* The signatures a transaction with this raw data may carry: made over it as it
\* is, or as it was before its memo.
Signatures(raw) == [by: Keys, over: {[raw EXCEPT !.memo = m] : m \in 0..raw.memo}]

IsTx(t) ==
  /\ t = [raw |-> t.raw, txid |-> t.raw, signatures |-> t.signatures]
  /\ IsRaw(t.raw)
  /\ t.signatures \in Seq(Signatures(t.raw))
  /\ Len(t.signatures) <= MaxSignatures

\* What the chain has stored of the account came with such requests.
Stored ==
  /\ owner = None \/ Valid(owner, "Owner")
  /\ witness = None \/ Valid(witness, "Witness")
  /\ Len(actives) \in 0..MaxActives
  /\ \A i \in DOMAIN actives : Valid(actives[i], "Active")

Replies == {"none", "built", "ok", "BroadcastError", "transport error",
            "ContractValidateError", "plain error"}

\* So did the updates that wait for a block.
PendingOK == \A request \in pending : Admitted(request)

\* What was taken in of a transaction is what its first signature is over.
SentOK ==
  sent # {} => tx.signatures # <<>> /\ sent = {tx.signatures[1].over}

\* An address noted from a signed transaction: the first signature has stayed,
\* and while it is over the raw data as it is, so is the address.
NotedOK ==
  noted # None /\ noted.signed =>
    /\ tx.signatures # <<>>
    /\ tx.signatures[1].over = tx.raw => noted.address = tx.raw

TxOK == tx # None => IsTx(tx)

IInv == Stored /\ PendingOK /\ reply \in Replies /\ TxOK /\ NotedOK /\ SentOK
-----------------------------------------------------------------------------
LEMMA IdsAreIds == OwnerPermissionID \in TransactionIds
BY LifecycleAssumption
DEF TransactionIds, OwnerPermissionID, WitnessPermissionID, FirstActivePermissionID,
    LastActivePermissionID

LEMMA InitIInv == Init => IInv
BY LifecycleAssumption DEF Init, IInv, Stored, PendingOK, SentOK, Replies, TxOK, NotedOK

\* What a builder returns is a transaction without signatures.
LEMMA BuiltIInv ==
  ASSUME IInv, NEW raw, IsRaw(raw), Built(raw, raw)
  PROVE  IInv'
<1>1. <<>> \in Seq(Signatures(raw)) /\ Len(<<>>) <= MaxSignatures
  BY LifecycleAssumption
<1>2. tx' = [raw |-> raw, txid |-> raw, signatures |-> <<>>] /\ noted' = None
  BY DEF Built
<1>3. IsTx(tx')
  BY <1>1, <1>2 DEF IsTx
<1> QED
  BY <1>2, <1>3 DEF Built, IInv, Stored, PendingOK, SentOK, Replies, TxOK, NotedOK, chain, account

LEMMA NewRawIsRaw ==
  ASSUME NEW type \in Types, NEW request, NEW limit,
         type = UpdateType => Admitted(request)
  PROVE  /\ IsRaw(NewRaw(type, request))
         /\ IsRaw([NewRaw(type, request) EXCEPT !.feeLimit = limit])
BY IdsAreIds DEF IsRaw, NewRaw

\* An edit to raw is harmless if the signatures may stay.
LEMMA EditIInv ==
  ASSUME IInv, tx # None, NEW raw, IsRaw(raw), Edit(raw),
         tx.signatures \in Seq(Signatures(raw)),
         noted # None /\ noted.signed => tx.signatures # <<>> /\ tx.signatures[1].over # raw
  PROVE  IInv'
<1>1. tx' = [raw |-> raw, txid |-> raw, signatures |-> tx.signatures]
  BY DEF IInv, TxOK, IsTx, Edit, HashAfter
<1>2. IsTx(tx')
  BY <1>1 DEF IsTx, IInv, TxOK
<1>3. /\ UNCHANGED <<owner, witness, actives, pending, sent, noted>> /\ reply' = "none"
  BY <1>1 DEF Edit, Local, chain, account
<1>4. Stored' /\ PendingOK' /\ reply' \in Replies
  BY <1>3 DEF IInv, Stored, PendingOK, Replies
<1>5. tx'.signatures = tx.signatures /\ tx'.raw = raw
  BY <1>1
<1>6. NotedOK' /\ SentOK'
  <2>1. sent # {} => tx'.signatures # <<>> /\ sent = {tx'.signatures[1].over}
    BY <1>5 DEF IInv, SentOK
  <2> QED BY <1>3, <1>5, <2>1 DEF NotedOK, SentOK
<1> QED
  BY <1>2, <1>4, <1>6 DEF IInv, TxOK

LEMMA SetPermissionIDIInv == ASSUME IInv, NEW id \in Ids, SetPermissionID(id) PROVE IInv'
<1> DEFINE raw == [tx.raw EXCEPT !.permissionId = id]
<1>1. tx # None /\ tx.signatures = <<>> /\ Edit(raw)
  BY DEF SetPermissionID, MayEdit
<1>2. IsRaw(tx.raw)
  BY <1>1 DEF IInv, TxOK, IsTx
<1>3. IsRaw(raw)
  BY <1>2 DEF IsRaw, SetPermissionID
<1>4. noted # None /\ noted.signed => FALSE
  BY <1>1 DEF IInv, NotedOK
<1>5. tx.signatures \in Seq(Signatures(raw))
  BY <1>1
<1> HIDE DEF raw
<1> QED BY <1>1, <1>3, <1>4, <1>5, EditIInv

LEMMA SetDataIInv == ASSUME IInv, SetData PROVE IInv'
<1> DEFINE raw == [tx.raw EXCEPT !.memo = 1]
<1>1. tx # None /\ tx.raw.memo = 0 /\ Edit(raw)
  BY DEF SetData
<1>2. IsRaw(tx.raw) /\ tx.signatures \in Seq(Signatures(tx.raw))
  BY <1>1 DEF IInv, TxOK, IsTx
<1>3. IsRaw(raw) /\ raw.memo = 1
  BY <1>2 DEF IsRaw
<1>4. \A m : [tx.raw EXCEPT !.memo = m] = [raw EXCEPT !.memo = m]
  BY <1>2 DEF IsRaw
<1>5. Signatures(tx.raw) \subseteq Signatures(raw)
  <2>1. {[tx.raw EXCEPT !.memo = m] : m \in 0..tx.raw.memo}
          \subseteq {[raw EXCEPT !.memo = m] : m \in 0..raw.memo}
    <3> SUFFICES ASSUME NEW m \in 0..tx.raw.memo
                 PROVE  [tx.raw EXCEPT !.memo = m]
                          \in {[raw EXCEPT !.memo = n] : n \in 0..raw.memo}
      OBVIOUS
    <3>1. m \in 0..raw.memo
      <4> HIDE DEF raw
      <4> QED BY <1>1, <1>3
    <3>2. [tx.raw EXCEPT !.memo = m] = [raw EXCEPT !.memo = m]
      BY <1>4
    <3> HIDE DEF raw
    <3> QED BY <3>1, <3>2
  <2> HIDE DEF raw
  <2> QED BY <2>1 DEF Signatures
<1>6. ASSUME tx.signatures # <<>> PROVE tx.signatures[1].over # raw
  <2>1. tx.signatures[1] \in Signatures(tx.raw)
    BY <1>2, <1>6
  <2>2. tx.signatures[1].over.memo = 0
    BY <2>1, <1>1, <1>2 DEF Signatures, IsRaw
  <2> HIDE DEF raw
  <2> QED BY <2>2, <1>3
<1>7. tx.signatures \in Seq(Signatures(raw))
  <2> HIDE DEF raw
  <2> QED BY <1>2, <1>5
<1>8. noted # None /\ noted.signed => tx.signatures # <<>>
  BY DEF IInv, NotedOK
<1> HIDE DEF raw
<1> QED BY <1>1, <1>3, <1>6, <1>7, <1>8, EditIInv

LEMMA SignIInv == ASSUME IInv, NEW k \in Keys, SignTransaction(k) PROVE IInv'
<1> DEFINE s == [by |-> k, over |-> tx.raw]
<1>1. tx # None /\ Len(tx.signatures) < MaxSignatures
  BY DEF SignTransaction
<1>2. IsTx(tx)
  BY <1>1 DEF IInv, TxOK
<1>3. s \in Signatures(tx.raw)
  <2>1. tx.raw = [tx.raw EXCEPT !.memo = tx.raw.memo] /\ tx.raw.memo \in 0..tx.raw.memo
    BY <1>2 DEF IsTx, IsRaw
  <2> QED BY <2>1 DEF Signatures
<1>4. /\ Append(tx.signatures, s) \in Seq(Signatures(tx.raw))
      /\ Len(Append(tx.signatures, s)) <= MaxSignatures
      /\ Append(tx.signatures, s) # <<>>
      /\ tx.signatures # <<>> => Append(tx.signatures, s)[1] = tx.signatures[1]
  <2> HIDE DEF s
  <2>1. MaxSignatures \in Nat /\ tx.signatures \in Seq(Signatures(tx.raw))
    BY <1>2, LifecycleAssumption DEF IsTx
  <2> QED BY <1>1, <1>3, <2>1
<1>5. tx' = [raw |-> tx.raw, txid |-> tx.raw, signatures |-> Append(tx.signatures, s)]
  <2>1. tx = [raw |-> tx.raw, txid |-> tx.raw, signatures |-> tx.signatures]
    BY <1>2 DEF IsTx
  <2>2. tx' = [tx EXCEPT !.signatures = Append(tx.signatures, s)]
    BY DEF SignTransaction, Signed
  <2> DEFINE new == Append(tx.signatures, s)
  <2>3. tx' = [tx EXCEPT !.signatures = new]
    BY <2>2
  <2> HIDE DEF s, new
  <2>4. [tx EXCEPT !.signatures = new] = [raw |-> tx.raw, txid |-> tx.raw, signatures |-> new]
    BY <2>1
  <2>5. tx' = [raw |-> tx.raw, txid |-> tx.raw, signatures |-> new]
    BY <2>3, <2>4
  <2> QED BY <2>5 DEF new
<1> HIDE DEF s
<1>6. IsTx(tx')
  BY <1>2, <1>4, <1>5 DEF IsTx
<1>7. UNCHANGED <<owner, witness, actives, pending, sent, noted>> /\ reply' = "none"
  BY <1>5, <1>1 DEF SignTransaction, Local, chain, account
<1>8. Stored' /\ PendingOK' /\ reply' \in Replies
  BY <1>7 DEF IInv, Stored, PendingOK, Replies
<1>9. NotedOK' /\ SentOK'
  <2>1. tx'.signatures = Append(tx.signatures, s) /\ tx'.raw = tx.raw
    BY <1>5
  <2>2. NotedOK'
    BY <1>4, <1>7, <2>1 DEF IInv, NotedOK
  <2> QED BY <1>4, <1>7, <2>1, <2>2 DEF IInv, SentOK
<1> QED
  BY <1>6, <1>8, <1>9 DEF IInv, TxOK

\* What a node takes in is what the first signature is over, and so is what it
\* has taken in before.
LEMMA AcceptedIsFirstSigned ==
  ASSUME IInv, tx # None, Accept
  PROVE  /\ tx.signatures # <<>> /\ tx.signatures[1].over = tx.raw
         /\ sent' = {tx.raw}
<1>1. IsTx(tx)
  BY DEF IInv, TxOK
<1>2. tx.signatures # <<>> /\ \A i \in DOMAIN tx.signatures : tx.signatures[i].over = tx.raw
  BY DEF Accept, ChainAccepts
<1>3. 1 \in DOMAIN tx.signatures
  BY <1>1, <1>2 DEF IsTx
<1>4. tx.signatures[1].over = tx.raw
  BY <1>2, <1>3
<1>5. sent \subseteq {tx.raw}
  BY <1>4 DEF IInv, SentOK
<1>6. sent' = sent \cup {tx.raw}
  BY DEF Accept
<1> QED BY <1>2, <1>4, <1>5, <1>6

LEMMA AcceptIInv ==
  ASSUME IInv, tx # None, Accept, UNCHANGED <<account, tx, noted>>
  PROVE  IInv'
<1>1. reply' \in Replies
  BY DEF Accept, Outcome, Replies
<1>2. PendingOK'
  <2>1. CASE tx.raw.type = UpdateType
    <3>1. Admitted(tx.raw.request)
      BY <2>1 DEF IInv, TxOK, IsTx, IsRaw
    <3>2. pending' = pending \cup {tx.raw.request}
      BY <2>1 DEF Accept
    <3> QED BY <3>1, <3>2 DEF IInv, PendingOK
  <2>2. CASE tx.raw.type # UpdateType
    BY <2>2 DEF Accept, IInv, PendingOK
  <2> QED BY <2>1, <2>2
<1>3. SentOK'
  BY AcceptedIsFirstSigned DEF SentOK
<1> QED BY <1>1, <1>2, <1>3 DEF IInv, Stored, TxOK, NotedOK, account

LEMMA RejectIInv ==
  ASSUME IInv, tx # None, Reject, UNCHANGED <<account, tx, noted>>
  PROVE  IInv'
<1>1. reply' \in Replies
  BY DEF Reject, Outcome, Replies
<1> QED BY <1>1 DEF Reject, IInv, Stored, PendingOK, SentOK, TxOK, NotedOK, account

\* What a block executes was let through when it was asked for.
LEMMA SettleIInv == ASSUME IInv, Settle PROVE IInv'
<1>1. PICK request \in pending :
        pending' = pending \ {request} /\ (Execute(request) \/ UNCHANGED account)
  BY DEF Settle
<1>2. PendingOK'
  BY <1>1 DEF IInv, PendingOK
<1>3. Stored'
  <2>1. CASE Execute(request)
    <3>1. /\ Valid(owner', "Owner")
          /\ witness' = None \/ Valid(witness', "Witness")
          /\ Len(actives') \in 1..MaxActives
          /\ \A i \in DOMAIN actives' : Valid(actives'[i], "Active")
      BY <2>1 DEF IInv, PendingOK, Execute, Admitted, Updates, ValidUpdate, CountAdmitted, Valid
    <3> QED BY <3>1, LifecycleAssumption DEF Stored
  <2>2. CASE UNCHANGED account
    BY <2>2 DEF IInv, Stored, account
  <2> QED BY <1>1, <2>1, <2>2
<1> QED BY <1>2, <1>3 DEF Settle, IInv, Replies, TxOK, NotedOK, SentOK

LEMMA StepIInv == IInv /\ [Next]_vars => IInv'
<1> SUFFICES ASSUME IInv, [Next]_vars PROVE IInv'
  OBVIOUS
<1>1. ASSUME NEW type \in Types, CreateTransaction(type) PROVE IInv'
  BY <1>1, NewRawIsRaw, BuiltIInv DEF CreateTransaction
<1>2. ASSUME NEW type \in Types, BuildRefused(type) PROVE IInv'
  BY <1>2 DEF BuildRefused, Refusals, IInv, Stored, PendingOK, SentOK, Replies, TxOK, NotedOK,
              chain, account
<1>3. ASSUME NEW type \in Types, BuildCall(type, 1) PROVE IInv'
  BY <1>3, NewRawIsRaw, BuiltIInv, LifecycleAssumption DEF BuildCall, HashAfter
<1>4. ASSUME NEW request \in Requests, UpdateAccountPermissions(request)
      PROVE  IInv'
  <2>1. Admitted(request)
    BY <1>4, LifecycleAssumption DEF UpdateAccountPermissions, Admitted
  <2>2. IsRaw(NewRaw(UpdateType, request))
    BY <2>1, NewRawIsRaw, LifecycleAssumption
  <2> QED BY <1>4, <2>2, BuiltIInv DEF UpdateAccountPermissions
<1>5. CASE DeployedContractAddress
  <2>1. /\ tx # None /\ reply' = "none" /\ UNCHANGED <<chain, tx, sent>>
        /\ noted' = [address |-> tx.raw, signed |-> tx.signatures # <<>>]
    BY <1>5 DEF DeployedContractAddress, AddressOf
  <2>2. NotedOK'
    BY <2>1 DEF NotedOK
  <2> QED BY <2>1, <2>2 DEF IInv, Stored, PendingOK, SentOK, Replies, TxOK, chain, account
<1>6. ASSUME NEW k \in Keys, NEW id \in Ids, NEW required \in Requirements,
             ValidatePermissionSigner(k, id, required)
      PROVE  IInv'
  BY <1>6 DEF ValidatePermissionSigner, IInv, Stored, PendingOK, SentOK, Replies, TxOK, NotedOK
<1>7. CASE BroadcastTransaction
  BY <1>7, AcceptIInv, RejectIInv DEF BroadcastTransaction
<1>8. CASE UNCHANGED vars
  BY <1>8 DEF vars, IInv, Stored, PendingOK, SentOK, TxOK, NotedOK
<1> QED
  BY <1>1, <1>2, <1>3, <1>4, <1>5, <1>6, <1>7, <1>8,
     SetPermissionIDIInv, SetDataIInv, SignIInv, SettleIInv DEF Next
-----------------------------------------------------------------------------
THEOREM Invariant == Spec => []IInv
BY InitIInv, StepIInv, PTL DEF Spec

\* Every stored permission list keeps to its ids, every transaction to its types.
THEOREM TypeCorrect == Spec => []TypeOK
<1>1. IInv => TypeOK
  <2>1. ASSUME IInv, tx # None
        PROVE  /\ tx.raw.type \in Types /\ tx.raw.permissionId \in TransactionIds
               /\ Len(tx.signatures) \in 0..MaxSignatures
    <3>1. IsTx(tx)
      BY <2>1 DEF IInv, TxOK
    <3>2. tx.signatures \in Seq(Signatures(tx.raw)) /\ Len(tx.signatures) <= MaxSignatures
      BY <3>1 DEF IsTx
    <3>3. Len(tx.signatures) \in 0..MaxSignatures
      BY <3>2, LifecycleAssumption
    <3> QED BY <3>1, <3>3 DEF IsTx, IsRaw
  <2> QED BY <2>1 DEF IInv, Stored, Valid, ValidPermission, Replies, TypeOK
<1> QED BY <1>1, Invariant, PTL

\* In any order of legal calls the txid is that of the raw data and every
\* signature covers what is sent, up to a memo added after it.
THEOREM SignaturesStayValid == Spec => []SignaturesCover
<1>1. IInv => SignaturesCover
  <2> SUFFICES ASSUME IInv, tx # None, NEW i \in DOMAIN tx.signatures
               PROVE  /\ tx.txid = tx.raw
                      /\ tx.signatures[i].over = [tx.raw EXCEPT !.memo = tx.signatures[i].over.memo]
    BY DEF SignaturesCover, IInv, TxOK, IsTx
  <2>1. IsTx(tx)
    BY DEF IInv, TxOK
  <2>2. tx.signatures[i] \in Signatures(tx.raw)
    BY <2>1 DEF IsTx
  <2>3. PICK m \in 0..tx.raw.memo : tx.signatures[i].over = [tx.raw EXCEPT !.memo = m]
    BY <2>2 DEF Signatures
  <2> QED BY <2>1, <2>3 DEF IsTx, IsRaw
<1> QED BY <1>1, Invariant, PTL

\* In any order of edits, signatures and broadcasts with lost or refused answers
\* the network takes in at most one transaction of each that was built.
THEOREM PaysOnce == Spec => []PaidOnce
<1>1. IInv => PaidOnce
  <2> SUFFICES ASSUME IInv PROVE Cardinality(sent) <= 1
    BY DEF PaidOnce
  <2>1. CASE sent = {}
    BY <2>1, FS_EmptySet
  <2>2. CASE sent # {}
    <3>1. sent = {tx.signatures[1].over}
      BY <2>2 DEF IInv, SentOK
    <3>2. Cardinality(sent) = 1
      BY <3>1, FS_Singleton
    <3> QED BY <3>2
  <2> QED BY <2>1, <2>2
<1> QED BY <1>1, Invariant, PTL

\* The address taken from a signed deployment is where the contract will be, if
\* the network takes the transaction in after that.
THEOREM AddressIsFinal == Spec => DeployedWhereNoted
<1>1. ASSUME IInv, [Next]_vars, noted # None, noted.signed
      PROVE  sent' \ sent \subseteq {noted.address}
  <2>1. \/ sent' \subseteq sent
        \/ BroadcastTransaction /\ Accept
    BY <1>1 DEF Next, vars, CreateTransaction, BuildRefused, BuildCall, Built,
           UpdateAccountPermissions, SetPermissionID, SetData, Edit, Local, SignTransaction,
           DeployedContractAddress, ValidatePermissionSigner, BroadcastTransaction, Reject, Settle
  <2>2. CASE BroadcastTransaction /\ Accept
    <3>1. tx.signatures[1].over = tx.raw /\ sent' = {tx.raw}
      BY <2>2, AcceptedIsFirstSigned, <1>1 DEF BroadcastTransaction
    <3>2. noted.address = tx.raw
      BY <1>1, <3>1 DEF IInv, NotedOK
    <3> QED BY <3>1, <3>2
  <2>3. CASE sent' \subseteq sent
    BY <2>3
  <2> QED BY <2>1, <2>2, <2>3
<1>2. IInv /\ [Next]_vars =>
        [noted # None /\ noted.signed => sent' \ sent \subseteq {noted.address}]_vars
  BY <1>1
<1> QED BY <1>2, Invariant, PTL DEF Spec, DeployedWhereNoted
-----------------------------------------------------------------------------
\* The keys of a permission are a finite list of addresses with their weights.
LEMMA EntriesTyped ==
  ASSUME NEW p \in Permissions
  PROVE  /\ DOMAIN p.keys = 1..Len(p.keys) /\ Len(p.keys) \in Nat
         /\ IsFiniteSet(DOMAIN p.keys)
         /\ \A i \in DOMAIN p.keys : p.keys[i].weight \in Int
<1> DEFINE Entry == [address: Keys, weight: Int]
<1>1. p.keys \in Seq(Entry)
  BY DEF Permissions
<1>2. \A e \in Entry : e.weight \in Int
  OBVIOUS
<1> HIDE DEF Entry
<1>3. DOMAIN p.keys = 1..Len(p.keys) /\ Len(p.keys) \in Nat /\ \A i \in DOMAIN p.keys : p.keys[i] \in Entry
  BY <1>1
<1>4. IsFiniteSet(DOMAIN p.keys)
  BY <1>3, FS_Interval
<1> QED BY <1>2, <1>3, <1>4

\* The weight of a listed key is that of one of its entries.
LEMMA WeightListed ==
  ASSUME NEW p \in Permissions, NEW k \in KeysOf(p)
  PROVE  \E i \in DOMAIN p.keys : /\ p.keys[i].address = k
                                 /\ WeightOf(p, k) = p.keys[i].weight
                                 /\ WeightOf(p, k) \in Int
<1> DEFINE Entries == {i \in DOMAIN p.keys : p.keys[i].address = k}
           IsFirst(i) == /\ p.keys[i].address = k
                         /\ \A j \in 1..(i - 1) : p.keys[j].address # k
<1>1. \A i \in DOMAIN p.keys : p.keys[i].weight \in Int
  BY EntriesTyped
<1>2. DOMAIN p.keys = 1..Len(p.keys) /\ Len(p.keys) \in Nat
  BY EntriesTyped
<1>3. Entries \subseteq Nat /\ Entries # {}
  BY <1>2 DEF KeysOf
<1>4. PICK m \in Entries : \A i \in Entries : m <= i
  <2> HIDE DEF Entries
  <2> QED BY <1>3, LeastNat
<1>5. m \in DOMAIN p.keys /\ IsFirst(m)
  BY <1>2, <1>4
<1> DEFINE first == CHOOSE i \in DOMAIN p.keys : IsFirst(i)
<1>6. first \in DOMAIN p.keys /\ IsFirst(first)
  BY <1>5
<1>7. WeightOf(p, k) = p.keys[first].weight
  BY DEF WeightOf
<1>8. p.keys[first].weight \in Int
  <2> HIDE DEF first
  <2> QED BY <1>1, <1>6
<1> HIDE DEF first
<1> QED BY <1>6, <1>7, <1>8

\* The keys that validatePermission lets through, each signing once, weigh what
\* it has summed up: no address is listed twice.
LEMMA ValidIsReachable ==
  ASSUME NEW p, NEW type, Valid(p, type)
  PROVE  Reachable(p)
<1> DEFINE S == DOMAIN p.keys
           w == [i \in S |-> p.keys[i].weight]
           f == [i \in S |-> p.keys[i].address]
           v == [k \in KeysOf(p) |-> WeightOf(p, k)]
<1>1. p \in Permissions
  BY DEF Valid
<1>2. KeysAdmitted(p) /\ SumFunction(w) >= p.threshold
  BY DEF Valid, ValidPermission, TotalWeight
<1>3. IsFiniteSet(S)
  BY <1>1, EntriesTyped
<1>4. \A i, j \in S : f[i] = f[j] => i = j
  BY <1>2 DEF KeysAdmitted
<1>5. ASSUME NEW i \in S PROVE w[i] \in Int /\ v[f[i]] = w[i]
  <2>1. w[i] \in Int
    BY <1>1, EntriesTyped
  <2>2. f[i] \in KeysOf(p)
    BY DEF KeysOf
  <2>3. PICK j \in DOMAIN p.keys : p.keys[j].address = f[i] /\ WeightOf(p, f[i]) = p.keys[j].weight
    BY <1>1, <2>2, WeightListed
  <2>4. j = i
    BY <1>2, <2>3 DEF KeysAdmitted
  <2> QED BY <2>1, <2>2, <2>3, <2>4
<1>6. {f[i] : i \in S} = KeysOf(p)
  BY DEF KeysOf
<1>7. DOMAIN w = S /\ DOMAIN v = KeysOf(p)
  OBVIOUS
<1>8. SumFunctionOnSet(v, {f[i] : i \in S}) = SumFunctionOnSet(w, S)
  <2> HIDE DEF S, f, v, w
  <2> QED BY <1>3, <1>4, <1>5, SumRenamed
<1>9. SumFunction(v) = SumFunction(w)
  <2> HIDE DEF S, f, v, w
  <2> QED BY <1>6, <1>7, <1>8 DEF SumFunction
<1> QED BY <1>2, <1>9 DEF Reachable

\* Whatever updates are asked for, those that are let through leave every stored
\* permission within reach of its keys.
THEOREM AccountStaysUsable == Spec => []NeverLockedOut
<1>1. IInv => NeverLockedOut
  BY ValidIsReachable DEF IInv, Stored, NeverLockedOut
<1> QED BY <1>1, Invariant, PTL
-----------------------------------------------------------------------------
\* The permission an approval was given on, as the reply typed it, is the one
\* still stored under its id.
ApprovalStands ==
  approved # None =>
    LET p == PermissionOf(approved.id)
    IN  /\ p # None
        /\ \E type \in {p.type, "Owner"} :
             Approves([p EXCEPT !.type = type], approved.signer, approved.id, approved.required)

LEMMA StepApprovalStands == ApprovalStands /\ [Next]_vars => ApprovalStands'
<1> SUFFICES ASSUME ApprovalStands, [Next]_vars PROVE ApprovalStands'
  OBVIOUS
<1>1. CASE UNCHANGED account
  BY <1>1 DEF account, ApprovalStands, PermissionOf
<1>2. CASE approved' = None
  BY <1>2 DEF ApprovalStands
<1>3. ASSUME NEW k \in Keys, NEW id \in Ids, NEW required \in Requirements,
             ValidatePermissionSigner(k, id, required)
      PROVE  ApprovalStands'
  BY <1>3 DEF ValidatePermissionSigner, ApprovalStands, PermissionOf
<1>4. \/ UNCHANGED account
      \/ approved' = None
      \/ \E k \in Keys, id \in Ids, required \in Requirements :
           ValidatePermissionSigner(k, id, required)
  BY DEF Next, vars, chain, account, CreateTransaction, BuildRefused, BuildCall, Built,
         UpdateAccountPermissions, SetPermissionID, SetData, Edit, Local, SignTransaction,
         DeployedContractAddress, BroadcastTransaction, Settle, Execute
<1> QED BY <1>1, <1>2, <1>3, <1>4

\* What can be found under an id is a permission.
LEMMA FoundIsPermission ==
  ASSUME Stored, NEW id \in Int, PermissionOf(id) # None
  PROVE  PermissionOf(id) \in Permissions
<1>1. DefaultOwnerPermission \in Permissions
  <2>1. <<[address |-> Account, weight |-> 1]>> \in Seq([address: Keys, weight: Int])
    BY LifecycleAssumption
  <2> QED BY <2>1 DEF DefaultOwnerPermission, Permissions, OwnerPermissionID
<1> QED BY <1>1 DEF PermissionOf, Stored, Valid

\* Of a permission that approves of the signer under id: what the chain looks at.
LEMMA ApprovalIsEnough ==
  ASSUME NEW p \in Permissions, NEW type \in {p.type, "Owner"}, NEW signer, NEW id, NEW required,
         Approves([p EXCEPT !.type = type], signer, id, required)
  PROVE  /\ id # OwnerPermissionID =>
              p.type = "Active" /\ \A t \in required : t \in p.operations
         /\ signer \in KeysOf(p)
         /\ WeightOf(p, signer) >= p.threshold
<1> DEFINE q == [p EXCEPT !.type = type]
<1>1. /\ q.type = type /\ q.keys = p.keys
      /\ q.threshold = p.threshold /\ q.operations = p.operations
  BY DEF Permissions
<1> HIDE DEF q
<1>2. KeysOf(q) = KeysOf(p) /\ WeightOf(q, signer) = WeightOf(p, signer)
  BY <1>1 DEF KeysOf, WeightOf
<1>3. Approves(q, signer, id, required)
  BY DEF q
<1> QED BY <1>1, <1>2, <1>3 DEF Approves, TypeFits, PermissionAllows

\* A transaction signed by an approved signer alone, of a type and under the id
\* that were asked about, is accepted, whatever the permission is made of.
THEOREM ApprovalIsPromise == Spec => []ApprovedSignerSuffices
<1>1. Init => ApprovalStands
  BY DEF Init, ApprovalStands
<1>2. IInv /\ ApprovalStands => ApprovedSignerSuffices
  <2> SUFFICES ASSUME IInv, ApprovalStands, tx # None, approved # None,
                      tx.raw.permissionId = approved.id,
                      tx.raw.type \in approved.required,
                      tx.signatures = <<[by |-> approved.signer, over |-> tx.raw]>>
               PROVE  ChainAccepts
    BY DEF ApprovedSignerSuffices
  <2> DEFINE p == PermissionOf(tx.raw.permissionId)
             k == approved.signer
             v == [s \in Signers |-> WeightOf(p, s)]
  <2>1. tx.raw.permissionId \in Int
    BY LifecycleAssumption
       DEF IInv, TxOK, IsTx, IsRaw, TransactionIds, OwnerPermissionID, LastActivePermissionID,
           FirstActivePermissionID
  <2>2. p # None /\ p \in Permissions
    BY <2>1, FoundIsPermission DEF ApprovalStands, IInv
  <2>3. /\ tx.raw.permissionId # OwnerPermissionID =>
             p.type = "Active" /\ tx.raw.type \in p.operations
        /\ k \in KeysOf(p)
        /\ WeightOf(p, k) >= p.threshold
    <3>1. PICK type \in {p.type, "Owner"} :
            Approves([p EXCEPT !.type = type], k, approved.id, approved.required)
      BY DEF ApprovalStands
    <3> HIDE DEF p, k
    <3>2. p \in Permissions
      BY <2>2
    <3>3. /\ approved.id # OwnerPermissionID =>
               p.type = "Active" /\ \A t \in approved.required : t \in p.operations
          /\ k \in KeysOf(p)
          /\ WeightOf(p, k) >= p.threshold
      BY <3>1, <3>2, ApprovalIsEnough
    <3> QED BY <3>3
  <2>4. /\ tx.signatures # <<>> /\ Len(tx.signatures) = 1
        /\ DOMAIN tx.signatures = {1} /\ tx.signatures[1] = [by |-> k, over |-> tx.raw]
    OBVIOUS
  <2>5. Signers = {k}
    <3> HIDE DEF k
    <3> QED BY <2>4 DEF Signers
  <2>6. Cardinality(Signers) = Len(tx.signatures)
    BY <2>4, <2>5, FS_Singleton
  <2>7. SumFunction(v) = WeightOf(p, k)
    <3>1. WeightOf(p, k) \in Int
      BY <2>2, <2>3, WeightListed
    <3>2. DOMAIN v = {k} /\ v[k] = WeightOf(p, k)
      BY <2>5
    <3> HIDE DEF v, p, k
    <3> QED BY <3>1, <3>2, SumSingleton DEF SumFunction
  <2> HIDE DEF k
  <2> QED BY <2>2, <2>3, <2>4, <2>5, <2>6, <2>7 DEF ChainAccepts
<1> QED BY <1>1, <1>2, StepApprovalStands, Invariant, PTL DEF Spec
=============================================================================
