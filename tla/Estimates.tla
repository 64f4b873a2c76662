------------------------------- MODULE Estimates -------------------------------
(***************************************************************************)
(* Estimating what a transaction will cost: several RPCs one after the     *)
(* other, then Pricing. The pool sends each to a node of its own, and one  *)
(* node may lag behind another: an RPC sees the chain at any moment since  *)
(* the estimate began, perhaps an earlier one than the RPC before it.      *)
(* Kinds of estimate: EstimateTRXTransfer ("trx"), EstimateTRC20Transfer   *)
(* of another account's contract ("trc20") and of the sender's own or one  *)
(* that names no owner ("own"), EstimateDeployContract ("deploy"),         *)
(* EstimateActivationFee and EstimateActivateAccount, which read the same  *)
(* ("activation"), and EstimateSystemContractActivation ("system").        *)
(***************************************************************************)
EXTENDS Pricing, FiniteSets

CONSTANTS
  Values,             \* what the changing parts of the chain's state may be
  NetLimit,           \* the sender's staked bandwidth, all of it its own stake
  FreeNetLimit,       \* its daily allowance
  OriginEnergyLimit,  \* the contract's cap on what its owner pays per call
  Size,               \* EstimateBandwidth of the transaction
  CallEnergy,         \* the energy the call or the deployment takes
  TransactionFee, CreateAccountFee, CreateNewAccountFeeInSystemContract,
  MaxChanges          \* bound: changes of the chain during one estimate

\* The changing parts: what the sender has used of its bandwidth, what energy
\* it and the contract's owner have left, consume_user_resource_percent and the
\* price of energy. Whether the receiver has an account is one more.
Parts == {"NetUsed", "FreeNetUsed", "EnergyLeft", "OriginEnergyLeft", "Percent", "EnergyFee"}
States == [exists: BOOLEAN, parts: {f \in [Parts -> UNION {Values[p] : p \in Parts}] :
                                      \A p \in Parts : f[p] \in Values[p]}]

ASSUME EstimatesAssumption ==
  /\ Values \in [Parts -> SUBSET Int]
  /\ Values["Percent"] \subseteq 0..100
  /\ \A price \in Values["EnergyFee"] : price >= 0
  /\ NetLimit \in Int /\ FreeNetLimit \in Int
  /\ OriginEnergyLimit \in Nat
  /\ Size \in Nat /\ CallEnergy \in Nat \ {0}
  /\ TransactionFee \in Nat
  /\ CreateAccountFee \in Nat
  /\ CreateNewAccountFeeInSystemContract \in Nat
  /\ MaxChanges \in Nat

VARIABLES
  chain,    \* the state of the chain, as far as estimates depend on it
  kind,     \* the estimate in progress, or the last one
  at,       \* its next RPC, or "idle"
  known,    \* what it has read, Go's zero values for the rest
  outcome,  \* "none", "error" or "fee"
  fee,      \* the fee it returned
  seen,     \* history: the states the chain was in since the estimate began
  changes   \* history: how many times the chain changed since it began

vars == <<chain, kind, at, known, outcome, fee, seen, changes>>

Activations == {"activation", "system"}
Kinds == {"trx", "trc20", "own", "deploy"} \cup Activations
Locations == {"idle", "build", "activated", "simulate", "contract", "owner",
              "params", "resources", "create"}

Nothing == [created |-> FALSE, energy |-> 0, percent |-> 0, share |-> 0, price |-> 0, fee |-> 0]

Init ==
  /\ chain \in States
  /\ kind = "trx" /\ at = "idle" /\ known = Nothing
  /\ outcome = "none" /\ fee = 0
  /\ seen = {chain} /\ changes = 0
-----------------------------------------------------------------------------
Staked(s) == NetLimit - s.parts["NetUsed"]
Free(s) == FreeNetLimit - s.parts["FreeNetUsed"]
Available(s) == [StakedBandwidth |-> Staked(s), FreeBandwidth |-> Free(s),
                 StakedEnergy |-> s.parts["EnergyLeft"]]
ParamsAt(price) ==
  [EnergyFee |-> price, TransactionFee |-> TransactionFee, CreateAccountFee |-> CreateAccountFee,
   CreateNewAccountFeeInSystemContract |-> CreateNewAccountFeeInSystemContract]

\* AvailableForDelegateResources: the bandwidth left, the allowance included, as
\* far as the account's own stake yields it.
AvailableForDelegate(s) == Lower(NetLimit, Staked(s) + Free(s))

\* What the chain charges for the transaction if it takes it in state s.
Charge(k, s) ==
  LET params == ParamsAt(s.parts["EnergyFee"])
      energy == IF k \in {"trc20", "own", "deploy"} THEN CallEnergy ELSE 0
      ownerPart == IF k # "trc20" THEN 0
                   ELSE OwnerPays(energy, s.parts["Percent"], OriginEnergyLimit, s.parts["OriginEnergyLeft"])
  IN IF k \in Activations
       THEN IF s.exists THEN 0 ELSE CreationBurn(Size, Staked(s), params)
       ELSE Settlement(Size, energy, ownerPart, Available(s), params, k = "trx" /\ ~s.exists)

\* No charge comes near what an int64 holds.
ASSUME NoSaturation == \A k \in Kinds : \A s \in States : Charge(k, s) <= MaxSUN
-----------------------------------------------------------------------------
\* The chain moves on. An account, once there, stays. Between estimates nothing
\* looks at the chain, and Init lets it be in any state.
Change ==
  /\ at # "idle" /\ changes < MaxChanges
  /\ \/ \E p \in Parts : \E v \in Values[p] :
          v # chain.parts[p] /\ chain' = [chain EXCEPT !.parts[p] = v]
     \/ ~chain.exists /\ chain' = [chain EXCEPT !.exists = TRUE]
  /\ seen' = seen \cup {chain'} /\ changes' = changes + 1
  /\ UNCHANGED <<kind, at, known, outcome, fee>>

\* An estimate begins at the oldest moment that one of the nodes it will ask
\* still shows: changes before its first RPC may be among those it meets.
Begin(k) ==
  /\ at = "idle"
  /\ kind' = k
  /\ at' = IF k \in Activations THEN "activated" ELSE "build"
  /\ known' = Nothing /\ outcome' = "none" /\ fee' = 0
  /\ seen' = {chain} /\ changes' = 0
  /\ UNCHANGED chain

Return(result, sun) ==
  /\ at' = "idle" /\ outcome' = result /\ fee' = sun
  /\ UNCHANGED <<chain, kind, known, seen, changes>>

\* An RPC is answered; the next one is due.
Read(here, next, knowing) ==
  /\ at = here /\ at' = next /\ known' = knowing
  /\ UNCHANGED <<chain, kind, outcome, fee, seen, changes>>

\* CreateTransferTransaction, TRC20Send, DeployContract.
Build == Read("build", IF kind = "trx" THEN "activated" ELSE "simulate", known)

\* IsAccountActivated, answered by a node in state s: an activation that is not
\* needed costs nothing.
ReadActivated(s) ==
  IF kind \in Activations /\ s.exists
    THEN at = "activated" /\ Return("fee", 0)
    ELSE Read("activated", "params", [known EXCEPT !.created = ~s.exists])

\* The constant call.
Simulate ==
  Read("simulate", IF kind = "deploy" THEN "params" ELSE "contract",
       [known EXCEPT !.energy = CallEnergy])

\* contractEnergySubsidy: the contract, then its owner unless that is the sender
\* or the contract names none.
ReadContract(s) ==
  Read("contract", IF kind = "own" THEN "params" ELSE "owner",
       [known EXCEPT !.percent = s.parts["Percent"]])

ReadOwner(s) ==
  Read("owner", "params",
       [known EXCEPT !.share = ContractEnergyShare(known.energy, known.percent,
                                 OriginEnergyLimit, s.parts["OriginEnergyLeft"])])

ReadParams(s) == Read("params", "resources", [known EXCEPT !.price = s.parts["EnergyFee"]])

ActivationFee(bandwidth) ==
  CreateNewAccountFeeInSystemContract + IF bandwidth < Size THEN CreateAccountFee ELSE 0

\* GetAccountResource of the sender, and the pricing. For an activation
\* AvailableForDelegateResources asks for the chain's parameters and the account
\* before: what they say of the own stake is NetLimit, which does not move here.
ReadResources(s) ==
  IF kind = "system"
    THEN Read("resources", "create", [known EXCEPT !.fee = ActivationFee(AvailableForDelegate(s))])
    ELSE /\ at = "resources"
         /\ Return("fee",
              IF kind = "activation" THEN ActivationFee(AvailableForDelegate(s))
              ELSE PriceTransfer([Bandwidth |-> Size, Energy |-> known.energy,
                                  ContractEnergy |-> known.share],
                                 Available(s), ParamsAt(known.price), known.created))

\* CreateAccount: a receiver activated meanwhile is refused with "Account has
\* existed", which is no error and costs nothing.
Create(s) == at = "create" /\ Return("fee", IF s.exists THEN 0 ELSE known.fee)

\* An RPC fails.
Fail == at # "idle" /\ Return("error", 0)

\* The connection is reset by the peer. That is let pass when building, where
\* the missing transaction is an error anyway (Fail), and in the constant call
\* of a TRC20 transfer, which is then taken to need no energy.
Reset ==
  /\ kind \in {"trc20", "own"}
  /\ Read("simulate", "params", [known EXCEPT !.energy = 0])

Next ==
  \/ Change
  \/ \E k \in Kinds : Begin(k)
  \/ \E s \in seen :
       \/ ReadActivated(s) \/ ReadContract(s) \/ ReadOwner(s)
       \/ ReadParams(s) \/ ReadResources(s) \/ Create(s)
  \/ Build \/ Simulate \/ Fail \/ Reset

Spec == Init /\ [][Next]_vars
-----------------------------------------------------------------------------
TypeOK ==
  /\ chain \in States /\ chain \in seen /\ seen \subseteq States
  /\ kind \in Kinds /\ at \in Locations
  /\ known \in [created: BOOLEAN, energy: {0, CallEnergy}, percent: 0..100,
                share: 0..CallEnergy, price: Nat, fee: Nat]
  /\ outcome \in {"none", "error", "fee"} /\ fee \in Int
  /\ outcome # "none" => at = "idle"
  /\ changes \in 0..MaxChanges

\* Estimates the code is known to get wrong, left out of the property: a transfer
\* whose constant call met a connection reset, and an activation where what
\* is left of the staked bandwidth is hidden by the free allowance.
Forgot == kind \in {"trc20", "own"} /\ known.energy = 0
Masked == kind \in Activations /\ \E s \in seen : AvailableForDelegate(s) # Staked(s)

\* The states seen differ in one part at most.
OneMoved ==
  \/ \A s, t \in seen : s.parts = t.parts
  \/ \E p \in Parts : \A s, t \in seen :
       s.exists = t.exists /\ \A q \in Parts \ {p} : s.parts[q] = t.parts[q]

\* An estimate is several reads of nodes that show several moments, in no order.
\* As long as only one part of the chain's state moves while it runs - the
\* receiver is activated, a price is voted, a resource is spent, however often -
\* what it returns is what the chain would have charged at one of these moments:
\* one read per part, one total. That covers the activation that wins the race
\* with EstimateSystemContractActivation.
ChargedAtSomeMoment ==
  outcome = "fee" /\ OneMoved /\ ~Forgot /\ ~Masked => \E s \in seen : fee = Charge(kind, s)

\* "free daily quota ... do NOT count" (activate.go): on a chain at rest an
\* activation is charged what was estimated. Not so when the staked bandwidth is
\* used up: unused free bandwidth hides that.
ActivationIsCharged ==
  outcome = "fee" /\ kind \in Activations /\ Cardinality(seen) = 1
    => \A s \in seen : fee = Charge(kind, s)
=============================================================================
