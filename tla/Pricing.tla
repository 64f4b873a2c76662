-------------------------------- MODULE Pricing --------------------------------
(***************************************************************************)
(* What an estimate makes of a transaction's needs, the sender's resources *)
(* and the prices (estimate_transfer.go, units.go), and what the chain     *)
(* charges, as the comments of that file and the measurements they quote   *)
(* say. Amounts are integers; resources may be overdrawn, that is negative.*)
(***************************************************************************)
EXTENDS Integers

CONSTANT MaxSUN   \* math.MaxInt64

ASSUME PricingAssumption == MaxSUN \in Nat
-----------------------------------------------------------------------------
(* The code. *)

\* The sum of two int64 amounts is x.
Wrap(x) == IF x > MaxSUN THEN x - 2 * (MaxSUN + 1)
           ELSE IF x < -MaxSUN - 1 THEN x + 2 * (MaxSUN + 1) ELSE x

\* CeilToSUN saturates; what it is given here is whole.
CeilToSUN(d) ==
  IF d > MaxSUN THEN MaxSUN ELSE IF d < -(MaxSUN + 1) THEN -(MaxSUN + 1) ELSE d

ToSUN(value, price) == CeilToSUN(value * price)

\* Mutant of BillableBandwidth: the two pools are added together.
BillableBandwidthPooled(needed, staked, free) ==
  IF needed <= 0 \/ needed <= staked + free THEN 0 ELSE needed

BillableBandwidth(needed, staked, free) ==
  IF needed <= 0 \/ needed <= staked \/ needed <= free THEN 0 ELSE needed

CreateAccountNeedsFee(needed, staked) == needed > staked

\* Mutant of ContractEnergyShare: an overdrawn owner is not looked for.
ContractEnergyShareOverdrawn(total, percent, limit, ownerLeft) ==
  LET share == (total * (100 - percent)) \div 100
      cap == IF ownerLeft < limit THEN ownerLeft ELSE limit
  IN IF share > cap THEN cap ELSE share

ContractEnergyShare(total, percent, limit, ownerLeft) ==
  LET ownerPercent == IF percent < 0 THEN 100 ELSE 100 - percent
      share == (total * ownerPercent) \div 100
      cap == IF ownerLeft < limit THEN ownerLeft ELSE limit
  IN IF total <= 0 \/ ownerPercent <= 0 \/ cap <= 0 THEN 0
     ELSE IF share > cap THEN cap ELSE share

SenderEnergy(energy, contractEnergy) ==
  IF energy <= 0 \/ contractEnergy >= energy THEN 0 ELSE energy - contractEnergy

BillableEnergy(needed, available) ==
  LET left == IF available < 0 THEN 0 ELSE available
  IN IF needed <= left THEN 0 ELSE needed - left

\* priceTransfer and TransferCharges.Total. usage: what the transaction takes
\* and the owner's part of it; available: the sender's pools; params: ChainParams.
Charges(usage, available, params, createsAccount) ==
  [Energy |-> ToSUN(BillableEnergy(SenderEnergy(usage.Energy, usage.ContractEnergy),
                                   available.StakedEnergy), params.EnergyFee),
   AccountCreation |->
     IF createsAccount THEN params.CreateNewAccountFeeInSystemContract ELSE 0,
   UnstakedCreation |->
     IF createsAccount /\ CreateAccountNeedsFee(usage.Bandwidth, available.StakedBandwidth)
       THEN params.CreateAccountFee ELSE 0,
   Bandwidth |->
     IF createsAccount THEN 0
     ELSE ToSUN(BillableBandwidth(usage.Bandwidth, available.StakedBandwidth,
                                  available.FreeBandwidth), params.TransactionFee)]

Total(c) == Wrap(Wrap(Wrap(c.Bandwidth + c.Energy) + c.AccountCreation) + c.UnstakedCreation)

PriceTransfer(usage, available, params, createsAccount) ==
  Total(Charges(usage, available, params, createsAccount))
-----------------------------------------------------------------------------
(* The chain. *)

Lower(x, y) == IF x < y THEN x ELSE y
Positive(x) == IF x > 0 THEN x ELSE 0

\* payEnergyBill: the owner's part of a call is its percentage, as far as its
\* energy and the limit it set per call go, and nothing of a call of its own.
OwnerPays(energy, percent, limit, ownerLeft) ==
  Lower((energy * (100 - percent)) \div 100, Lower(Positive(ownerLeft), limit))

\* The sender's energy is spent first, TRX is burned for the rest.
EnergyBurn(energy, senderLeft, price) == (energy - Lower(energy, Positive(senderLeft))) * price

\* One pool pays for the whole transaction, or every byte is burned.
BandwidthBurn(bytes, staked, free, price) ==
  IF \E pool \in {staked, free} : pool >= bytes THEN 0 ELSE bytes * price

\* Creation is a flat fee, and a second one unless the staked pool pays the bytes.
CreationBurn(bytes, staked, params) ==
  params.CreateNewAccountFeeInSystemContract
    + (IF staked >= bytes THEN 0 ELSE params.CreateAccountFee)

\* What leaves the sender's account for a transaction.
Settlement(bytes, energy, ownerPart, available, params, createsAccount) ==
  EnergyBurn(energy - ownerPart, available.StakedEnergy, params.EnergyFee)
    + (IF createsAccount
         THEN CreationBurn(bytes, available.StakedBandwidth, params)
         ELSE BandwidthBurn(bytes, available.StakedBandwidth, available.FreeBandwidth,
                            params.TransactionFee))
=============================================================================
