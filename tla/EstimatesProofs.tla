---------------------------- MODULE EstimatesProofs ----------------------------
(***************************************************************************)
(* The estimate's arithmetic is the chain's, for all amounts; and on a     *)
(* moving chain what an estimate returns was true at some moment, for all  *)
(* resources, prices, sizes and numbers of changes.                        *)
(***************************************************************************)
EXTENDS Estimates, TLAPS

\* A percentage of an amount lies between nothing and the amount.
LEMMA PartOfTotal ==
  ASSUME NEW total \in Nat, NEW part \in 0..100
  PROVE  (total * part) \div 100 \in 0..total
<1>1. total * part \in Int /\ 0 <= total * part BY SMT
<1>2. total * part <= total * 100
  <2>1. total * (100 - part) >= 0 BY SMT
  <2>2. total * 100 = total * part + total * (100 - part) BY SMT
  <2> QED BY <1>1, <2>1, <2>2, SMT
<1> QED BY <1>1, <1>2, SMT

\* ContractEnergyShare is what java-tron makes the contract's owner pay, also
\* when the owner has overdrawn its energy, and never more than the call takes.
THEOREM ShareIsOwners ==
  ASSUME NEW total \in Nat, NEW percent \in 0..100, NEW limit \in Nat, NEW ownerLeft \in Int
  PROVE  /\ ContractEnergyShare(total, percent, limit, ownerLeft)
              = OwnerPays(total, percent, limit, ownerLeft)
         /\ ContractEnergyShare(total, percent, limit, ownerLeft) \in 0..total
<1> DEFINE part == (total * (100 - percent)) \div 100
<1>1. part \in 0..total
  <2>1. 100 - percent \in 0..100 OBVIOUS
  <2> QED BY <2>1, PartOfTotal
<1>2. CASE percent = 100
  <2>1. total * (100 - percent) = 0 BY <1>2, SMT
  <2>2. part = 0 BY <2>1, SMT
  <2> QED BY <1>2, <2>2 DEF ContractEnergyShare, OwnerPays, Lower, Positive
<1>3. CASE percent # 100
  <2> HIDE DEF part
  <2>1. CASE total = 0
    <3>1. part = 0 BY <1>1, <2>1
    <3>2. OwnerPays(total, percent, limit, ownerLeft) = Lower(part, Lower(Positive(ownerLeft), limit))
      BY DEF OwnerPays, part
    <3> QED BY <2>1, <3>1, <3>2 DEF ContractEnergyShare, Lower, Positive
  <2>2. CASE total # 0
    <3>1. OwnerPays(total, percent, limit, ownerLeft) = Lower(part, Lower(Positive(ownerLeft), limit))
      BY DEF OwnerPays, part
    <3>2. ContractEnergyShare(total, percent, limit, ownerLeft)
            = LET cap == IF ownerLeft < limit THEN ownerLeft ELSE limit
              IN IF cap <= 0 THEN 0 ELSE IF part > cap THEN cap ELSE part
      BY <1>3, <2>2 DEF ContractEnergyShare, part
    <3> QED BY <1>1, <3>1, <3>2 DEF Lower, Positive
  <2> QED BY <2>1, <2>2
<1> QED BY <1>2, <1>3

\* The owner never pays more than the call takes.
LEMMA OwnerPart ==
  \A total, limit \in Nat : \A percent \in 0..100 : \A ownerLeft \in Int :
    OwnerPays(total, percent, limit, ownerLeft) \in 0..total
<1> TAKE total, limit \in Nat
<1> TAKE percent \in 0..100
<1> TAKE ownerLeft \in Int
<1> QED BY ShareIsOwners

\* Below the limit of int64 nothing is rounded or saturated.
LEMMA CostIsProduct ==
  ASSUME NEW value \in Nat, NEW price \in Nat
  PROVE  /\ value * price \in Nat
         /\ value * price <= MaxSUN => ToSUN(value, price) = value * price
<1>1. value * price \in Nat BY SMT
<1> QED BY <1>1, PricingAssumption DEF ToSUN, CeilToSUN

LEMMA EstimateIsAmount ==
  ASSUME NEW bytes \in Nat, NEW energy \in Nat, NEW share \in 0..energy,
         NEW available \in [StakedBandwidth: Int, FreeBandwidth: Int, StakedEnergy: Int],
         NEW params \in [EnergyFee: Nat, TransactionFee: Nat, CreateAccountFee: Nat,
                         CreateNewAccountFeeInSystemContract: Nat],
         NEW creates \in BOOLEAN
  PROVE  PriceTransfer([Bandwidth |-> bytes, Energy |-> energy, ContractEnergy |-> share],
                       available, params, creates) \in Int
<1> DEFINE usage == [Bandwidth |-> bytes, Energy |-> energy, ContractEnergy |-> share]
           charges == Charges(usage, available, params, creates)
           short == BillableEnergy(SenderEnergy(energy, share), available.StakedEnergy)
           billed == BillableBandwidth(bytes, available.StakedBandwidth, available.FreeBandwidth)
<1>1. short \in Nat BY DEF BillableEnergy, SenderEnergy
<1>2. billed \in Nat BY DEF BillableBandwidth
<1> HIDE DEF short, billed
<1>3. short * params.EnergyFee \in Int /\ billed * params.TransactionFee \in Int
  BY <1>1, <1>2, CostIsProduct
<1>4. ToSUN(short, params.EnergyFee) \in Int /\ ToSUN(billed, params.TransactionFee) \in Int
  BY <1>3, PricingAssumption DEF ToSUN, CeilToSUN
<1>5. charges.Energy \in Int BY <1>4 DEF Charges, short
<1>6. charges.Bandwidth \in Int BY <1>4 DEF Charges, billed
<1>7. charges.AccountCreation \in Int /\ charges.UnstakedCreation \in Int BY DEF Charges
<1> HIDE DEF charges
<1>8. Total(charges) \in Int BY <1>5, <1>6, <1>7, PricingAssumption DEF Total, Wrap
<1> QED BY <1>8 DEF PriceTransfer, charges

\* priceTransfer charges what the chain settles: the sender's part of the energy
\* less its own, then either the flat fees of a creation or every byte when
\* neither pool covers all of them; for all needs, resources, overdrawn ones
\* included, and prices whose total an int64 holds.
THEOREM EstimateIsSettlement ==
  ASSUME NEW bytes \in Nat, NEW energy \in Nat, NEW share \in 0..energy,
         NEW available \in [StakedBandwidth: Int, FreeBandwidth: Int, StakedEnergy: Int],
         NEW params \in [EnergyFee: Nat, TransactionFee: Nat, CreateAccountFee: Nat,
                         CreateNewAccountFeeInSystemContract: Nat],
         NEW creates \in BOOLEAN,
         Settlement(bytes, energy, share, available, params, creates) <= MaxSUN
  PROVE  PriceTransfer([Bandwidth |-> bytes, Energy |-> energy, ContractEnergy |-> share],
                       available, params, creates)
           = Settlement(bytes, energy, share, available, params, creates)
<1> DEFINE usage == [Bandwidth |-> bytes, Energy |-> energy, ContractEnergy |-> share]
           charges == Charges(usage, available, params, creates)
           short == BillableEnergy(SenderEnergy(energy, share), available.StakedEnergy)
           billed == BillableBandwidth(bytes, available.StakedBandwidth, available.FreeBandwidth)
           burned == EnergyBurn(energy - share, available.StakedEnergy, params.EnergyFee)
           rest == IF creates THEN CreationBurn(bytes, available.StakedBandwidth, params)
                   ELSE BandwidthBurn(bytes, available.StakedBandwidth,
                                      available.FreeBandwidth, params.TransactionFee)
<1>1. short \in Nat /\ burned = short * params.EnergyFee
  <2>1. short = (energy - share) - Lower(energy - share, Positive(available.StakedEnergy))
    BY DEF BillableEnergy, SenderEnergy, Lower, Positive
  <2>2. short \in Nat BY DEF BillableEnergy, SenderEnergy
  <2> QED BY <2>1, <2>2 DEF EnergyBurn
<1>2. billed \in Nat /\ BandwidthBurn(bytes, available.StakedBandwidth, available.FreeBandwidth,
                                     params.TransactionFee) = billed * params.TransactionFee
  <2>1. billed \in Nat BY DEF BillableBandwidth
  <2>2. CASE bytes <= available.StakedBandwidth \/ bytes <= available.FreeBandwidth
    <3>1. billed = 0 BY <2>2 DEF BillableBandwidth
    <3>2. billed * params.TransactionFee = 0 BY <3>1, SMT
    <3> QED BY <2>1, <2>2, <3>2 DEF BandwidthBurn
  <2>3. CASE ~(bytes <= available.StakedBandwidth \/ bytes <= available.FreeBandwidth)
    <3>1. CASE bytes = 0
      <4>1. billed = 0 BY <3>1 DEF BillableBandwidth
      <4> QED BY <2>1, <2>3, <3>1, <4>1 DEF BandwidthBurn
    <3>2. CASE bytes # 0
      <4>1. billed = bytes BY <2>3, <3>2 DEF BillableBandwidth
      <4> QED BY <2>1, <2>3, <4>1 DEF BandwidthBurn
    <3> QED BY <3>1, <3>2
  <2> QED BY <2>2, <2>3
<1> HIDE DEF short, billed
<1>3. burned \in Nat BY <1>1, CostIsProduct
<1>4. billed * params.TransactionFee \in Nat BY <1>2, CostIsProduct
<1>5. burned + rest <= MaxSUN BY DEF Settlement
<1>6. PriceTransfer(usage, available, params, creates) = Total(charges) BY DEF PriceTransfer
<1>7. Settlement(bytes, energy, share, available, params, creates) = burned + rest
  BY DEF Settlement
<1> HIDE DEF burned, rest, charges, usage
<1>8. charges.Energy = ToSUN(short, params.EnergyFee) BY DEF Charges, charges, short, usage
<1>9. CASE creates
  <2>1. rest = CreationBurn(bytes, available.StakedBandwidth, params) BY <1>9 DEF rest
  <2>2. rest = charges.AccountCreation + charges.UnstakedCreation
        /\ charges.AccountCreation \in Nat /\ charges.UnstakedCreation \in Nat
        /\ charges.Bandwidth = 0
    BY <1>9, <2>1 DEF Charges, CreationBurn, CreateAccountNeedsFee, charges, usage
  <2>3. charges.Energy = burned
    <3>1. short * params.EnergyFee <= MaxSUN BY <1>1, <1>3, <1>5, <2>2, PricingAssumption
    <3> QED BY <1>1, <1>8, <3>1, CostIsProduct
  <2>4. Total(charges) = burned + rest
    BY <1>3, <1>5, <2>2, <2>3, PricingAssumption DEF Total, Wrap
  <2> QED BY <1>6, <1>7, <2>4 DEF usage
<1>10. CASE ~creates
  <2>1. rest = billed * params.TransactionFee BY <1>2, <1>10 DEF rest
  <2>2. charges.AccountCreation = 0 /\ charges.UnstakedCreation = 0
    BY <1>10 DEF Charges, charges
  <2>3. charges.Energy = burned
    <3>1. short * params.EnergyFee <= MaxSUN BY <1>1, <1>3, <1>4, <1>5, <2>1, PricingAssumption
    <3> QED BY <1>1, <1>8, <3>1, CostIsProduct
  <2>4. charges.Bandwidth = rest
    <3>1. billed * params.TransactionFee <= MaxSUN BY <1>3, <1>4, <1>5, <2>1, PricingAssumption
    <3>2. charges.Bandwidth = ToSUN(billed, params.TransactionFee)
      BY <1>10 DEF Charges, billed, charges, usage
    <3> QED BY <1>2, <2>1, <3>1, <3>2, CostIsProduct
  <2>5. rest \in Nat BY <1>4, <2>1
  <2>6. Total(charges) = burned + rest
    BY <1>3, <1>5, <2>2, <2>3, <2>4, <2>5, PricingAssumption DEF Total, Wrap
  <2> QED BY <1>6, <1>7, <2>6 DEF usage
<1> QED BY <1>9, <1>10
-----------------------------------------------------------------------------

\* The kinds that take energy.
Calls == {"trc20", "own", "deploy"}

\* Which kinds of estimate get to an RPC.
Routes ==
  /\ at = "build" => kind \notin Activations
  /\ at = "activated" => kind \in {"trx"} \cup Activations
  /\ at = "simulate" => kind \in Calls
  /\ at = "contract" => kind \in {"trc20", "own"}
  /\ at = "owner" => kind = "trc20"
  /\ at = "create" => kind = "system"

\* Everything read was so in a state seen; what is not read is left at zero.
Witnessed ==
  /\ at \in {"params", "resources", "create"} /\ kind \in {"trx"} \cup Activations
       => \E s \in seen : known.created = ~s.exists
  /\ at \in {"params", "resources", "create"} /\ kind \in Activations => known.created
  /\ kind \in Calls => ~known.created
  /\ kind \notin Calls => known.energy = 0
  /\ at \in {"build", "activated", "simulate"} => known.energy = 0
  /\ at \in {"contract", "owner"} => known.energy = CallEnergy
  /\ known.share \in 0..known.energy
  /\ at \in {"params", "resources"} /\ kind = "deploy" => known.energy = CallEnergy
  /\ at = "owner" => \E s \in seen : known.percent = s.parts["Percent"]
  /\ kind # "trc20" => known.share = 0
  /\ at \in {"params", "resources"} /\ kind = "trc20" /\ known.energy # 0 =>
       \E s, t \in seen :
         known.share = OwnerPays(CallEnergy, s.parts["Percent"], OriginEnergyLimit,
                                 t.parts["OriginEnergyLeft"])
  /\ at = "resources" => \E s \in seen : known.price = s.parts["EnergyFee"]
  /\ at = "create" => \E s \in seen : known.fee = ActivationFee(AvailableForDelegate(s))

IInv == TypeOK /\ Routes /\ Witnessed /\ ChargedAtSomeMoment

\* A state put together from values that were read in states seen.
Mixed(e, p, o, f, n) ==
  [exists |-> e.exists,
   parts |-> [q \in Parts |-> CASE q = "Percent" -> p.parts[q]
                                [] q = "OriginEnergyLeft" -> o.parts[q]
                                [] q = "EnergyFee" -> f.parts[q]
                                [] OTHER -> n.parts[q]]]

USE EstimatesAssumption

LEMMA StateTypes ==
  ASSUME NEW s \in States
  PROVE  /\ s.exists \in BOOLEAN
         /\ \A p \in Parts : s.parts[p] \in Values[p] /\ s.parts[p] \in Int
         /\ s.parts["Percent"] \in 0..100
         /\ s.parts["EnergyFee"] \in Nat
         /\ Staked(s) \in Int /\ Free(s) \in Int
         /\ Available(s) \in [StakedBandwidth: Int, FreeBandwidth: Int, StakedEnergy: Int]
<1>1. /\ s.exists \in BOOLEAN
      /\ \A p \in Parts : s.parts[p] \in Values[p]
  BY DEF States
<1>2. \A p \in Parts : Values[p] \in SUBSET Int OBVIOUS
<1>3. \A p \in Parts : s.parts[p] \in Int BY <1>1, <1>2
<1>4. "Percent" \in Parts /\ "EnergyFee" \in Parts /\ "NetUsed" \in Parts
      /\ "FreeNetUsed" \in Parts /\ "EnergyLeft" \in Parts
  BY DEF Parts
<1>5. s.parts["Percent"] \in 0..100 BY <1>1, <1>4
<1>6. s.parts["EnergyFee"] \in Nat BY <1>1, <1>3, <1>4
<1> QED BY <1>1, <1>3, <1>4, <1>5, <1>6 DEF Staked, Free, Available

\* Values read at different moments make up one state seen, if only one part moved.
LEMMA MixedSeen ==
  ASSUME seen \subseteq States, OneMoved,
         NEW e \in seen, NEW p \in seen, NEW o \in seen, NEW f \in seen, NEW n \in seen
  PROVE  Mixed(e, p, o, f, n) \in States /\ Mixed(e, p, o, f, n) \in seen
<1> DEFINE m == Mixed(e, p, o, f, n)
<1>1. \A s \in seen : /\ s = [exists |-> s.exists, parts |-> s.parts]
                      /\ s.parts = [q \in Parts |-> s.parts[q]]
  BY DEF States
<1>2. CASE \A s, t \in seen : s.parts = t.parts
  <2>1. m.parts = e.parts BY <1>1, <1>2 DEF Mixed
  <2>2. m = e BY <1>1, <2>1 DEF Mixed
  <2> QED BY <2>2
<1>3. ASSUME NEW part \in Parts,
             \A s, t \in seen : s.exists = t.exists
                                /\ \A q \in Parts \ {part} : s.parts[q] = t.parts[q]
      PROVE  m \in seen
  <2> DEFINE w == CASE part = "Percent" -> p [] part = "OriginEnergyLeft" -> o
                    [] part = "EnergyFee" -> f [] OTHER -> n
  <2>1. w \in seen OBVIOUS
  <2>2. \A q \in Parts : m.parts[q] = w.parts[q] BY <1>3, <2>1 DEF Mixed
  <2>3. m.exists = w.exists BY <1>3, <2>1 DEF Mixed
  <2>4. m = [exists |-> m.exists, parts |-> [q \in Parts |-> m.parts[q]]] BY DEF Mixed
  <2>5. w = [exists |-> w.exists, parts |-> [q \in Parts |-> w.parts[q]]] BY <1>1, <2>1
  <2>6. m = w
    <3> HIDE DEF m, w
    <3> QED BY <2>2, <2>3, <2>4, <2>5
  <2> QED BY <2>1, <2>6
<1>4. m \in seen BY <1>2, <1>3 DEF OneMoved
<1> QED BY <1>4

\* What the code makes of the values it read is the charge in the mixed state.
LEMMA PriceIsCharge ==
  ASSUME TypeOK, kind \notin Activations,
         NEW n, NEW m \in States, NEW price, price = m.parts["EnergyFee"],
         Available(n) = Available(m),
         known.energy = (IF kind \in Calls THEN CallEnergy ELSE 0),
         known.share = (IF kind = "trc20"
                          THEN OwnerPays(CallEnergy, m.parts["Percent"], OriginEnergyLimit,
                                         m.parts["OriginEnergyLeft"])
                          ELSE 0),
         known.created = (kind = "trx" /\ ~m.exists)
  PROVE  PriceTransfer([Bandwidth |-> Size, Energy |-> known.energy,
                        ContractEnergy |-> known.share],
                       Available(n), ParamsAt(price), known.created)
           = Charge(kind, m)
<1> DEFINE energy == IF kind \in {"trc20", "own", "deploy"} THEN CallEnergy ELSE 0
           part == IF kind # "trc20" THEN 0
                   ELSE OwnerPays(energy, m.parts["Percent"], OriginEnergyLimit,
                                  m.parts["OriginEnergyLeft"])
           creates == kind = "trx" /\ ~m.exists
<1>1. known.energy = energy BY DEF Calls
<1>2. known.share = part BY DEF Calls
<1>3. known.created = creates OBVIOUS
<1>4. Charge(kind, m)
        = Settlement(Size, energy, part, Available(m), ParamsAt(price), creates)
  BY DEF Charge
<1>5. energy \in Nat BY EstimatesAssumption
<1>6. part \in 0..energy
  <2>1. CASE kind = "trc20"
    <3>1. m.parts["Percent"] \in 0..100 /\ m.parts["OriginEnergyLeft"] \in Int
      BY StateTypes DEF Parts
    <3> HIDE DEF energy, creates
    <3>2. OwnerPays(energy, m.parts["Percent"], OriginEnergyLimit, m.parts["OriginEnergyLeft"])
            \in 0..energy
      <4> HIDE DEF part
      <4>1. OriginEnergyLimit \in Nat OBVIOUS
      <4> QED BY <1>5, <3>1, <4>1, OwnerPart
    <3> QED BY <2>1, <3>2
  <2>2. CASE kind # "trc20" BY <1>5, <2>2
  <2> QED BY <2>1, <2>2
<1>7. ParamsAt(price) \in [EnergyFee: Nat, TransactionFee: Nat, CreateAccountFee: Nat,
                           CreateNewAccountFeeInSystemContract: Nat]
  BY StateTypes DEF ParamsAt
<1>8. Available(m) \in [StakedBandwidth: Int, FreeBandwidth: Int, StakedEnergy: Int]
  BY StateTypes
<1>9. creates \in BOOLEAN OBVIOUS
<1>10. Charge(kind, m) <= MaxSUN BY NoSaturation DEF TypeOK
<1> HIDE DEF energy, part, creates
<1> QED BY <1>1, <1>2, <1>3, <1>4, <1>5, <1>6, <1>7, <1>8, <1>9, <1>10, EstimateIsSettlement

\* The chain moving on disturbs nothing read: the moments it was read at stay seen.
LEMMA ChangeKeeps == ASSUME IInv, Change PROVE IInv'
<1>1. at # "idle" /\ outcome = "none" BY DEF IInv, TypeOK, Change
<1>2. /\ UNCHANGED <<kind, at, known, outcome, fee>>
      /\ seen' = seen \cup {chain'} /\ changes' = changes + 1 /\ changes < MaxChanges
  BY DEF Change
<1>3. chain' \in States
  <2>1. chain \in States BY DEF IInv, TypeOK
  <2>2. ASSUME NEW p \in Parts, NEW v \in Values[p], chain' = [chain EXCEPT !.parts[p] = v]
        PROVE  chain' \in States
    <3>1. chain' = [exists |-> chain.exists, parts |-> [chain.parts EXCEPT ![p] = v]]
      BY <2>1, <2>2 DEF States
    <3>2. v \in UNION {Values[q] : q \in Parts} OBVIOUS
    <3>3. [chain.parts EXCEPT ![p] = v] \in [Parts -> UNION {Values[q] : q \in Parts}]
          /\ \A q \in Parts : [chain.parts EXCEPT ![p] = v][q] \in Values[q]
      BY <2>1, <3>2 DEF States
    <3> QED BY <2>1, <3>1, <3>3 DEF States
  <2>3. CASE chain' = [chain EXCEPT !.exists = TRUE]
    BY <2>1, <2>3 DEF States
  <2> QED BY <2>2, <2>3 DEF Change
<1>4. TypeOK' BY <1>2, <1>3 DEF IInv, TypeOK
<1>5. Routes' BY <1>2 DEF IInv, Routes
<1>6. Witnessed'
  BY <1>2 DEF IInv, Witnessed, ActivationFee, AvailableForDelegate, Staked, Free
<1>7. ChargedAtSomeMoment' BY <1>1, <1>2 DEF ChargedAtSomeMoment
<1> QED BY <1>4, <1>5, <1>6, <1>7 DEF IInv

\* The RPCs that bring one value each.
LEMMA BeginKeeps == ASSUME IInv, NEW k \in Kinds, Begin(k) PROVE IInv'
<1>1. TypeOK'
  BY DEF IInv, TypeOK, Begin, Nothing, Locations
<1>2. Routes' BY DEF IInv, Begin, Routes, Activations, Kinds, Calls
<1>3. Witnessed'
  BY EstimatesAssumption DEF IInv, Begin, Witnessed, Nothing
<1>4. ChargedAtSomeMoment' BY DEF Begin, ChargedAtSomeMoment
<1> QED BY <1>1, <1>2, <1>3, <1>4 DEF IInv

LEMMA ReadKeepsCharge ==
  ASSUME IInv, NEW here \in Locations \ {"idle"}, NEW next, NEW knowing, Read(here, next, knowing)
  PROVE  ChargedAtSomeMoment'
BY DEF IInv, TypeOK, Read, ChargedAtSomeMoment

LEMMA BuildKeeps == ASSUME IInv, Build PROVE IInv'
<1>1. ChargedAtSomeMoment' BY ReadKeepsCharge DEF Build, Locations
<1>2. TypeOK' BY DEF IInv, TypeOK, Build, Read, Locations
<1>3. Routes' BY DEF IInv, TypeOK, Routes, Build, Read, Kinds, Activations, Calls
<1>4. Witnessed'
  BY DEF IInv, Witnessed, Build, Read, ActivationFee, AvailableForDelegate, Staked, Free
<1> QED BY <1>1, <1>2, <1>3, <1>4 DEF IInv

LEMMA SimulateKeeps == ASSUME IInv, Simulate PROVE IInv'
<1>1. ChargedAtSomeMoment' BY ReadKeepsCharge DEF Simulate, Locations
<1>2. TypeOK' BY DEF IInv, TypeOK, Simulate, Read, Locations
<1>3. Routes' BY DEF IInv, TypeOK, Routes, Simulate, Read, Kinds, Activations, Calls
<1>4. Witnessed'
  <2>1. kind \in Calls /\ kind \notin {"trx"} \cup Activations
        /\ (at' = "params" <=> kind = "deploy") /\ at' \in {"params", "contract"}
    BY DEF IInv, TypeOK, Routes, Simulate, Read, Calls, Kinds, Activations
  <2>2. known' = [known EXCEPT !.energy = CallEnergy] BY DEF Simulate, Read
  <2> QED BY <2>1, <2>2 DEF IInv, TypeOK, Witnessed, Simulate, Read
<1> QED BY <1>1, <1>2, <1>3, <1>4 DEF IInv

LEMMA ReadContractKeeps == ASSUME IInv, NEW n \in seen, ReadContract(n) PROVE IInv'
<1>1. ChargedAtSomeMoment' BY ReadKeepsCharge DEF ReadContract, Locations
<1>2. n.parts["Percent"] \in 0..100 BY StateTypes DEF IInv, TypeOK
<1>3. TypeOK' BY <1>2 DEF IInv, TypeOK, ReadContract, Read, Locations
<1>4. Routes' BY DEF IInv, TypeOK, Routes, ReadContract, Read
<1>5. Witnessed'
  <2>1. kind \in {"trc20", "own"} /\ kind \notin {"trx"} \cup Activations /\ kind \in Calls
        /\ at' \in {"params", "owner"} /\ (at' = "params" <=> kind = "own")
    BY DEF IInv, Routes, ReadContract, Read, Activations, Calls
  <2>2. known' = [known EXCEPT !.percent = n.parts["Percent"]] /\ n \in seen
        /\ seen' = seen /\ chain' = chain /\ kind' = kind
    BY DEF IInv, TypeOK, ReadContract, Read
  <2> QED BY <2>1, <2>2 DEF IInv, TypeOK, Witnessed, ReadContract, Read
<1> QED BY <1>1, <1>3, <1>4, <1>5 DEF IInv

LEMMA ReadOwnerKeeps == ASSUME IInv, NEW n \in seen, ReadOwner(n) PROVE IInv'
<1>1. ChargedAtSomeMoment' BY ReadKeepsCharge DEF ReadOwner, Locations
<1> DEFINE left == n.parts["OriginEnergyLeft"]
           share == ContractEnergyShare(known.energy, known.percent, OriginEnergyLimit, left)
<1>2. left \in Int BY StateTypes DEF IInv, TypeOK, Parts
<1>3. at = "owner" /\ known.energy = CallEnergy /\ known.percent \in 0..100 /\ CallEnergy \in Nat
  BY EstimatesAssumption DEF IInv, TypeOK, Witnessed, ReadOwner, Read
<1>4. share \in 0..CallEnergy
      /\ share = OwnerPays(CallEnergy, known.percent, OriginEnergyLimit, left)
  <2> HIDE DEF left
  <2>1. OriginEnergyLimit \in Nat BY EstimatesAssumption
  <2> QED BY <1>2, <1>3, <2>1, ShareIsOwners, ZenonT(30)
<1>5. known' = [known EXCEPT !.share = share] /\ at' = "params"
      /\ UNCHANGED <<chain, kind, outcome, fee, seen, changes>>
  BY DEF ReadOwner, Read
<1> HIDE DEF share
<1>6. TypeOK'
  <2>1. known' \in [created: BOOLEAN, energy: {0, CallEnergy}, percent: 0..100,
                    share: 0..CallEnergy, price: Nat, fee: Nat]
    BY <1>4, <1>5 DEF IInv, TypeOK
  <2> QED BY <1>3, <1>5, <2>1 DEF IInv, TypeOK, Locations
<1>7. Routes' BY <1>5 DEF IInv, Routes
<1>8. Witnessed'
  <2>1. kind = "trc20" /\ kind \notin {"trx"} \cup Activations /\ kind \in Calls
    BY <1>3 DEF IInv, Routes, Activations, Calls
  <2>2. PICK s \in seen : known.percent = s.parts["Percent"] BY <1>3 DEF IInv, Witnessed
  <2>3. n \in seen BY DEF IInv, TypeOK
  <2>4. known'.share = OwnerPays(CallEnergy, s.parts["Percent"], OriginEnergyLimit,
                                 n.parts["OriginEnergyLeft"])
    BY <1>4, <1>5, <2>2 DEF IInv, TypeOK
  <2>5. known'.share = share /\ known'.energy = CallEnergy /\ known'.created = known.created
    BY <1>3, <1>5 DEF IInv, TypeOK
  <2> QED BY <1>3, <1>4, <1>5, <2>1, <2>3, <2>4, <2>5 DEF IInv, TypeOK, Witnessed
<1> QED BY <1>1, <1>6, <1>7, <1>8 DEF IInv

LEMMA ReadParamsKeeps == ASSUME IInv, NEW n \in seen, ReadParams(n) PROVE IInv'
<1>1. ChargedAtSomeMoment' BY ReadKeepsCharge DEF ReadParams, Locations
<1>2. n.parts["EnergyFee"] \in Nat /\ n \in seen BY StateTypes DEF IInv, TypeOK
<1>3. TypeOK' BY <1>2 DEF IInv, TypeOK, ReadParams, Read, Locations
<1>4. Routes' BY DEF IInv, Routes, ReadParams, Read
<1>5. Witnessed' BY <1>2 DEF IInv, TypeOK, Witnessed, ReadParams, Read
<1> QED BY <1>1, <1>3, <1>4, <1>5 DEF IInv

LEMMA ResetKeeps == ASSUME IInv, Reset PROVE IInv'
<1>1. ChargedAtSomeMoment' BY ReadKeepsCharge DEF Reset, Locations
<1>2. TypeOK' BY DEF IInv, TypeOK, Reset, Read, Locations
<1>3. Routes' BY DEF IInv, Routes, Reset, Read
<1>4. Witnessed'
  BY DEF IInv, TypeOK, Witnessed, Reset, Read, Activations, Calls
<1> QED BY <1>1, <1>2, <1>3, <1>4 DEF IInv

LEMMA FailKeeps == ASSUME IInv, Fail PROVE IInv'
BY DEF IInv, TypeOK, Routes, Witnessed, ChargedAtSomeMoment, Fail, Return, Locations

LEMMA ReturnKeeps ==
  ASSUME IInv, NEW sun \in Int, Return("fee", sun),
         OneMoved /\ ~Forgot /\ ~Masked => \E s \in seen : sun = Charge(kind, s)
  PROVE  IInv'
<1>1. UNCHANGED <<chain, kind, known, seen, changes>> /\ at' = "idle" /\ fee' = sun
      /\ outcome' = "fee"
  BY DEF Return
<1>2. TypeOK' BY <1>1 DEF IInv, TypeOK, Locations
<1>3. Routes' BY <1>1 DEF Routes
<1>4. Witnessed' BY <1>1 DEF IInv, Witnessed
<1>5. (OneMoved' <=> OneMoved) /\ (Forgot' <=> Forgot) BY <1>1 DEF OneMoved, Forgot
<1>6. Masked' <=> Masked
  BY <1>1 DEF Masked, AvailableForDelegate, Staked, Free
<1>7. \A s \in seen : Charge(kind', s) = Charge(kind, s) BY <1>1
<1>8. ChargedAtSomeMoment' BY <1>1, <1>5, <1>6, <1>7 DEF ChargedAtSomeMoment
<1> QED BY <1>2, <1>3, <1>4, <1>8 DEF IInv

\* The fees of an activation, when free bandwidth masks nothing, are its charge
\* in any state without the receiver that has the same staked bandwidth.
LEMMA ActivationIsCharge ==
  ASSUME kind \in Activations, NEW r \in States, NEW s \in States, ~s.exists,
         AvailableForDelegate(r) = Staked(r), Staked(r) = Staked(s)
  PROVE  /\ ActivationFee(AvailableForDelegate(r)) \in Nat
         /\ Charge(kind, s) = ActivationFee(AvailableForDelegate(r))
<1>1. Staked(r) \in Int BY StateTypes
<1>2. Charge(kind, s) = CreationBurn(Size, Staked(s), ParamsAt(s.parts["EnergyFee"]))
  BY DEF Charge
<1> HIDE DEF Staked
<1> QED BY <1>1, <1>2, EstimatesAssumption DEF CreationBurn, ParamsAt, ActivationFee

LEMMA ActivationFeeType ==
  ASSUME NEW s \in States PROVE ActivationFee(AvailableForDelegate(s)) \in Nat
BY EstimatesAssumption DEF ActivationFee

LEMMA ReadActivatedKeeps == ASSUME IInv, NEW n \in seen, ReadActivated(n) PROVE IInv'
<1>1. CASE kind \in Activations /\ n.exists
  <2>1. Return("fee", 0) BY <1>1 DEF ReadActivated
  <2>2. Charge(kind, n) = 0 /\ n \in seen BY <1>1 DEF Charge, IInv, TypeOK
  <2> QED BY <2>1, <2>2, ReturnKeeps
<1>2. CASE ~(kind \in Activations /\ n.exists)
  <2>1. Read("activated", "params", [known EXCEPT !.created = ~n.exists])
    BY <1>2 DEF ReadActivated
  <2>2. ChargedAtSomeMoment' BY <2>1, ReadKeepsCharge DEF Locations
  <2>3. n \in seen /\ n.exists \in BOOLEAN BY StateTypes DEF IInv, TypeOK
  <2>4. TypeOK' BY <2>1, <2>3 DEF IInv, TypeOK, Read, Locations
  <2>5. Routes' BY <2>1 DEF IInv, Routes, Read
  <2>6. Witnessed'
    <3>1. kind \notin Calls /\ kind # "trc20" /\ kind # "deploy"
      BY <2>1 DEF IInv, TypeOK, Routes, Read, Calls, Activations
    <3> QED BY <1>2, <2>1, <2>3, <3>1 DEF IInv, TypeOK, Witnessed, Read
  <2> QED BY <2>2, <2>4, <2>5, <2>6 DEF IInv
<1> QED BY <1>1, <1>2

LEMMA CreateKeeps == ASSUME IInv, NEW n \in seen, Create(n) PROVE IInv'
<1>1. kind = "system" /\ kind \in Activations /\ n \in seen /\ seen \subseteq States
  BY DEF IInv, TypeOK, Routes, Create, Activations
<1>2. CASE n.exists
  <2>1. Charge(kind, n) = 0 BY <1>1, <1>2 DEF Charge
  <2>2. Return("fee", 0) BY <1>2 DEF Create
  <2> QED BY <1>1, <2>1, <2>2, ReturnKeeps
<1>3. CASE ~n.exists
  <2>1. Return("fee", known.fee) /\ known.fee \in Nat BY <1>3 DEF Create, IInv, TypeOK
  <2>2. PICK r \in seen : known.fee = ActivationFee(AvailableForDelegate(r))
    BY DEF IInv, Witnessed, Create
  <2>3. ASSUME OneMoved, ~Masked PROVE \E s \in seen : known.fee = Charge(kind, s)
    <3>1. AvailableForDelegate(r) = Staked(r) BY <1>1, <2>3 DEF Masked
    <3>2. CASE \A s, t \in seen : s.parts = t.parts
      <4>1. Staked(r) = Staked(n) BY <3>2 DEF Staked
      <4> QED BY <1>1, <1>3, <2>2, <3>1, <4>1, ActivationIsCharge
    <3>3. CASE \A s, t \in seen : s.exists = t.exists
      <4>1. ~r.exists BY <1>3, <3>3
      <4> QED BY <1>1, <2>2, <3>1, <4>1, ActivationIsCharge
    <3> QED BY <2>3, <3>2, <3>3 DEF OneMoved
  <2> QED BY <2>1, <2>3, ReturnKeeps
<1> QED BY <1>2, <1>3

LEMMA ReadResourcesKeeps == ASSUME IInv, NEW n \in seen, ReadResources(n) PROVE IInv'
<1>1. n \in seen /\ seen \subseteq States BY DEF IInv, TypeOK
<1>2. CASE kind = "system"
  <2>1. Read("resources", "create", [known EXCEPT !.fee = ActivationFee(AvailableForDelegate(n))])
    BY <1>2 DEF ReadResources
  <2>2. ChargedAtSomeMoment' BY <2>1, ReadKeepsCharge DEF Locations
  <2>3. ActivationFee(AvailableForDelegate(n)) \in Nat BY <1>1, ActivationFeeType
  <2> DEFINE sun == ActivationFee(AvailableForDelegate(n))
  <2>4. TypeOK'
    <3> HIDE DEF sun
    <3> QED BY <2>1, <2>3 DEF IInv, TypeOK, Read, Locations, sun
  <2>5. Routes' BY <1>2, <2>1 DEF IInv, Routes, Read
  <2>6. Witnessed'
    <3>1. sun = ActivationFee(AvailableForDelegate(n))' BY <2>1
      DEF Read, ActivationFee, AvailableForDelegate, Staked, Free
    <3>2. known'.fee = sun BY <2>1 DEF Read, IInv, TypeOK
    <3>3. \E s \in seen' : known'.fee = ActivationFee(AvailableForDelegate(s))'
      BY <1>1, <2>1, <3>1, <3>2 DEF Read
    <3>4. kind \notin Calls BY <1>2 DEF Calls
    <3> HIDE DEF sun
    <3> QED BY <1>2, <2>1, <3>2, <3>3, <3>4
      DEF IInv, TypeOK, Witnessed, Read, sun, ActivationFee, AvailableForDelegate, Staked, Free
  <2> QED BY <2>2, <2>4, <2>5, <2>6 DEF IInv
<1>3. CASE kind = "activation"
  <2> DEFINE sun == ActivationFee(AvailableForDelegate(n))
  <2>1. Return("fee", sun) /\ at = "resources" BY <1>3 DEF ReadResources
  <2>2. sun \in Int BY <1>1, ActivationFeeType
  <2>3. kind \in Activations BY <1>3 DEF Activations
  <2>4. PICK e \in seen : ~e.exists
    <3>1. PICK e \in seen : known.created = ~e.exists
      BY <2>1, <2>3 DEF IInv, Witnessed
    <3>2. known.created BY <2>1, <2>3 DEF IInv, Witnessed
    <3> QED BY <3>1, <3>2
  <2>5. ASSUME OneMoved, ~Masked PROVE \E s \in seen : sun = Charge(kind, s)
    <3>1. AvailableForDelegate(n) = Staked(n) BY <1>1, <2>3, <2>5 DEF Masked
    <3>2. CASE \A s, t \in seen : s.parts = t.parts
      <4>1. Staked(n) = Staked(e) BY <1>1, <3>2 DEF Staked
      <4> QED BY <1>1, <2>3, <2>4, <3>1, <4>1, ActivationIsCharge
    <3>3. CASE \A s, t \in seen : s.exists = t.exists
      <4>1. ~n.exists BY <1>1, <2>4, <3>3
      <4> QED BY <1>1, <2>3, <3>1, <4>1, ActivationIsCharge
    <3> QED BY <2>5, <3>2, <3>3 DEF OneMoved
  <2> HIDE DEF sun
  <2> QED BY <2>1, <2>2, <2>5, ReturnKeeps
<1>4. CASE kind \notin Activations
  <2> DEFINE sun == PriceTransfer([Bandwidth |-> Size, Energy |-> known.energy,
                                   ContractEnergy |-> known.share],
                                  Available(n), ParamsAt(known.price), known.created)
  <2>1. Return("fee", sun) /\ at = "resources"
    BY <1>4 DEF ReadResources, Activations
  <2>2. PICK f \in seen : known.price = f.parts["EnergyFee"]
    BY <2>1 DEF IInv, Witnessed
  <2>3. sun \in Int
    <3>1. /\ Size \in Nat /\ known.energy \in Nat /\ known.created \in BOOLEAN
          /\ known.share \in 0..known.energy
      BY EstimatesAssumption DEF IInv, TypeOK, Witnessed
    <3>2. Available(n) \in [StakedBandwidth: Int, FreeBandwidth: Int, StakedEnergy: Int]
      BY <1>1, StateTypes
    <3>3. ParamsAt(known.price) \in [EnergyFee: Nat, TransactionFee: Nat, CreateAccountFee: Nat,
                                     CreateNewAccountFeeInSystemContract: Nat]
      BY EstimatesAssumption DEF IInv, TypeOK, ParamsAt
    <3> QED BY <3>1, <3>2, <3>3, EstimateIsAmount
  <2>4. ASSUME OneMoved, ~Forgot PROVE \E s \in seen : sun = Charge(kind, s)
    <3>1. PICK e \in seen : kind = "trx" => known.created = ~e.exists
      BY <1>1, <2>1 DEF IInv, Witnessed
    <3>2. known.energy = (IF kind \in Calls THEN CallEnergy ELSE 0)
      BY <2>1, <2>4 DEF IInv, TypeOK, Witnessed, Forgot, Calls
    <3>3. PICK p \in seen, o \in seen :
            kind = "trc20" => known.share = OwnerPays(CallEnergy, p.parts["Percent"],
                                                      OriginEnergyLimit, o.parts["OriginEnergyLeft"])
      BY <1>1, <2>1, <2>4 DEF IInv, TypeOK, Witnessed, Forgot
    <3> DEFINE m == Mixed(e, p, o, f, n)
    <3>4. m \in States /\ m \in seen BY <1>1, <2>4, MixedSeen
    <3>5. /\ m.exists = e.exists
          /\ m.parts["Percent"] = p.parts["Percent"]
          /\ m.parts["OriginEnergyLeft"] = o.parts["OriginEnergyLeft"]
          /\ m.parts["EnergyFee"] = f.parts["EnergyFee"]
          /\ m.parts["NetUsed"] = n.parts["NetUsed"]
          /\ m.parts["FreeNetUsed"] = n.parts["FreeNetUsed"]
          /\ m.parts["EnergyLeft"] = n.parts["EnergyLeft"]
      BY DEF Mixed, Parts
    <3> HIDE DEF m
    <3>6. Available(n) = Available(m) BY <3>5 DEF Available, Staked, Free
    <3>7. known.share = (IF kind = "trc20"
                           THEN OwnerPays(CallEnergy, m.parts["Percent"], OriginEnergyLimit,
                                          m.parts["OriginEnergyLeft"])
                           ELSE 0)
      BY <3>3, <3>5 DEF IInv, Witnessed
    <3>8. known.created = (kind = "trx" /\ ~m.exists)
      <4>1. CASE kind = "trx" BY <3>1, <3>5, <4>1
      <4>2. CASE kind # "trx"
        <5>1. kind \in Calls BY <1>4, <4>2 DEF IInv, TypeOK, Kinds, Calls
        <5> QED BY <4>2, <5>1 DEF IInv, TypeOK, Witnessed
      <4> QED BY <4>1, <4>2
    <3>9. sun = Charge(kind, m)
      BY <1>4, <2>2, <3>2, <3>4, <3>5, <3>6, <3>7, <3>8, PriceIsCharge DEF IInv
    <3> QED BY <3>4, <3>9
  <2> HIDE DEF sun
  <2> QED BY <2>1, <2>3, <2>4, ReturnKeeps
<1> QED BY <1>2, <1>3, <1>4 DEF IInv, TypeOK, Kinds, Activations

LEMMA StepKeeps == IInv /\ [Next]_vars => IInv'
<1> SUFFICES ASSUME IInv, [Next]_vars PROVE IInv'
  OBVIOUS
<1>1. CASE Change BY <1>1, ChangeKeeps
<1>2. ASSUME NEW k \in Kinds, Begin(k) PROVE IInv' BY <1>2, BeginKeeps
<1>3. CASE Build BY <1>3, BuildKeeps
<1>4. ASSUME NEW n \in seen, ReadActivated(n) PROVE IInv' BY <1>4, ReadActivatedKeeps
<1>5. CASE Simulate BY <1>5, SimulateKeeps
<1>6. ASSUME NEW n \in seen, ReadContract(n) PROVE IInv' BY <1>6, ReadContractKeeps
<1>7. ASSUME NEW n \in seen, ReadOwner(n) PROVE IInv' BY <1>7, ReadOwnerKeeps
<1>8. ASSUME NEW n \in seen, ReadParams(n) PROVE IInv' BY <1>8, ReadParamsKeeps
<1>9. ASSUME NEW n \in seen, ReadResources(n) PROVE IInv' BY <1>9, ReadResourcesKeeps
<1>10. ASSUME NEW n \in seen, Create(n) PROVE IInv' BY <1>10, CreateKeeps
<1>11. CASE Fail BY <1>11, FailKeeps
<1>12. CASE Reset BY <1>12, ResetKeeps
<1>13. CASE UNCHANGED vars
  BY <1>13 DEF IInv, TypeOK, Routes, Witnessed, ChargedAtSomeMoment, OneMoved, Forgot, Masked,
               ActivationFee, AvailableForDelegate, Staked, Free, vars
<1> QED
  BY <1>1, <1>2, <1>3, <1>4, <1>5, <1>6, <1>7, <1>8, <1>9, <1>10, <1>11, <1>12, <1>13 DEF Next

LEMMA InitEstablishes == Init => IInv
BY EstimatesAssumption
  DEF Init, IInv, TypeOK, Routes, Witnessed, ChargedAtSomeMoment, Nothing, Kinds, Locations, Calls

\* Every state of an estimate, whatever the chain and the network do meanwhile.
THEOREM Invariant == Spec => []IInv
BY InitEstablishes, StepKeeps, PTL DEF Spec

\* Every value an estimate passes on has its type: the fee is an integer, shares
\* lie within the energy, and only an idle client has an outcome.
THEOREM TypeCorrect == Spec => []TypeOK
<1>1. IInv => TypeOK BY DEF IInv
<1> QED BY <1>1, Invariant, PTL

\* Whatever the account, the contract and the prices are: an estimate made while
\* only one part of the chain's state moves is what the chain would have charged
\* at a moment of it, unless a connection reset or unused free bandwidth hid
\* something from it.
THEOREM EstimateWasTrue == Spec => []ChargedAtSomeMoment
<1>1. IInv => ChargedAtSomeMoment BY DEF IInv
<1> QED BY <1>1, Invariant, PTL
=============================================================================
