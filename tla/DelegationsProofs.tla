-------------------------- MODULE DelegationsProofs --------------------------
(***************************************************************************)
(* The answer of delegationsOut, for any receivers, stakes and moves.      *)
(***************************************************************************)
EXTENDS Delegations, TLAPS

\* r's part of the answer so far is what it held in m.
PartAt(r, m) ==
  /\ \A d \in result : d.to = r => d.amounts = m.lent[<<r, d.locked>>]
  /\ \A locked \in BOOLEAN :
       m.lent[<<r, locked>>] # None => \E d \in result : d.to = r /\ d.locked = locked

\* At every moment the index lists every holder, so that a receiver left out of
\* it holds nothing; one still to be asked about has no part in the answer yet.
Complete(m) ==
  \A r \in Receivers : \A locked \in BOOLEAN : m.lent[<<r, locked>>] # None => r \in m.index
Listed == \A m \in moments : Complete(m)
Unread == \A d \in result : d.to \notin pending /\ at # "index"
Read ==
  at = "records" \/ outcome = "list" =>
    \A r \in Receivers \ pending : \E m \in moments : PartAt(r, m)
Idle == at # "records" => pending = {}
Open == at # "idle" => outcome = "none"

IInv == TypeOK /\ Listed /\ Unread /\ Read /\ Idle /\ Open

LEMMA InitIInv == Init => IInv
<1> SUFFICES ASSUME Init PROVE IInv
  OBVIOUS
<1> USE DEF Init
<1>1. lent \in [Records -> Amounts]
  BY DelegationsAssumption DEF Amounts
<1>2. index \subseteq Receivers
  BY DEF Holders
<1>3. \A r \in Receivers : \A locked \in BOOLEAN : lent[<<r, locked>>] # None => r \in index
  BY DEF Holders
<1>4. TypeOK
  BY <1>1, <1>2, DelegationsAssumption DEF TypeOK, Chain
<1>5. Listed
  BY <1>3 DEF Listed, Complete, Chain
<1> QED BY <1>4, <1>5 DEF IInv, Unread, Read, Idle, Open

\* A move of the chain that keeps its types and its index complete disturbs
\* nothing of the walk: the moments only grow.
LEMMA MovedIInv ==
  ASSUME IInv, NEW l \in [Records -> Amounts], NEW i \in SUBSET Receivers, Moved(l, i),
         \A r \in Receivers : \A locked \in BOOLEAN : l[<<r, locked>>] # None => r \in i
  PROVE  IInv'
<1> USE DEF IInv, Moved
<1> DEFINE next == [lent |-> l, index |-> i]
<1>0. next \in [lent: [Records -> Amounts], index: SUBSET Receivers]
      /\ Chain' = next /\ moments' = moments \cup {next} /\ lent' = l /\ index' = i
  BY DEF Chain
<1>1. \A m \in moments' : m \in [lent: [Records -> Amounts], index: SUBSET Receivers]
  BY <1>0 DEF TypeOK
<1>2. moves' \in 0..MaxMoves
  BY DelegationsAssumption DEF TypeOK
<1>3. TypeOK'
  BY <1>0, <1>1, <1>2 DEF TypeOK
<1>4. ASSUME NEW r, NEW m, PartAt(r, m) PROVE PartAt(r, m)'
  BY <1>4 DEF PartAt
<1>5. moments \subseteq moments' /\ pending' = pending /\ at' = at /\ outcome' = outcome
  OBVIOUS
<1>6. Read'
  <2> SUFFICES ASSUME at = "records" \/ outcome = "list", NEW r \in Receivers \ pending
               PROVE  \E m \in moments' : PartAt(r, m)'
    BY <1>5 DEF Read
  <2>1. PICK m \in moments : PartAt(r, m)
    BY DEF Read
  <2> QED BY <2>1, <1>4, <1>5
<1>7. Listed'
  BY <1>0 DEF Listed, Complete
<1> QED BY <1>3, <1>6, <1>7 DEF Unread, Idle, Open

\* What Listed says of the moment that is now.
LEMMA NowListed ==
  ASSUME IInv
  PROVE  /\ lent \in [Records -> Amounts] /\ index \subseteq Receivers
         /\ \A r \in Receivers : \A locked \in BOOLEAN : lent[<<r, locked>>] # None => r \in index
BY DEF IInv, TypeOK, Listed, Complete, Chain

LEMMA LendIInv ==
  ASSUME IInv, NEW r \in Receivers, NEW locked \in BOOLEAN,
         NEW resource \in Resources, Lend(r, locked, resource)
  PROVE  IInv'
<1> DEFINE k == <<r, locked>>
           l == [lent EXCEPT ![k][resource] = @ + 1]
<1>1. k \in Records /\ lent \in [Records -> Amounts]
  BY NowListed DEF Records
<1>2. [lent[k] EXCEPT ![resource] = @ + 1] \in Amounts
  BY <1>1 DEF Amounts
<1>3. l \in [Records -> Amounts]
  BY <1>1, <1>2
<1>4. Moved(l, index \cup {r})
  BY DEF Lend
<1>5. index \cup {r} \subseteq Receivers
  BY NowListed
<1>6. \A q \in Receivers : \A x \in BOOLEAN : q # r => l[<<q, x>>] = lent[<<q, x>>]
  BY <1>1 DEF Records
<1>7. \A q \in Receivers : \A x \in BOOLEAN : l[<<q, x>>] # None => q \in index \cup {r}
  BY <1>6, NowListed
<1> HIDE DEF l
<1> QED BY <1>3, <1>4, <1>5, <1>7, MovedIInv

LEMMA ReclaimIInv ==
  ASSUME IInv, NEW r \in Receivers, NEW resource \in Resources, Reclaim(r, resource)
  PROVE  IInv'
<1> DEFINE k == <<r, FALSE>>
           l == [lent EXCEPT ![k][resource] = @ - 1]
<1>1. k \in Records /\ lent \in [Records -> Amounts]
  BY NowListed DEF Records
<1>2. lent[k] \in [Resources -> Nat] /\ lent[k][resource] - 1 \in Nat
  <2>1. lent[k][resource] > 0
    BY DEF Reclaim
  <2> HIDE DEF k
  <2>2. lent[k] \in [Resources -> Nat]
    BY <1>1 DEF Amounts
  <2>3. lent[k][resource] \in Nat
    BY <2>2
  <2> QED BY <2>1, <2>2, <2>3
<1>3. [lent[k] EXCEPT ![resource] = @ - 1] \in Amounts
  <2> HIDE DEF k
  <2> QED BY <1>2 DEF Amounts
<1>4. l \in [Records -> Amounts]
  BY <1>1, <1>3
<1>5. PICK i \in {index, index \ {r}} : Moved(l, i)
  BY DEF Reclaim
<1>6. lent' = l /\ index' = i /\ i \subseteq Receivers
  BY <1>5, NowListed DEF Moved
<1>7. \A q \in Receivers : \A x \in BOOLEAN : l[<<q, x>>] # None => q \in i
  BY <1>6 DEF Reclaim, Holders
<1> HIDE DEF l
<1> QED BY <1>4, <1>5, <1>6, <1>7, MovedIInv

LEMMA UnlockIInv ==
  ASSUME IInv, NEW r \in Receivers, Unlock(r)
  PROVE  IInv'
<1> DEFINE free == [x \in Resources |-> lent[<<r, FALSE>>][x] + lent[<<r, TRUE>>][x]]
           l == [lent EXCEPT ![<<r, TRUE>>] = None, ![<<r, FALSE>>] = free]
<1>1. <<r, TRUE>> \in Records /\ <<r, FALSE>> \in Records /\ <<r, TRUE>> # <<r, FALSE>>
  BY DEF Records
<1>2. lent \in [Records -> Amounts]
  BY NowListed
<1>3. free \in Amounts /\ None \in Amounts
  BY <1>1, <1>2 DEF Amounts, None
<1>4. l \in [Records -> Amounts]
  <2> HIDE DEF free
  <2> QED BY <1>2, <1>3
<1>5. Moved(l, index)
  BY <1>1, <1>2 DEF Unlock
<1>6. \A q \in Receivers : \A x \in BOOLEAN : q # r => l[<<q, x>>] = lent[<<q, x>>]
  <2> HIDE DEF free
  <2> QED BY <1>2 DEF Records
<1>7. r \in index
  BY NowListed DEF Unlock
<1>8. \A q \in Receivers : \A x \in BOOLEAN : l[<<q, x>>] # None => q \in index
  BY <1>6, <1>7, NowListed
<1> HIDE DEF l
<1> QED BY <1>4, <1>5, <1>8, NowListed, MovedIInv

LEMMA ReadIndexIInv == ASSUME IInv, NEW m \in moments, ReadIndex(m) PROVE IInv'
<1> USE DEF IInv, ReadIndex, chainVars
<1>1. TypeOK'
  BY DEF TypeOK, Chain
<1>2. result = {}
  BY DEF Unread
<1>3. \A r \in Receivers \ m.index : PartAt(r, m)'
  BY <1>2 DEF PartAt, Listed, Complete
<1>4. Read'
  BY <1>3 DEF Read
<1> QED BY <1>1, <1>2, <1>4 DEF Listed, Complete, Unread, Idle, Open

LEMMA ReadRecordsIInv == ASSUME IInv, NEW m \in moments, NEW r \in Receivers, ReadRecords(m, r)
  PROVE  IInv'
<1> USE DEF IInv, ReadRecords, chainVars
<1>0. \A locked \in BOOLEAN : m.lent[<<r, locked>>] \in Amounts
  BY DEF TypeOK, Records
<1>1. \A d \in Reported(m.lent, r) :
        /\ d \in [to: Receivers, locked: BOOLEAN, amounts: Amounts \ {None}]
        /\ d.to = r /\ d.amounts = m.lent[<<r, d.locked>>]
  <2> SUFFICES ASSUME NEW d \in Reported(m.lent, r)
               PROVE  /\ d \in [to: Receivers, locked: BOOLEAN, amounts: Amounts \ {None}]
                      /\ d.to = r /\ d.amounts = m.lent[<<r, d.locked>>]
    OBVIOUS
  <2>1. PICK k \in BOOLEAN :
          /\ \E resource \in Resources : m.lent[<<r, k>>][resource] > 0
          /\ d = [to |-> r, locked |-> k, amounts |-> m.lent[<<r, k>>]]
    BY DEF Reported
  <2>2. m.lent[<<r, k>>] \in Amounts \ {None}
    BY <1>0, <2>1 DEF None
  <2> QED BY <2>1, <2>2
<1>2. \A locked \in BOOLEAN : m.lent[<<r, locked>>] # None =>
        \E d \in Reported(m.lent, r) : d.to = r /\ d.locked = locked
  <2> SUFFICES ASSUME NEW locked \in BOOLEAN, m.lent[<<r, locked>>] # None
               PROVE  [to |-> r, locked |-> locked, amounts |-> m.lent[<<r, locked>>]] \in Reported(m.lent, r)
    OBVIOUS
  <2>1. \E resource \in Resources : m.lent[<<r, locked>>][resource] # 0
    BY <1>0 DEF Amounts, None
  <2>2. \E resource \in Resources : m.lent[<<r, locked>>][resource] > 0
    BY <1>0, <2>1 DEF Amounts
  <2> QED BY <2>2 DEF Reported
<1>3. TypeOK'
  <2>1. \A d \in result' : d \in [to: Receivers, locked: BOOLEAN, amounts: Amounts \ {None}]
    BY <1>1 DEF TypeOK
  <2>2. outcome' # "error"
    BY DEF Open
  <2> QED BY <2>1, <2>2 DEF TypeOK, Chain
<1>4. Unread'
  BY <1>1 DEF Unread
<1>5. \A d \in result : d.to # r
  BY DEF Unread
<1>6. PartAt(r, m)'
  BY <1>1, <1>2, <1>5 DEF PartAt
<1>7. ASSUME NEW q \in Receivers \ pending', q # r PROVE \E n \in moments' : PartAt(q, n)'
  <2>1. PICK n \in moments : PartAt(q, n)
    BY <1>7 DEF Read
  <2> QED BY <2>1, <1>1, <1>7 DEF PartAt
<1>8. Read'
  BY <1>6, <1>7 DEF Read, TypeOK
<1> QED BY <1>3, <1>4, <1>8 DEF Listed, Complete, Idle, Open

LEMMA StepIInv == IInv /\ [Next]_vars => IInv'
<1> SUFFICES ASSUME IInv, [Next]_vars PROVE IInv'
  OBVIOUS
<1>1. CASE Begin
  BY <1>1, DelegationsAssumption
  DEF Begin, IInv, TypeOK, Chain, Listed, Complete, Unread, Read, Idle, Open, PartAt, chainVars
<1>2. CASE Return
  BY <1>2 DEF Return, IInv, TypeOK, Chain, Listed, Complete, Unread, Read, Idle, Open, PartAt, chainVars
<1>3. CASE Fail
  BY <1>3 DEF Fail, IInv, TypeOK, Chain, Listed, Complete, Unread, Read, Idle, Open, PartAt, chainVars
<1>4. CASE UNCHANGED vars
  BY <1>4 DEF vars, IInv, TypeOK, Chain, Listed, Complete, Unread, Read, Idle, Open, PartAt, chainVars
<1> QED
  BY <1>1, <1>2, <1>3, <1>4, LendIInv, ReclaimIInv, UnlockIInv, ReadIndexIInv, ReadRecordsIInv DEF Next

\* Every state of a walk, whatever is lent, locked and reclaimed meanwhile.
THEOREM Invariant == Spec => []IInv
BY InitIInv, StepIInv, PTL DEF Spec

\* What the chain holds and what a walk has gathered of it have their types, and
\* a walk that failed returns no entry.
THEOREM TypeCorrect == Spec => []TypeOK
<1>1. IInv => TypeOK BY DEF IInv
<1> QED BY <1>1, Invariant, PTL

\* Whatever is lent, locked and reclaimed while delegationsOut walks the index,
\* and whatever RPC fails, each receiver's part of the answer is what it held at
\* one moment of the walk.
THEOREM WalkIsRegular == Spec => []EachAtSomeMoment
<1>1. IInv => EachAtSomeMoment
  <2> SUFFICES ASSUME IInv, outcome = "list" PROVE EachAtSomeMoment
    BY DEF IInv, EachAtSomeMoment
  <2>1. pending = {}
    BY DEF IInv, Open, Idle
  <2> QED BY <2>1 DEF IInv, Read, EachAtSomeMoment, PartAt
<1> QED BY <1>1, Invariant, PTL
=============================================================================
