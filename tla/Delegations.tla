----------------------------- MODULE Delegations -----------------------------
(***************************************************************************)
(* GetDelegatedResources(V2): what an account has lent out, read as an     *)
(* index of receivers and then one list of records per receiver, while     *)
(* the account goes on lending and reclaiming (delegationsOut). The pool   *)
(* sends each RPC to a node of its own, and nodes may lag: it sees the     *)
(* chain at any moment since the walk began, perhaps an earlier one than   *)
(* the RPC before it.                                                      *)
(***************************************************************************)
EXTENDS Integers, FiniteSets
LOCAL INSTANCE FiniteSetsExt

CONSTANTS
  Receivers,  \* accounts it may lend to
  Stake,      \* what it may lend of each resource
  MaxMoves    \* bound: moves of the chain during one walk

ASSUME DelegationsAssumption == Stake \in Nat /\ MaxMoves \in Nat

\* A receiver has a record of what may be reclaimed at any time and one of what
\* is locked; each covers both resources.
Records == Receivers \X BOOLEAN
Resources == {"bandwidth", "energy"}
Amounts == [Resources -> Nat]
None == [resource \in Resources |-> 0]

VARIABLES
  lent,     \* the chain: the amounts of every record, locked or not
  index,    \* the chain: the receivers its account index lists
  at,       \* the walk: "idle", "index" before its first RPC, "records" after
  pending,  \* receivers still to be asked about
  result,   \* delegations collected
  outcome,  \* "none", "error" or "list"
  moments,  \* history: the chain at each moment since the walk began
  moves     \* history: how many moves the chain made since

chainVars == <<lent, index>>
vars == <<chainVars, at, pending, result, outcome, moments, moves>>

Chain == [lent |-> lent, index |-> index]

LentOf(l, resource) == MapThenSumSet(LAMBDA k : l[k][resource], Records)
Holders(l) == {r \in Receivers : \E locked \in BOOLEAN : l[<<r, locked>>] # None}

Init ==
  /\ lent \in [Records -> [Resources -> 0..Stake]]
  /\ \A resource \in Resources : LentOf(lent, resource) <= Stake
  /\ index \in {Holders(lent), Receivers}
  /\ at = "idle" /\ pending = {} /\ result = {} /\ outcome = "none"
  /\ moments = {Chain} /\ moves = 0
-----------------------------------------------------------------------------
(* The chain. A receiver is listed as long as it holds something, and may go *)
(* on being listed, with records of nothing.                                 *)
Moved(l, i) ==
  /\ at # "idle" /\ moves < MaxMoves /\ moves' = moves + 1
  /\ lent' = l /\ index' = i /\ moments' = moments \cup {[lent |-> l, index |-> i]}
  /\ UNCHANGED <<at, pending, result, outcome>>

Lend(r, locked, resource) ==
  /\ LentOf(lent, resource) < Stake
  /\ Moved([lent EXCEPT ![<<r, locked>>][resource] = @ + 1], index \cup {r})

Reclaim(r, resource) ==
  /\ lent[<<r, FALSE>>][resource] > 0
  /\ \E i \in {index, index \ {r}} :
       Moved([lent EXCEPT ![<<r, FALSE>>][resource] = @ - 1], i)
  /\ Holders(lent') \subseteq index'

\* A lock expires: what it held may be reclaimed like the rest.
Unlock(r) ==
  /\ lent[<<r, TRUE>>] # None
  /\ Moved([lent EXCEPT ![<<r, TRUE>>] = None,
                         ![<<r, FALSE>>] = [x \in Resources |-> @[x] + lent[<<r, TRUE>>][x]]],
           index)
-----------------------------------------------------------------------------
(* delegationsOut. *)

\* Mutant of Reported: a record is dropped unless it covers both resources.
ReportedIfBoth(l, r) ==
  {[to |-> r, locked |-> k, amounts |-> l[<<r, k>>]] :
     k \in {k \in BOOLEAN : \A resource \in Resources : l[<<r, k>>][resource] > 0}}

\* Mutant of Reported: records of nothing are reported too.
ReportedAll(l, r) ==
  {[to |-> r, locked |-> k, amounts |-> l[<<r, k>>]] : k \in BOOLEAN}

\* The delegations made of r's list; records of nothing are dropped.
Reported(l, r) ==
  {[to |-> r, locked |-> k, amounts |-> l[<<r, k>>]] :
     k \in {k \in BOOLEAN : \E resource \in Resources : l[<<r, k>>][resource] > 0}}

\* A walk begins at the oldest moment that one of the nodes it will ask still
\* shows.
Begin ==
  /\ at = "idle"
  /\ at' = "index" /\ outcome' = "none" /\ result' = {}
  /\ moments' = {Chain} /\ moves' = 0
  /\ UNCHANGED <<chainVars, pending>>

\* A node in state m answers.
ReadIndex(m) ==
  /\ at = "index"
  /\ at' = "records" /\ pending' = m.index
  /\ UNCHANGED <<chainVars, result, outcome, moments, moves>>

\* The index is a list; its order is any.
ReadRecords(m, r) ==
  /\ at = "records" /\ r \in pending
  /\ pending' = pending \ {r}
  /\ result' = result \cup Reported(m.lent, r)
  /\ UNCHANGED <<chainVars, at, outcome, moments, moves>>

Return ==
  /\ at = "records" /\ pending = {}
  /\ at' = "idle" /\ outcome' = "list"
  /\ UNCHANGED <<chainVars, pending, result, moments, moves>>

\* One RPC fails, and with it the whole walk.
Fail ==
  /\ at # "idle"
  /\ at' = "idle" /\ outcome' = "error" /\ result' = {} /\ pending' = {}
  /\ UNCHANGED <<chainVars, moments, moves>>

Next ==
  \/ \E r \in Receivers, resource \in Resources :
       Reclaim(r, resource) \/ \E locked \in BOOLEAN : Lend(r, locked, resource)
  \/ \E r \in Receivers : Unlock(r)
  \/ \E m \in moments : ReadIndex(m) \/ \E r \in Receivers : ReadRecords(m, r)
  \/ Begin \/ Return \/ Fail

Spec == Init /\ [][Next]_vars
-----------------------------------------------------------------------------
\* Every variable has its type; "placeholder entries with nothing delegated ...
\* are dropped rather than reported", and an error comes without delegations.
TypeOK ==
  /\ lent \in [Records -> Amounts] /\ index \subseteq Receivers
  /\ at \in {"idle", "index", "records"} /\ pending \subseteq Receivers
  /\ \A d \in result : d \in [to: Receivers, locked: BOOLEAN, amounts: Amounts \ {None}]
  /\ outcome \in {"none", "error", "list"}
  /\ outcome = "error" => result = {}
  /\ Chain \in moments
  /\ \A m \in moments : m \in [lent: [Records -> Amounts], index: SUBSET Receivers]
  /\ moves \in 0..MaxMoves

\* The walk is no snapshot, but each receiver's part of its answer is all that
\* the receiver held at one moment of the walk: nothing that stood throughout
\* is missed, locked and reclaimable records are not mixed from two moments, no
\* receiver is named who held nothing. (Different receivers may be of different
\* moments: stake moved from one to the other can be reported twice or not at all.)
EachAtSomeMoment ==
  outcome = "list" =>
    \A r \in Receivers : \E m \in moments :
      /\ \A d \in result : d.to = r => d.amounts = m.lent[<<r, d.locked>>]
      /\ \A locked \in BOOLEAN :
           m.lent[<<r, locked>>] # None => \E d \in result : d.to = r /\ d.locked = locked
=============================================================================
