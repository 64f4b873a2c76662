----------------------------- MODULE PoolElection -----------------------------
(***************************************************************************)
(* What the health-aware pool promises about the tier that serves, without *)
(* locks, scans or loops: a process that flips a node owes a publication,  *)
(* the serving tier changes only when somebody publishes, and whoever pays *)
(* the last debt leaves the tier that the documentation of activeTier      *)
(* names. HealthPool implements this module (HealthPool!ElectionSpec).     *)
(***************************************************************************)
EXTENDS Integers

CONSTANTS
  Nodes,   \* the nodes of the pool
  Tier,    \* the tier of every node
  Procs,   \* the goroutines that may flip a node
  NoTier   \* the tier that serves when no node is up

VARIABLES
  up,      \* the nodes that are up
  owed,    \* the processes that have flipped a node and not published since
  tier     \* the tier that serves

vars == <<up, owed, tier>>

TierKeys == {Tier[n] : n \in Nodes}

\* t is the lowest tier with a node of S, or NoTier when S is empty.
Serves(t, S) ==
  \/ /\ \E n \in S : Tier[n] = t
     /\ \A n \in S : t <= Tier[n]
  \/ /\ S = {}
     /\ t = NoTier

Init ==
  /\ up = Nodes
  /\ owed = {}
  /\ Serves(tier, Nodes)

\* p takes n out or brings it back, and owes a publication.
Flip(p, n) ==
  /\ p \notin owed
  /\ up' = IF n \in up THEN up \ {n} ELSE up \cup {n}
  /\ owed' = owed \cup {p}
  /\ UNCHANGED tier

\* p publishes a tier. While others owe, theirs may be the better knowledge and
\* any tier will do.
Publish(p) ==
  /\ p \in owed
  /\ owed' = owed \ {p}
  /\ tier' \in TierKeys \cup {NoTier}
  /\ owed' = {} => Serves(tier', up)
  /\ UNCHANGED up

Next == \E p \in Procs : Publish(p) \/ \E n \in Nodes : Flip(p, n)

Spec == Init /\ [][Next]_vars
=============================================================================
