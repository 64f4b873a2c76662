-------------------------- MODULE SelectionHistory --------------------------
(***************************************************************************)
(* HealthPool with a history variable that records, for the next() a       *)
(* caller is in, what the pool looked like while it ran. It observes the   *)
(* specification and never restricts it.                                   *)
(***************************************************************************)
EXTENDS HealthPool

VARIABLE steady  \* per caller: nodes healthy at every moment since next() began

allVars == <<vars, steady>>

\* A caller inside next() goes on observing; any other starts afresh.
InNext(c) == pc[c] \in {"tier", "scan"}

InitH ==
  /\ Init
  /\ steady = [c \in Callers |-> Nodes]

Observe ==
  steady' = [c \in Callers |->
               (IF InNext(c) THEN steady[c] ELSE Nodes) \cap HealthyNodes']

NextH == Next /\ Observe

SpecH == InitH /\ [][NextH]_allVars
-----------------------------------------------------------------------------
\* next() keeps the tier order and ErrNoHealthyNodes honest under races: a
\* node that stayed healthy during the whole scan is never passed over, neither
\* for a node of a higher tier nor for ErrNoHealthyNodes.
NeverSkipsSteadyNode ==
  [][\A c \in Callers :
       /\ pc[c] = "scan" /\ pc'[c] = "call" =>
            \A n \in steady[c] : Tier[target'[c]] <= Tier[n]
       /\ pc[c] = "tier" /\ pc'[c] = "idle" => steady[c] = {}]_allVars
=============================================================================
