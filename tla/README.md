# Formal verification of gotron

TLA+ models of `github.com/sxwebdev/gotron`, a Go client library for the Tron
blockchain, with TLC configurations that check them on small instances and
proofs, checked by TLAPS, that hold for every instance. `PROJECT.json` lists the
components, runs, mutants, findings, hazards and theorems, and maps every
definition to the lines it models.

## 1. The system

A `Client` issues RPCs through a stack of `Transport`s:

    Client -> MetricsTransport (optional) -> HealthAwareTransport  -> gRPC / HTTP transport per node
                                         or RoundRobinTransport

and builds, signs and broadcasts transactions with them.

| Component | State | Operations | What is hard |
|---|---|---|---|
| Health-aware pool (`health.go`) | per node: `healthy`, two run counters, size-1 `notifyCh`; `activeTier`, tier counters, `publishMu`, `stopCh`, `wg`, one timer per loop | `next`, RPC methods, `recordOutcome`, `markSuccess`/`markFailure`, `onStateChange`, `healthCheckLoop`, `probeOnce`, `Close` | callers, loops and closers race; every critical section is short and per node; elections read nodes one by one; wake-ups may be dropped |
| Construction (`client.go`) | transports created so far | `New`, `Close` | failure half way |
| Round robin | counter | `next` | concurrent callers, wrap |
| Metrics | counters, gauges | wrapper methods, `SetPoolHealth` | each call once, refusals included |
| Transaction lifecycle (`transactions.go`, `contract.go`, `transfer.go`, `api_extension.go`) | raw data, txid, signatures | builders, fee limit, `SetData`, `SetPermissionID`, sign, broadcast | legal calls in an order that invalidates what was signed; answers that are lost or refused in two ways |
| Permissions (`account_permissions.go`) | the account's stored permissions (on chain) | `validatePermission*`, `PermissionAllows`, `ValidatePermissionSigner`, `SetPermissionID`, `UpdateAccountPermissions` | accepted updates that lock the account; approvals the chain does not share |
| Transports (`transport_http.go`, `transport_grpc.go`) and error classification (`health_classify.go`, `errors.go`) | none | one RPC each; `isNetworkError` | the same answer arrives in several shapes; a refusal must not pass for an empty answer, nor cost a node its place |
| Estimation (`estimate_*.go`, `activate.go`, `account.go`, `units.go`) | none | six estimates, each several RPCs and a price | values read at different moments; pools, caps, integer limits |
| Resources and delegation (`resources.go`) | none | the walk over an account's delegations; conversions; builders | the account moves its stake during the walk |
| Staking, voting, TRC20, assets, queries | none | builders and lookups | share their checks with the rows above |
| ABI, addresses, keys, generated code | none | pure translation | byte-level data conversion |

What makes each correct: the pool converges to the lowest tier with a healthy
node, never skips a usable node, recovers nodes, probes at the documented
cadence and shuts down cleanly; construction leaks nothing; RPCs are balanced
and counted; only faults of a node cost it its place, and callers are told what
the node did; signatures cover what is sent, an approved signer is accepted by
the chain and no accepted update locks an account; a deployment's address is
final once signed; an estimate is the charge of some moment of the estimate; the
listed delegations are those of some moment of the walk.

## 2. Plan

Most important first. Done:

1. `HealthPool`: the pool with all its interleavings; `SelectionHistory`: what
   `next()` may promise; their proofs.
2. `PoolElection`: the abstract election, refined by `HealthPool`; `NodeHealth`: the
   abstract health of a node, refined by `HealthPool`, `ProbeSchedule` and `Failover`;
   the proofs.
3. `ProbeSchedule`: the cadence of the probes in discrete time; its proofs.
4. `ClientStack`: construction, round robin, metrics; its proofs, with the theory of
   sums they use (`Sums`).
5. `TxLifecycle`: transactions, deployment addresses, permissions; its proofs.
6. `Answers`, driven by `Failover`: transports, the client's checks, error
   classification, and the pool they feed; the proof of eviction.
7. `Pricing`, driven by `Estimates`: who pays what, read while the chain moves;
   their proofs.
8. `Delegations`: the walk over an account's delegations; its proof.

Left:

9. The conversions between stake and resources of `resources.go`, and
   `GetStakeInfo`: arithmetic on one answer.

Not modelled: see the end of section 4.

## 3. Modules

### HealthPool

One process per caller goroutine and per probe loop, with a program counter
`pc`; closers have their own, `closing`. A step is what the code does under one
acquisition of a node's `mu` (or one atomic operation, one channel operation);
everything between two such steps interleaves.

| Code | Actions |
|---|---|
| `next` | `EnterTier` (counter), `ScanNode` (one locked read), `NoHealthyNodes` |
| the RPC, `recordOutcome`; `probeOnce` | `Succeed`, `Fail`, `Ignore` (with `MarkSuccess`, `MarkFailure`) |
| `onStateChange`, `publishPoolMetricsLocked` | `LockPublish`, `Elect`, `Swap`, `CountNode`, `SetPoolHealth`, `Notify`, `UnlockPublish` |
| `healthCheckLoop`, `intervalFor` | `Arm`, `ArmTier`, `Wake`, `Fire`, `Stop` |
| `Close` | `Close`, `AwaitLoops`, `CloseTransport` |

Abstractions. Whether a call or probe succeeds, fails in a way that counts or
fails in a way that does not is any of the three. Run counters saturate at their
thresholds, tier counters are kept modulo the group size (the wrap of the
`uint64` is out of reach). A timer may fire at any moment; `armed` keeps which
interval it was set to. The collector is present and, like the logger, returns;
a transport's `Close` returns. After the stop channel is closed a probe still ends
in any of the three ways (its context is cancelled, but it may just have
finished). The local variables of `onStateChange` are global here because
`publishMu` admits one holder; `OwnerInv` in `HealthPoolProofs` proves it.

### PoolElection and HealthPool!Election

What the pool promises about its tiers, without locks, scans and loops: which
nodes are `up`, which processes have flipped one and `owe` a publication, which
`tier` serves. While somebody owes, a publication may leave any tier; the one that
pays the last debt leaves the lowest tier with a node that is up, or the
sentinel. `HealthPool` implements it under the mapping

| PoolElection | HealthPool |
|---|---|
| `up` | `HealthyNodes` |
| `owed` | processes between their flip and their `activeTier.Swap` |
| `tier` | `activeTier` |
| `Flip(p, n)` | `Succeed` or `Fail` when it flips `n` |
| `Publish(p)` | `Swap` |

and every other step stutters.

### NodeHealth and the three HealthSpec

What `HealthConfig` promises about the place of a node: which nodes are `up`, and for each
the `run` of outcomes of one sort it has seen last, successes above zero and failures
below. A run that reaches its threshold takes the node out or back. Three modules
have the flag and the two counters of `nodeState`, in three settings: `HealthPool` with
racing probes and calls, `ProbeSchedule` in time, `Failover` with classified errors.
All three implement `NodeHealth` (`up` is the healthy nodes, `run` is
`consecutiveSuccess - consecutiveFailure`), so that what is shown in one setting is about
the same node as in the others. An ignored outcome stutters.

### SelectionHistory

`HealthPool` with one history variable: for each caller the nodes that have
stayed healthy since its `next()` began (`steady`).

### ProbeSchedule

The same election and thresholds, but flips are published at once and
`remaining` counts the ticks to each probe. Time passes only when no timer is
due: a loop serves its timer in time. An RPC takes any time: `Call` routes it to a node of
the active tier, `Return` counts its outcome whenever it comes, also when the node has been
evicted or another tier is active by then.

### ClientStack

`New` node by node with a failure at any of them, the two selecting transports,
the metrics wrapper around each RPC, `Close` at any time. `HealthPool` is what
says how the health-aware pool picks; here it picks any node or refuses.

### TxLifecycle

One account and the transaction at hand. Raw data stands for its hash; a
signature is the key and the raw data it was made over. Operations come in any
order; a transaction is not shared by goroutines. An update replaces owner,
witness and actives together. `noted` is the address of a deployment the caller
last asked for, which is a hash over the txid and so stands for all of the raw
data. The chain and the node are external. A broadcast tells its caller at most that a node has
accepted the transaction: `Accept` takes it into the network (`sent`) and may lose the
answer, `Reject` refuses any, one the network has already among them, so that a
`BroadcastError` may be told of an accepted transaction. What a block makes of it, and
whether it ends as OUT_OF_ENERGY there, is in the receipt only and is not part of this
module, except for permission updates: an accepted one is `pending` until `Settle` executes
or drops it. The network checks what the comments
of `account_permissions.go` say java-tron checks, and it does not validate
permission updates again, so that `NeverLockedOut` rests on the client's
validation alone. Names, parent ids, the bytes of the operations bitmap (here a
set of types) and argument checks of the single builders are left out;
`MaxInt64` is a small constant and sums beyond it are refused as in the code.

### Answers and Failover

`Answers` follows one request from what a sound node makes of it (`Deeds`) through
the message or JSON that says so (`Reply`), the transport (`Delivered`) and the
client's own check (`Checked`, one operator per kind) to what the caller is
`Told`. All methods of `Transport` but `GetNodeInfo` are there, in 25 kinds of request. gRPC hands a
message on. Over HTTP every endpoint has one of nine decoding paths (`HttpPath`),
each of which understands part of the node's dialect (`Reads`): hex or base58,
transactions that are not nested, bare lists, bytes under names the translation lists.
`Written` says what a kind of answer is made of: what always comes (`UsuallyWritten`), and
what comes now and then, by deed: `rich` (an account with votes and a name, a witness with a
public key, a contract with a trx_hash, a receipt with an orderId), `cancelling` (a receipt
with a cancel_unfreezeV2_amount, which Tron writes as an array), `spoiled` (a string that is
not the hex or the address it should be). Where the path falls short (`Missed`) the message
arrives with other bytes or without a part (`Translated`), or the transport refuses it
(`Undecodable`): the helper paths refuse a spoiled string, whereas the translated paths keep it
and protojson reads it as base64. Paths also differ in how they tell a refusal, and a node may
answer with a code this build has no name for (`novel`), which the JSON paths read as
SUCCESS, or with an empty message (`mute`). For a node in trouble it gives the error the transport returns, as a record
of the causes `isNetworkError` looks for, and that function's verdict.

`Failover` is the pool over nodes that come into trouble and out of it. Callers
send every kind of request, wait, give up; the verdicts move the counters and
flags of the nodes, the probes do too. Elections are immediate here and the
rotation within a tier is free: `HealthPool` and `ClientStack` have those. `faults`
is a history variable: faults of a node since its last success.

| Code | Actions |
|---|---|
| `next` | `Begin` |
| an RPC, its transport, its client method, `recordOutcome` | `Answer`, `Break`, `GiveUp` |
| `probeOnce` | `Probe` |
| the world | `Change` |

### Pricing and Estimates

`Pricing` has the pure functions of `estimate_transfer.go` and `units.go`
(`billableBandwidth`, `contractEnergyShare`, `priceTransfer`, saturation and the
int64 sum) and, apart from them, what the chain charges (`Settlement`), written
from the comments that describe java-tron.

`Estimates` runs six estimates as the sequences of RPCs they are; `at` is the next
RPC, `known` what has been read. `Change` moves the chain between any two of them:
the receiver is activated, bandwidth or energy is spent or comes back, a price is
voted, the contract's owner changes its percentage. The pool sends every RPC to a node of its
own choice and nodes may lag, so that an RPC reads any of the states `seen` since the
estimate began, not necessarily the latest, and a later RPC may read an earlier state. An
estimate begins at the oldest state that one of its nodes still shows. `Fail` is an RPC that
fails, `Reset` the connection reset that the TRC20 estimate lets pass. A call of the sender's own contract
and of one that names no owner are one kind: both leave everything to the caller. The three RPCs of
`AvailableForDelegateResources` are one read, of the account's resources: what the other two
tell is the yield of the account's own stake, which is the constant `NetLimit`.

### Delegations

`delegationsOut`: the index, then one list of records per receiver, while the
account lends, reclaims and locks expire. A receiver has a reclaimable and a
locked record, each over both resources; records of nothing may be listed and are
dropped. Here too each RPC may be answered by another node and shows any of the `moments`, a
history variable, since the oldest one a node still showed when the walk began.

### MC modules

`MCHealthPool`, `MCSelection`, `MCProbeSchedule`, `MCFailover`, `MCEstimates` and
`MCTxLifecycle` define the tiers, protocols, chain values and permissions of the
instances, and in `MCSelection` the symmetry of callers, who are interchangeable
(only safety is checked under symmetry).

### Mutants

A definition named `XSomething` with the comment "Mutant of X" right before `X`
is a plausible bug; each property of a passing run fails when its mutant
replaces `X`. No specification uses them.

## 4. Runs

| Run | Instance | Shows |
|---|---|---|
| HealthPoolProbes | 2 nodes in 2 tiers, loops, 1 caller, thresholds 2/2 | `TypeOK`, `ThresholdInv`, `Converged`, `NoLostWakeup`, the refinements `ElectionSpec` and `HealthSpec` |
| HealthPoolClose | 2 nodes in 2 tiers, loops, 2 closers, thresholds 1/2, fair | `ClosedAfterLoops`, `CloseReturns`, `FlipPublished`, `Recovery` |
| Selection | 3 nodes in 2 tiers, 3 callers, no loops | `NeverSkipsSteadyNode` with three racing publishers |
| ProbeSchedule | 3 nodes in 2 tiers, intervals 2/1/4 ticks, up to 2 RPCs in flight per node | `TypeOK`, `ActiveProbedInTime`, `OutageProbedTightly`, `ProbedWhileStable`, the refinement `HealthSpec` |
| ClientStack | 3 nodes, 2 callers, 8 RPCs, counter range 7, either selecting transport | `TypeOK`, `NothingLeaks`, `RoundRobinBalanced`, `CallsAccounted` |
| TxLifecycle | 2 keys, 3 contract types, 1 active slot, at most 2 signatures, 1 update pending | `TypeOK`, `SignaturesCover`, `ApprovedSignerSuffices`, `NeverLockedOut`, `PaidOnce`, `DeployedWhereNoted` |
| Failover | a gRPC primary, an HTTP fallback, 1 caller, 3 kinds of trouble, thresholds 2/2, fair | `AnswerIsFaithful`, `OnlyFaultsEvict`, `SettlesOnSound`, the refinement `HealthSpec` |
| Estimates | six estimates from every state of the chain, 2 changes, nodes that lag | `TypeOK`, `ChargedAtSomeMoment` |
| Delegations | 2 receivers, 2 units of each resource, 3 moves | `TypeOK`, `EachAtSomeMoment` |
| ProbeScheduleStarved, ReceiptLost, ActivationFee | as ProbeSchedule (2 nodes), Failover, Estimates | disagreements, see below |

Bounds. Three processes are enough for the races of the pool: one publishes, one
waits for the lock, one flips a node the first has read; two nodes per tier are
needed for the rotation and two tiers for a shift. A fallback configured first
tells the order of `h.nodes` from the order of the tiers. Thresholds of 2 are the
defaults; 1 makes every outcome a flip. The counter range of 7 is no multiple of
three nodes, so the run goes past a wrap that breaks the rotation. One active
slot with requests for two tells the count check from its off-by-one; two keys
give solo, joint and duplicate signing; a witness permission comes in three
shapes with one owner and one list of actives, since nothing it carries bears on
theirs. `MaxSignatures`, `MaxPending` and `MaxCalls` only bound the state space; two RPCs in
flight let one node see two late outcomes, which reach a threshold by themselves. In
`ClientStack` the type invariant carries a claim of its own: no node is picked more often
than RPCs were begun (`picks`), which a retry behind the caller's back would break. The
rotation's counter and the pick of the node are one step there; the balance does not depend on
what other callers do in between.

`Failover` has one node per protocol and of the troubles one the classifier
recognises by the connection, one by the code of the answer and one it does not
count: a stalled node differs from a caller's expired deadline (`GiveUp`) in
nothing the pool sees, and a garbled answer from a barred one in nothing its
health sees. One caller is enough, since calls of several meet in the counters
only and probes interleave there already. What a caller was told is forgotten
when its next request begins.

`Estimates`: the values give every bandwidth situation (both pools cover the
transaction, one or the other, only both together), energy that covers
a part or is overdrawn, and an owner's share that is nothing by its percentage or
cut by its limit or by its energy. All bandwidth is the sender's own stake; nothing is
delegated in. The chain moves only during an estimate, as `Init` ranges over all
its states, and twice, which lets a value change and change back. No charge
comes near `MaxSUN` (`NoSaturation`, evaluated by TLC). `Delegations` starts from any
records too; three moves let stake leave one receiver, reach another and come back during
one walk.

Deadlock is checked in all runs where the system cannot stop for good; it is
switched off where it can: a closed pool without callers (`HealthPoolClose`, whose
liveness properties say that nothing is stuck), clients that have used up
`MaxCalls` (`ClientStack`).

Fairness (`HealthPool!Fairness`): goroutines that can run do run (weak fairness);
a Go mutex in starvation mode hands itself to the longest waiter (strong
fairness of `LockPublish`); `select` chooses uniformly among ready cases (strong
fairness of `Stop`); a probe ends because of its timeout and its cancelled
context. Nothing is assumed of a live RPC, which may hang, or of timers, which
may be reset for ever. `ProbeSchedule!FairSpec` lets time pass and due timers be
served; `Failover!FairSpec` lets every node be probed again and again and assumes
nothing of callers. A tier that keeps shifting can postpone a probe for ever
(`ProbeScheduleStarved`), but `SettlesOnSound` presumes a world that comes to rest, in
which a node flips finitely often and timers are no longer reset. `Recovery`
presumes a pool that is not being closed. Both are premises of the properties.

### Disagreements with the documentation

Three are runs that TLC finds violated.

* `ProbeScheduleStarved`: the checker "probes every node periodically"
  (`health.go:40`), but each tier shift restarts every timer: a primary that
  flaps within the fallback's interval (5 minutes by default) keeps the fallback
  from ever being probed. The run uses the default ratio of the intervals.
* `ReceiptLost`: "GetTransactionInfoByHash returns transaction receipt by hash"
  (`transactions.go:40`), but the HTTP transport decodes the receipt with protojson,
  which reads its hex id as base64 (`transport_http.go:1135`); the client's
  comparison of ids then fails and a receipt that is there is reported missing.
* `ActivationFee`: for an activation "free daily quota and bandwidth received via
  delegation do NOT count" (`activate.go:53`), but the bandwidth compared is the
  sum of both pools capped by the stake (`activate.go:57`), so that an unused free
  allowance hides a staked pool that is used up.

Others were met while modelling and are left at a remark, since the properties
state what does hold:

* "UnhealthyInterval is the probe interval for any unhealthy node, regardless of
  tier" (`config.go:115`): a node evicted by live calls keeps the timer armed while it
  was healthy unless the active tier shifts.
* `ErrNoHealthyNodes` "when no node in any tier is currently marked healthy"
  (`errors.go:170`): the scan is no snapshot.
* The in-flight gauge (`README.md:741` of the repository) is never moved.
* A refusal to build is a `ContractValidateError` (`errors.go:52`): `transfer.go`, `account.go`
  and two builders in `contract.go` return an untyped error over gRPC, and the latter hand
  on an empty message as a transaction.
* Over HTTP `GetTransactionById` (`transport_http.go:1122`) and `ListNodes`
  (`:1916`) are decoded by protojson alone, so hex and host names come back as
  other bytes and a transaction loses its contract's parameter, whose type protojson
  does not find. Blocks, contracts and lists of receipts go through the translation, whose
  list of bytes fields (`:146`) lacks `ref_block_bytes`, `ref_block_hash`, `trx_hash` and `orderId`:
  these come back as other bytes, and so does every string that is not the hex it should
  be (`:97`, `:124`). An account loses what `httpAccount` (`:655`) does not name, a constant call its
  transaction (`:1269`), a receipt with a cancel_unfreezeV2_amount does not decode at all, and a refused
  energy estimate whose code has no name in this build (`:1189`) passes for an empty one.
  `AnswerIsFaithful` expects each of these, one by one, where `Lapses` lists it, and the
  honest answer everywhere else.
* "contract not found" (`contract.go:433`) and the other checks for a nil answer
  cannot be reached: no transport answers nil without an error, and an unknown
  contract is an empty message, as it is for blocks and assets.
* A TRC20 estimate whose constant call meets a connection reset goes on with no
  energy (`estimate_transfer.go:290`), and so comes out short; `ChargedAtSomeMoment`
  leaves it out (`Forgot`), and the activations above (`Masked`).

### Not modelled

Generated protobuf code, which is three quarters of the repository's lines:
the models speak of messages by what their fields mean. Byte conversions
(base58check, hashes, ABI, hex and JSON field by field, key derivation, the fake
transactions that give a size): pure functions on long strings, whose small
instances say nothing that the unit tests beside them do not, and whose
correctness for all inputs needs induction over data. The RPC wrappers of each transport
are the same few lines over and over and are modelled once, by kind; the bodies of
their requests, which copy arguments into JSON, are not.
`GetStakeInfo`, formatting and parsing of amounts: one answer in, one value out.
Logging, histograms. TLS and connection state belong to grpc-go and net/http,
which are external: their errors enter through `Causes`.

## 5. Proofs

`HealthPoolProofs` (which extends `SelectionHistory`), for every number of nodes, assignment of tiers, set of callers and closers, and thresholds:

* `TypeCorrect`: `Spec => []TypeOK`. `gauge` and `tally` in `0..N` is not
  inductive by itself: it needs that the tally counts only visited nodes, hence
  the lock discipline below. `Typing` proves the rest first.
* `ThresholdsKept`: `ThresholdInv` is inductive given the types.
* `PublishExclusive`: `publishMu = p` exactly when `p` is between its lock and
  its unlock. All later arguments about `visited`, `newActive`, `oldActive` and
  `tally` rest on it.
* `ActiveTierConverges`: `Converged` talks about the moment when nobody is
  publishing; its strengthening says, for each position of the publisher, what
  the nodes already read look like unless another process has flipped one and
  is therefore still to publish. The last publisher's reads are thus current.
* `WakeupsKept`: `NoLostWakeup`, strengthened with what a loop between reading
  its health and arming its timer may rely on.
* `CloseWaitsForLoops`: `ClosedAfterLoops`, from "a closer past its wait has seen
  every loop done, and a loop that is done stays so".
* `SteadyNodeNeverSkipped`: `SpecH => NeverSkipsSteadyNode`: what a scan has
  ruled out was unhealthy at some moment of the scan, and the order of the scan
  is the order of the tiers.
* `PoolImplementsElection`: `Spec => ElectionSpec`. An outcome maps to `Flip` or a
  stutter, `Swap` to `Publish`; that the last debtor's tier is the right one is the
  strengthened invariant behind `ActiveTierConverges`.
* `PoolImplementsHealth`: `Spec => HealthSpec`. Nodes change by `MarkSuccess` and
  `MarkFailure` only (`OnlyMarksChangeNodes`), which are the two steps of `NodeHealth` because
  at most one of the two counters is above zero (`ThresholdsKept`).

`FailoverProofs`, for any nodes, tiers, protocols, troubles, callers and thresholds:

* `TypeCorrect`: `TypeOK` is inductive: a node stays healthy only while its failures
  are short of the threshold because reaching it flips the node.
* `EvictionByFaults`: inductive is that the failures counted never exceed the
  faults; each kind of step then needs only that an error which was no fault (a
  refusal, a cancelled context) is not taken for a network error (`InnocentErrors`).
* `AnswersFaithful`: `Spec => []AnswerIsFaithful`. `HttpPaths` says that each request
  has one way through the HTTP transport, `MissedByOp` and `MissedByDeed` what that way does
  not understand of an answer, `UndecodableDeeds` which answers it therefore refuses. With
  these each of the deeds of a sound node is followed through the transport and the client's
  check to what the caller is told (`DoneRight`, `NothingRight`, `RefusedRight`, `SpoiledRight`,
  ...), one lemma per kind of deed; `ToldFaithfully` puts them together and `StepHeard` says
  that nothing else changes what a caller was told. "Right" is `Expected`: the honest answer,
  or the one `Lapses` names for that request, deed and transport (section 4).
* `FailoverImplementsHealth`: `Spec => HealthSpec`, from the types and the invariant that
  one of the two counters is zero (`Streaks`).
* `NoticedByError`: `isNetworkError` counts the errors of exactly the troubles that
  `SettlesOnSound` calls noticed. `ConditionsTell`, the safety half of `SettlesOnSound`: no step
  brings back a node in noticed trouble or forgets its failures, no step but a caller's
  giving up takes out a sound one or forgets its successes, and each probe moves the
  node or counts one more. What is left to TLC is that there are enough probes.

`ProbeScheduleProofs`: `TypeCorrect`, `ActiveInTime`, `OutageTight`, `NobodyPostponed` and
`ScheduleImplementsHealth`, for any nodes, tiers, thresholds and intervals. Inductive are the types, that `activeTier` is
the one due (`IsElected`), and that the timers of the active tier are short
(`ActiveTimersShort`): a tier becomes the active one by a shift, which re-arms every timer, and
while it is, each of its nodes, healthy or not, is armed with one of the two short intervals; a node evicted
or readmitted by a call keeps the timer it has. `ActiveInTime` concludes for any pool that probes
unhealthy nodes at least as often as healthy ones (`UnhealthyInterval <= HealthyInterval`, which the
defaults meet and `withDefaults` does not enforce). That the election always has an outcome (`ElectionExists`) is an argument
by the first number of nodes for which it would have none. `OutageTight`
assumes that no node has the tier -1: with one, going dark is no shift and re-arms
nothing. `NobodyPostponed` is the safety half of `ProbedWhileStable`: while the active tier
stays, a node's timer is put off by its own probe only and runs down with each tick.

`ClientStackProofs`: `TypeCorrect`, `NothingLeaksEver` and `RotationIsFair`, for any
nodes, callers (finitely many or not) and ranges of the counter. The rotation is fair because
before its wrap the counter says exactly how the picks are spread: `q` full rounds and `r` more
nodes (`Rounds`). The bounds of the types need that picks and waiting callers
together do not exceed the RPCs begun (`Routed`). `AccountsBalance` (`CallsAccounted`) rests on
`Answered`: the successes recorded and the RPCs that are at a node are together no more
than the sum of all picks, since an RPC gets to a node only by being picked and leaves it
with one record.

`Sums`: what the sums of the models (`SumFunction`, a fold that takes the elements
of a finite set in an order of its choosing) come to, whatever that order: nothing
on the empty set, the sum of the rest plus the value of any one element
(`SumPicks`), one more when one value is one more (`SumIncrement`), the same after
a bijective renaming (`SumRenamed`). The fold is by definition some function on the
subsets that meets its recursion; that there is one (`SumsExist`) and that it is
unique are inductions on the inclusion of subsets of a finite set. The induction is
`SubsetInduction`: a nonempty set of subsets has a member with no proper subset in it, which
follows from the library's theorem on well-founded relations and speaks of a set,
not of an operator, so that the provers can use it.

`EstimatesProofs`: `ShareIsOwners` and `EstimateIsSettlement`, statements about the
functions of `Pricing` for all amounts, resources (overdrawn ones included) and
prices whose charge does not exceed `MaxSUN`; then `TypeCorrect` and `EstimateWasTrue`, for any chain values and any number of
changes. The invariant `Witnessed` says of every value read in which state seen it
was so, whichever node showed it. At the return these states are put together into one (`Mixed`), which is
itself among those seen because only one part has moved (`MixedSeen`), and
`EstimateIsSettlement` does the rest.

`DelegationsProofs`: `TypeCorrect` and `WalkIsRegular`, for any receivers, stakes and moves. The
invariant says that every receiver already asked about has a moment its part of
the answer is of (`Read`), that at each moment those outside the index hold nothing (`Listed`) and
that those to be asked have no part yet (`Unread`); moves only add moments.

`TxLifecycleProofs`, for any keys, types, ids, requests and weights. One invariant
(`IInv`): signatures are over the raw data as it is or as it was before its memo
(`IsTx`), which is what keeps `SetPermissionID` harmless; a noted address of a signed
transaction is that of its raw data as long as its first signature is (`NotedOK`); what the
network took in of a transaction is the raw data its first signature is over (`SentOK`); an
update at hand or pending was let through by `validatePermissionUpdate` (`IsRaw`, `PendingOK`), and so is
every stored permission valid (`Stored`). It gives

* `TypeCorrect`, `SignaturesStayValid` and `AddressIsFinal`;
* `PaysOnce` (`PaidOnce`): the first signature stays with a transaction for good, and the network
  takes in only what every signature is over (`AcceptedIsFirstSigned`): whatever a caller edits
  and signs after a lost answer, a second raw data is never accepted beside the first;
* `AccountStaysUsable` (`NeverLockedOut`): `validatePermission` sums the weights of
  the *entries* of a permission, whereas a signer counts once with the weight of its
  first entry. As no address is listed twice the two sums are the same, by the
  renaming of `Sums` (`ValidIsReachable`), and the threshold is within reach;
* `ApprovalIsPromise` (`ApprovedSignerSuffices`): with the invariant `ApprovalStands`, that
  an approval was given for the permissions as they are (`Settle` clears it when it executes an update), the
  permission the chain finds is the one approved, and its signer's weight alone
  reaches the threshold (`ApprovalIsEnough`).

The assumptions are the named ones of the modules: `PoolAssumption`,
`ScheduleAssumption`, `StackAssumption`,
`FailoverAssumption` (what `withDefaults` and the constructor guarantee),
`PricingAssumption`, `EstimatesAssumption` (amounts are naturals, percentages within
0..100), `NoSaturation` (no charge of an instance exceeds an int64),
`DelegationsAssumption` and `LifecycleAssumption` (requests are of the type of
`AccountPermissionUpdateRequest`, and types are divided among builders). TLC evaluates each in the runs of its
module.

Every safety property of the passing runs is proved (`OutageProbedTightly` for tiers
other than -1, `ActiveProbedInTime` for unhealthy nodes probed at least as often as healthy ones). Model-checked only are the
liveness properties: `CloseReturns`, `FlipPublished`, `Recovery`, `ProbedWhileStable`
and `SettlesOnSound`, since fairness and ENABLED are out of the prover's reach. The
three disagreements are counterexamples, which TLC finds.
