# Verification of base-std

TLA+ models of the B20 token standard of Base, of its live smoke test (client,
harness and the scripts it plays) and of the scripts developers run locally, TLC
configurations that check them on small instances, and TLAPS proofs of what
matters most for every size.

On Base the standard runs as native precompiles. This repository holds their
interfaces (`src/interfaces`) and a complete reference implementation in
Solidity (`test/lib/mocks`) that the repository's own unit tests, fork tests and
smoke test compare the precompiles with. "The code" below is that reference
implementation, and the Python of `script`.

Check a run with `tlc -config MCB20.cfg MCB20` (the table of runs names
module and configuration of each), a proof with `tlapm <Module>.tla`.

## 1. The system

```
            createB20 + initCalls                 policyExists, isAuthorized
  creator -----> B20Factory -----> B20 token --------------------> PolicyRegistry
                    |              |  roles, pauses, lanes, cap        ^
                    | checkActivated  (asset: multiplier,              | lists, composites,
                    v              |   announcements, batch mint)      | admin handover
             ActivationRegistry  holders, spenders,                policy admins
                                 issuers, admins

  smoke test: journeys -> Chain (nonces, receipts) -> ConsistentHTTPProvider
                -> load balancer -> nodes that lag behind each other

  local scripts: mutate.py -> source tree -> forge;  check-coverage.py -> lcov.info
                 fork runner -> port, anvil -> forge
```

In the contracts, every call is a transaction: it happens at once or reverts and changes nothing.
There are no background processes, locks or messages. What makes them hard is the *order of calls of mutually suspicious accounts*:
an admin of one policy edits a list between another account's approval and a
third account's spending; a nomination staged a year ago is finalized; the last
admin leaves; time passes an effective moment that nobody has written down. The smoke test is
one serial program that talks to a *distributed* chain through a load balancer,
so every answer it gets may come from another node with another past. Its
journeys are long scripts over one token, played on whatever fork the chain is at
and next to other users. The local scripts share files, a report and a port with
the rest of the machine and can be killed between any two steps.

| Component | State | Operations | Hard parts | What makes it correct |
|---|---|---|---|---|
| Policy registry (`MockPolicyRegistry`) | per id: exists, admin, nominee, list, children; a 56-bit counter; built-ins written lazily | create (empty, with accounts, composite), stage/finalize/renounce admin, allowlist and blocklist updates, composite update; `isAuthorized`, `policyExists` | two-step handover against renunciation; ids that are predictable before they exist; inversion bit; composites that read other admins' lists live | ids never disappear, renounced policies never change, only nominees take over, verdicts of id and inverse complement each other |
| B20 access control (`MockB20`) | role members, role admins, admin count, bootstrap flag | grant, revoke, renounce, renounce last admin, set role admin | the count is stored apart from the members; arbitrary graphs of role admins; a window in which the factory passes every gate | the count is exact, only the last admin itself can leave a token adminless, adminless and retired are for ever |
| B20 units and rules (`MockB20`) | balances, allowances, supply, cap, pauses, six policy lanes | transfer(From), approve, mint, burn, burnBlocked, seize, their memo variants, pause, unpause, updatePolicy, updateSupplyCap | unchecked additions, self-transfer, the executor/sender shortcut, lanes changing between approval and spending, bootstrap privileges | units conserved and capped, nobody loses units except by right, nobody gains them except past the lanes, pauses hold |
| B20 permit (`MockB20`) | nonces | permit | replay, rename of the signing domain, permits inside a transaction that is undone | a permit takes effect once, in order, under the name and nonce it was signed for |
| Asset multiplier (`MockB20Asset`) | stored multiplier, one pending change packed in 192 bits | updateUIMultiplier, updateMultiplier, cancelUIMultiplierUpdate | changes take effect by the clock, no transaction writes them; a matured change must be folded in or dropped by whoever comes next | the token follows an abstract timeline; an indexer of events alone knows the value at all times |
| Asset amounts (`MockB20Asset`) | none | toUIAmount, fromUIAmount, balanceOfUI, totalSupplyUI | rounding twice, overflow in a checked product | reads never revert, round trips never gain, the UI supply covers the UI balances |
| Asset announcements, batch mint, extra metadata | used announcement ids, the flag of a running announcement, strings | announce, batchMint, updateExtraMetadata | inner calls by delegatecall; one failing element of several | all or nothing, no nesting, ids once, no borrowed rights |
| Factory (`MockB20Factory`) | code at token addresses | createB20 | a failing initCall; activation gates; the order of parameter checks | nothing left of a failed creation |
| Activation registry | one boolean per feature, a fixed admin | activate, deactivate | asked at creation only | no new token of an inactive feature, existing ones unaffected |
| Smoke test client (`script/smoke`: `provider.py`, `chain.py`, `__main__.py`) | high-water block, sticky connection, nonces | pinned reads, sends, receipts, next check, next journey | a pool of nodes at different heights; the connection drops at any time; a broadcast that fails after the node got it; a node that never catches up | reads observe the journey's own writes, nonces go up and leave no gap, requests end |
| Smoke test runner and journeys (`__main__.py`, assertions of `chain.py`, `journeys/`) | todo list, step of the script, locals and flags, receipts, findings, results | connect, fund, activation check, every send, assertion and probe, collected failures, verdict | forks with different selectors; strangers, upgrades and node failures in the middle; checks that accept too much | no false alarm, a pass means something, skips are earned, the run ends |
| Local scripts (`mutate.py`, `check-coverage.py`, `fork/__main__.py`) | the mock files and a backup; the coverage report; the port and the anvil | campaign, gate, fork run | hang, kill, crash, edits and listeners of others between two steps | nothing is left behind, exit codes mean what they say |
| BaseTime, encoders, constants | - | - | - | see section 8 |

The hazards are listed one by one, with their lines, in `PROJECT.json`.

## 2. Modules

| Module | Models | Extends |
|---|---|---|
| `PolicyOracle` | abstract: what the registry promises its tokens - a growing set of known ids with verdicts, some of them sealed | |
| `PolicyRegistry` | `MockPolicyRegistry.sol`, every function | |
| `MCPolicyRegistry` | finite instance and symmetry | `PolicyRegistry` |
| `PolicyRegistryProofs` | inductive invariant and theorems | `PolicyRegistry` |
| `B20Roles` | access control and bootstrap window of `MockB20.sol` | |
| `B20` | units, lanes, pauses and cap of `MockB20.sol`; **composes** `B20Roles` with `PolicyOracle` | both |
| `MCB20` | four slices of `B20` for TLC | `B20` |
| `B20Proofs` | inductive invariants and theorems about `B20Roles` and about all of `B20` | `B20` |
| `B20Calls` | transactions of several calls: `createB20` with its initCalls, `announce`, `batchMint`, permits inside any of them, the activation registry between them, and the undoing of all of it | |
| `MCB20Calls`, `B20CallsProofs` | instance; theorems | `B20Calls` |
| `MultiplierTimeline` | abstract: a value in force, at most one change ahead, a clock | |
| `Multiplier` | the scheduled multiplier of `MockB20Asset.sol` and an indexer of its events | |
| `MCMultiplier`, `MultiplierProofs` | instance; theorems | `Multiplier` |
| `ScaledAmounts` | the conversions of `MockB20Asset.sol` | |
| `ScaledAmountsProofs` | theorems about them | `ScaledAmounts` |
| `SmokeClient` | `ConsistentHTTPProvider`, `Chain` and the runner, with the pool, mempool and network they talk to as external actions | |
| `SmokeClientProofs` | inductive invariant and theorems | `SmokeClient` |
| `B20Chain` | registry, factory and tokens as one value and every call the journeys make as a function of it, in the mocks' order of reverts; may carry one bug | |
| `SmokeScripts` | the eight journeys as sequences of steps | |
| `Journeys` | the smoke test's runner and harness; **composes** the two above with forks, strangers and node failures | both |
| `MCJourneys` | command lines, and the 71 wrong implementations | `Journeys` |
| `JourneysProofs` | inductive invariant and theorems | `Journeys` |
| `LocalScripts`, `MCLocalScripts`, `LocalScriptsProofs` | mutation campaign, coverage gate and fork runner; instance; theorems | |

The chain of arguments is modular. `B20` does not run against the registry
itself, which would be far too large, but against `PolicyOracle`;
`ImplementsOracle` checks that the registry implements that oracle, so what is
shown for a token with the oracle holds for a token with the registry.
`B20` takes every call as a whole transaction; `B20Calls` takes the transactions
that make several calls apart and leaves out what only matters within one call.
`B20Chain` is a third, executable reading of the same contracts: it decides no
property of theirs, but is what the smoke test is measured against.

### How the state corresponds to the code

* `PolicyRegistry`: an id is a record `[type, counter, inverted]`, which is what
  its 64 bits encode. `policies[id]` keeps the `exists` flag and the admin of the
  packed word, `pendingAdmins`, `members` and `children` are the mappings.
  `BasePolicyId` and `InvertedPolicyId` clear and flip the top bit. Lists are
  keyed by the base, mutating functions by the raw id, as in the code: an
  inverted id has no admin word, so every administration call on one is refused.
  `_writeBuiltins` is part of the creation that triggers it. The counter is
  bounded by `MaxCounter`, standing for `2^56 - 1`; the creation that would pass
  it fails, as the checked addition does.
* `B20Roles`: `roles[r]` is the set of members, `roleAdmins[r]` defaults to
  `DEFAULT_ADMIN_ROLE` as unset storage does. `initialized` is the factory's
  closing write. Until then only `Factory` calls (creation is one transaction)
  and afterwards it never does. `caller` records `msg.sender` of the latest call
  for the properties; no guard reads it.
* `B20`: `policyIds[scope]` are the six lanes, `paused` the bit vector, amounts
  are words of `0..MaxUint` and the additions the code leaves unchecked wrap.
  Each `...WithMemo` function does what its plain form does and emits one more
  event, so both are one action. `RegistryStep` is any step of the oracle between
  two calls.
* `Multiplier`: `multiplier` and `pending` are the two slots, `pending.effectiveAt
  = 0` the empty one; `Tick` is the passing of time (the one external action).
  `indexed` is what a reader of the three events alone has recorded, as ERC-8056
  prescribes.
* `ScaledAmounts`: products are computed in words of `MaxUint`; reads of balances
  and supply fail where the product does not fit.
* `SmokeClient`: `readBlock` is `_read_block` (`NoBlock` for `None`), `counter` the
  one entry of `_nonces` (each sender has its own, so one sender is modelled),
  `conn` the node that the pooled connection ends at, `expired` whether
  `sync_timeout` has passed since the request started. `pc` is where the program
  stands between two requests. `Ratchet` is `_observe`, a pinned read is
  `StartRead`, any number of `Retry` and then `AnswerRead` or `Surface`. A journey
  starts with a head query (`fresh`), which `Chain` makes before any state read;
  every exception ends in `raised`, from which the runner goes on to the next
  check (`run_collected`) or to the next journey with a new `Chain` and provider
  (`--keep-going`). The chain is `count`: how many of the sender's transactions
  are in each block and before it, so an older block is a smaller index.
  `Mine`, `Import` and `Reconnect` are the pool's own steps; `signed`, `confirmed`,
  `seen` and `failed` are history for the properties.
* `B20Calls`: `token[t]` is what is stored at an address, `tx` the transaction
  under way with the calls still to be made (`agenda`, each with its
  `msg.sender`), the storage and the length of the log to return to. `Revert` is
  the failing of any guard at any depth, since no caller in this code swallows a
  revert; `Commit` ends a transaction and is, for a creation, the write of
  `initialized`. `announce` puts its internal calls on the agenda under the
  announcer's name, which is what delegatecall does, and `CheckSelector` is
  `_checkSelector`. A signature is the message it was made over: `Verifies` is the
  comparison of digests. A token's lanes are a fixed set of admitted receivers
  there, its allowances those to one spender, its balances are left out, and
  announcements are told apart by their id alone. `Told` is a reader of the log,
  not part of the code: an indexer that keeps, per token, what is stored, which
  announcement is open and whether the events so far make sense; `LogTellsState`
  compares it with the storage.
* `B20Chain`: a call is `<<function, target, arguments...>>`, its answer an error
  name or a new chain and its logs. `Guarded` lists a function's guards in source
  order; `s.bug` names the one an implementation forgot, or an effect it does
  wrongly. A selector that the chain's fork lacks is unknown (`Shipped`); which
  fork has which is taken from `script/smoke`, the only place that says.
  An announcement's calls (`InnerCalls`) may be anything but an announcement, and a
  creation's (`InitCalls`) anything a token answers, so nothing here is recursive.
  `receiversFirst` chooses between the mocks' order in `batchMint` and the one
  the asset journey expects (section 7); FALSE, the mocks' order, is taken only
  for the asset journey by itself.
* `SmokeScripts`: a step is `[do, who, call, want, when, check]`: the harness
  method, its arguments, the flag of an enclosing `if`, and the number of the
  collected check it belongs to. Policy ids and times appear under the name of the
  Python variable that holds them, and `Journeys` looks them up (`Local`).
* `Journeys`: `todo` is what is left of the command line, `phase` where
  `main()` stands, `j` the journey in progress with its position, locals, flags,
  receipts and findings. Each harness method is an action; `NodeFails` is any
  exception of the provider in the middle of a step, after which a transaction may
  have been mined all the same. `j.hit` is history for the properties.
* `LocalScripts`: a file is a sequence of fragments, enough to tell a pattern that
  occurs once from one that is gone or ambiguous. `campaign.pc` is where
  `mutate.py` stands between two effects on the tree, `fork.pc` the same for the
  fork runner, `port` who listens. `forge` is a function of the tree (`Suite`) or
  a choice. A coverage report is what was called (`truth`) and the lines that
  `forge` writes about it; `Records` is what those say of each source file, and
  `ParseLine` the body of `parse_lcov`'s loop over them, keyed by name as there.
  `Edit`, `KillCampaign`, `SomebodyListens`, `AnvilCrashes` and
  `KillFork` are the rest of the machine.

## 3. Abstract specifications

* **PolicyOracle**. `known` only grows, the verdict of an id may change until it
  is sealed and never after, an id and its inverse always give opposite verdicts,
  the built-ins are sealed. `ImplementsOracle` maps `known` to `policyExists`,
  `verdict` to `isAuthorized`, `sealed` to the policies whose admin has renounced
  (composites: and all of whose children are sealed).
* **MultiplierTimeline**. Scheduling is refused while a change is ahead,
  cancelling needs one ahead, an immediate change drops it, time moves it into
  force. `ImplementsTimeline` maps the two slots and the clock to it; the lazy
  folding of matured changes maps to stutters.

## 4. Runs

| Run | Module / cfg | States | What it shows |
|---|---|---|---|
| `policy_registry` | MCPolicyRegistry / MCPolicyRegistry.cfg | 3191 | records only for created ids, renounced policies frozen, handover only to the nominee, the registry implements the oracle |
| `composites` | MCPolicyRegistry / MCComposites.cfg | 26365 | children are created simple policies; De Morgan for inverted children |
| `token` | MCB20 / MCB20.cfg | 174606 | four slices: transfers under changing lanes, lists and pauses; mints, burns and seizures with a moving cap; lanes of a token that loses its admins; every role operation. Conservation, losses by right, arrivals past the lanes, the exact admin count, what is retired stays so |
| `multiplier` | MCMultiplier / MCMultiplier.cfg | 15296 | refinement of the timeline; indexers agree; range |
| `scaled_amounts` | ScaledAmounts / MCScaledAmounts.cfg | 16368 | overflow, round trips, UI supply |
| `smoke_client` | SmokeClient / MCSmokeClient.cfg | 394718 | reads observe confirmed writes, nonces go up and leave no gap, pinned requests end |
| `calls` | MCB20Calls / MCB20Calls.cfg | 438744 | the log tells the state after every transaction wherever it failed; permits count once; nothing changes but by the sender's right |
| `journeys` | MCJourneys / MCJourneys.cfg | 100599 | what a pass, a failure and a skip of the smoke test mean; its runs end |
| `local_scripts` | MCLocalScripts / MCLocalScripts.cfg | 741888 | what the scripts leave on the machine, what their exit codes mean |
| `round_trip` | ScaledAmounts / MCRoundTrip.cfg | violation | the documented one-unit bound fails (section 7) |
| `cancel_event` | MCMultiplier / MCCancelEvent.cfg | violation | the documented clearing of a live change is the other function's (section 7) |
| `smoke_nonces` | SmokeClient / MCSmokeNonces.cfg | violation | the documented uniqueness of nonces in a run ends with the journey (section 7) |

### Bounds, and why they are enough

* *Registry*: two interchangeable accounts (an admin, its nominee, a stranger
  arise from two since each may be any of them) and `MaxCounter = 4`, two custom
  policies next to the two built-ins, one account per batch. `composites` trades
  the second account for a third custom policy, so that two composites over
  plain and inverted children coexist. `MaxCounter` is reached: the failing
  creation at the counter's limit is among the behaviours.
* *Token*: two accounts, the factory, the token and `address(0)`; at most two
  units, so that a unit can move, split and be capped; one custom policy and its
  inverse next to the built-ins. All of `B20` at once is out of reach, so the
  initial states fall into four slices, and each takes the calls its question
  depends on: `MCB20` narrows the *arguments* of the actions of `B20`, never the
  actions, and starts where the factory's grants can lead. The roles slice has
  two accounts and three roles, which give every graph of role admins with cycles,
  self-administration and chains of length two. The view drops `caller`, which no
  guard reads.
* *Multiplier*: values and times on both sides of each limit (0, the ceiling,
  above it; past, present, the last moment representable, above it).
* *Amounts*: every multiplier and every split of a supply in 5 bits with a scale
  of 10, so that multipliers below and above 1.0 and products at the limit of the
  word all occur.
* *Smoke client*: two nodes, so that one can lag behind the other by up to two
  blocks; two journeys, so that state left over from the first can matter to the
  second; two nonces and three blocks, so that a send can be followed by another,
  be mined late or never, and a block can be empty.
* *Calls*: two senders, each the deployer of one address, and 14 requests and five
  creations chosen so that every guard fails at every depth: in a batch, in an
  announcement, in a batch in an announcement, in the initCalls, in an announcement
  among them. Three permits cross two names and two nonces, so that one can be
  outdated by a rename, revived by the rename back, or used within an announcement.
  No transaction begins once `MaxEvents = 8` events are logged; that is enough for
  a creation with an announcement and a batch and two more transactions.
* *Journeys*: each journey by itself on each of three forks with features on and
  off, with one disturbance (a node failure, a stranger's policy or an upgrade) at
  any step, a pair of journeys, and wrong or empty command lines; and the suite
  with `-k` on Denim, undisturbed, against each of 71 wrong implementations: 47
  forgotten guards, 7 edges of the ABI (dirty words, unknown selectors, ether,
  static calls and their like), 17 effects done wrongly.
* *Local scripts*: a table with a mutation that is caught, one whose pattern is
  ambiguous, one whose pattern is gone and one that the suite catches, misses or
  hangs on; a report of two files; two starts of the fork runner; one act of
  somebody else, at any moment.

Deadlock is not checked where the system may really stop: in the registry's two
runs when the counter is at its bound and every policy renounced; in
`smoke_client`, whose program ends after its last journey while the chain is at its
bound; in `calls` once `MaxEvents` is reached; and in `local_scripts`, whose
scripts end. It is checked in `journeys`, where it is part of the argument below.

### Fairness and liveness

*Contracts.* None is assumed and no liveness is claimed. No code schedules
anything: every step is somebody's free choice to call, and the only thing that
happens by itself, the clock, is read and never awaited. What "eventually" would
say is said as safety instead: the matured change is *in force* at its time
(`MultiplierInForceInRange`, `ImplementsTimeline`), whether or not anybody calls.

*Smoke client.* `SmokeSpec` assumes weak fairness of `Request`, the step of the
running request loop (the HTTP provider under it gives up on a node that does not
answer, which is then asked again or raised), and of `Deadline`, that time passes. Nothing is assumed of
the nodes, the miner or the network: a node may never import another block, and a
transaction may never be mined. Under this `RequestsEnd` holds because the loop
looks at the deadline; without that look (its mutant) it would ask a lagging
node for ever.

*Smoke runner.* One thread that waits for nothing but its own polls, so
`Journeys` assumes weak fairness of `Client`. It is written with its ENABLED
spelled out (`[]<>Ended \/ []<><<Client>>_vars`): `Client` is enabled until the run
has ended, which the deadlock check confirms, for the world's interference is used
up. Nothing is assumed of the clock, the faucet or the node. `RunEnds` then holds
because every wait counts its polls; without the count (its mutant) the multiplier
journey would wait for a flip for ever.

## 5. Proofs

All theorems are checked by TLAPS for any number of accounts, roles, policies,
tokens, calls, nodes and blocks and any limits satisfying the named assumptions of the modules.

* **PolicyRegistryProofs**. `IInv` conjoins types; *records belong to created
  ids* (no admin, member, nominee or child without creation, no counter for two
  policies); *children are created simple policies*; *no nomination to a renounced
  policy*. Types alone are not inductive: that creation uses a fresh id needs the
  counter to bound every created id, and `RenouncedIsFrozen` needs that nobody
  can finalize, hence the fourth conjunct; a fifth, that *simple policies have no
  children*, is for the refinement, whose sealed ids are asked for their children
  whatever they are. De Morgan follows from the children being simple: their
  verdicts are decided one level deep, where an id and its inverse are opposites.
  The refinement maps what `isAuthorized` evaluates to the verdicts of
  `PolicyOracle`: a sealed id keeps its verdict because its own list and those of
  its children are frozen, whatever lists a step writes.
  Proved: `TypeOK`, `RecordsBelongToCreated`, `ChildrenAreCreatedSimple`,
  `RenouncedIsFrozen`, `AdminHandover`, `InvertedChildrenDeMorgan`, the refinement
  `ImplementsOracle` (`RefinesOracle`), and that what the registry shows is always
  a state that `B20` starts from (`ShowsReachable`), so that the token's theorems
  may be read with the registry in place of its oracle.
* **B20Proofs**, access control by itself. `RInv` conjoins types and the exact count; the decrement
  stays in the naturals only because the count is exact, so neither is inductive
  alone. Finite cardinalities come from `FiniteSetTheorems`. Proved:
  `AdminCountExact`, `LastAdminLeavesByItself`, `AdminlessIsForever`,
  `RetiredRolesStayRetired`.

  About the whole of `B20`, not its slices: `TInv` conjoins the
  types, the exact admin count, `SupplyConserved`, `NothingStuck` and
  `LanesAreKnown`. No part stands alone: an unchecked addition stays a word only
  because the supply counts all units and is capped below the width; the cap is
  checked against a supply that is known to be exact; the lanes stay known because
  known ids never disappear from the oracle. Units are a set of pairs (holder,
  number), so that "the sum of the balances" is a cardinality: a credit adds a
  disjoint block (`CreditAdds`), a debit is a credit read backwards
  (`DebitTakes`), nobody holds more than the whole (`HoldsAtMost`), and a transfer
  is a debit followed by a credit of the debited balances, which covers the
  self-transfer (`MoveConserves`). The action properties follow from who loses and
  who gains in each operation (`MoveLoses`, `MintLoses`, `BurnLoses`). Proved:
  `B20TypeOK`, `SupplyConserved`, `NothingStuck`, `LanesAreKnown`,
  `HoldersLoseOnlyByRight`, `UnitsArriveByTheLanes`, `PausesHold`,
  `AdminlessRulesStand`, and that the composition keeps `AdminlessIsForever` and
  `RetiredRolesStayRetired` of `B20Roles` (`TokenKeepsRoles`).
* **B20CallsProofs**. `OnlyByRight` compares the end of a transaction with its
  beginning, so it needs an invariant of everything in between. `CallsInv` conjoins
  the types; while a transaction is under way, that only its token differs from
  before, that everything still on the agenda of a call to an existing token is its
  sender's own (`Own`: the internal calls of an announcement, and the elements only
  of a batch whose sender might mint), and that what was changed so far was changed
  by right and left no nonce lower (`Progress`); and between transactions that a
  token with code is initialized and the other way round. Rights only matter
  against the roles *before*, hence the clause that a role gained on the way was
  gained by an admin. Proved: `CallsInvariant`, `NoHalfToken` (no address is left
  with code and an open bootstrap window), `OnlyByRight`.

  `LogTellsState` speaks of the moments between transactions and needs an invariant
  of all others. `LogInv`: at every step the log tells what is stored now, and its
  first `mark` events what was stored when the transaction began, which is what a
  failure returns to. Two things are different while it runs. A token under
  creation is told as if its window were closed already (`Closed`). And an
  announcement is open exactly while its end is on the agenda (`Ends`); that there
  is never a second one follows from the order of the agenda: before an end there
  is no other end, and no announcement that `_checkSelector` would let through
  (`Bracketed`). Each call's event then explains its change (`Explains`), which
  for a permit includes the nonce and the name it was verified with. Proved:
  `LogInvariant`, `LogTellsState`, `PermitsOnce`. Calls and batches are
  sequences of any length and announcements of any depth: the depth is cut in the
  code by `_checkSelector`, not in the proof.
* **MultiplierProofs**. `MInv` adds to the types that a pending slot is either
  empty or holds an allowed value, and relates what an indexer recorded to the
  slots, separately while a change is ahead and otherwise. Proved:
  `MultiplierTypeOK`, `MultiplierInForceInRange`, `IndexersAgree` and the whole
  refinement `ImplementsTimeline`.
* **ScaledAmountsProofs**. Nonlinear arithmetic in small lemmas: the two bounds
  of a quotient, monotonicity and cancellation of products. Proved:
  `ReadsNeverOverflow`, `RoundTripBounded`, `UISupplyCoversHolders`.
* **SmokeClientProofs**. `SInv` adds three parts to the types. The *mark* covers
  what was confirmed and seen, and exists once the journey has asked for a head:
  this is what a pinned read inherits. The *counter* is above everything the
  journey signed, and while a nonce is in hand (estimated, not yet sent) exactly
  one above it. And while the journey has *not failed*, no nonce below the next one
  is missing from chain and mempool; a failed estimate leaves such a gap, which is
  why the conjunct needs the condition. Proved: `SmokeTypeOK`, `ReadYourWrites`,
  `NoncesGoUp`, `SentCanBeMined`.
* **LocalScriptsProofs**. About any table, tree, suite, list of features and
  report. `CampaignInv`: the outcomes recorded are those of the mutations tried so
  far and mean what they say of the tree *as found*, and the tree is that one but
  for the mutation under test, whose file the backup holds; the last part is
  conditional on nobody else editing, and restoring undoes a mutation because it
  writes back a whole file (`MutateRestore`). `ForkInv`: the port is the run's own
  exactly while its anvil is up, features before the loop's index are as wanted on
  a node of its own, and nothing was tested before the tests. For the gate, a
  function that was never called is found by the loop over the lines
  (`ParseLineKeeps`, `FunctionLine`, `UncalledFound`): once a record names it, its
  count stays 0 to the record's end. Proved: `CampaignInvariant`, `ForkInvariant`,
  `GateVerdictMeans`, `NothingLeftBehind`, `VerdictsMean`.

* **JourneysProofs**. That no skip is unearned, for any command line, any bug, any
  number of node failures, upgrades and strangers. Three arguments meet. *The chain*:
  no call of anybody, through the probe contract, an announcement or a creation that
  fails half-way, changes the chain's fork or features (`PerformFrames`, one lemma
  for each part of `B20Chain`), so only `Upgrade` moves the fork, and upwards.
  *The scripts*: every `skip` of the eight is preceded by an unconditional probe, of
  a selector that exactly the fork it asks for has added, that raises the flag the
  skip reads (`SkipsAreGated`; a script is `Tame` where it never skips, and gates
  are closed under concatenation with what is tame). *The runner*:
  `JourneysInvariant` conjoins types, that the chain is no older than when the
  journey began, that verdicts given are earned, and `Probed`: every question
  behind the journey's position is `Settled`, which means the flag is up, the
  journey was hit, or the fork it began on lacks the selector. `SkipsAreEarned`
  itself says nothing of a journey in progress, so it is not inductive; and `Settled`
  has to speak of the fork at the *beginning*, since an upgrade may come between the
  probe and the skip. A failure may jump to the next collected check only past steps
  of its own check, where no question is (`FailKeeps`, `LeavesCheck`). Proved:
  `JourneysInvariantHolds`, `SkipsAreEarned`.

`Told` and `ParseLcov` are recursive functions over sequences of any length. The
provers cannot instantiate an induction theorem, but that the naturals are well
founded is a plain fact: a set of numbers that is not empty has a least one
(`Least`), so what holds at `a` and is passed on up to `b` holds up to `b`
(`Between`). From this come that the recursive functions exist, are unique and
depend on a prefix only (`TellingExists`, `TellingUnique`, `ToldPrefix`;
`ParseExists`, `ParseSteps`), for properties that can be written as a set of numbers.

Assumptions on constants are named next to their declarations
(`ConstantsAssumption`, `OracleAssumption`, `RolesAssumption`, `TokenAssumption`,
`CallsAssumption`, `MultiplierAssumption`, `ScaleAssumption`, `SmokeAssumption`,
`ScriptsAssumption`, `ReportsAssumption`, `JourneysAssumption`) and evaluated by TLC in the runs; none says
more than that addresses are distinct, calls and tables are well formed, limits are
naturals, the ceilings' product fits in a word, and a coverage report is in the format
of `lcov`: one record for each source file, which names its functions and counts
nothing for one that was not called.

## 6. Only model-checked

* Liveness, out of the prover's reach: `RequestsEnd`, `RunEnds`.
* `NoFalseAlarm` and `PassMeansSound`. The first is decided by the text of eight
  given scripts: that no assertion fails means to know, after each of several hundred
  steps, what the chain answers to it, and its proof would be the execution of the
  scripts by hand. The second is about the 71 implementations of `MCJourneys` and false
  for others (section 7). TLC executes the scripts, in every interleaving with one
  disturbance.
* The three violations of section 7 are shown by TLC's counterexamples.

## 7. Findings

The first three are runs with an expected violation.

1. *Round trips lose more than documented* (`round_trip`).
   `docs/b20/concepts/multipliers.md:33` and
   `docs/b20/guides/scheduling-stock-splits.md:54` say a round trip through
   `toUIAmount` and `fromUIAmount` can lose up to one unit in the last place.
   After a reverse split one UI unit is worth many raw units: at a multiplier of
   0.1, 19 raw units read as 1 and convert back to 10. What holds, and is proved
   as `RoundTripBounded`, is a loss of less than one UI unit's worth.
2. *Who clears a live change* (`cancel_event`). `src/interfaces/IB20Asset.sol:96`
   says `updateUIMultiplier` clears a live pending update and emits the
   cancellation event. It reverts instead; `updateMultiplier` is the one that
   clears and emits.
3. *Nonces across journeys* (`smoke_nonces`). `script/smoke/chain.py:148` says every
   signed transaction *in the run* gets a unique, forward-only nonce regardless of
   which backend answered, and the smoke test's README that nonces never collide or
   regress. The table they are kept in belongs to one `Chain`, and
   `__main__.py` makes a new one for every journey: if its connection meets a node
   that has not imported the last block of the previous journey, it signs with a
   nonce that is mined already and the broadcast is refused. Within a journey both
   hold, and are proved (`NoncesGoUp`, `SentCanBeMined`).

Two consequences of the same kind need no run: read-your-writes also starts anew
with each journey, and a check whose gas estimate reverts inside `run_collected`
leaves its nonce unused, so later sends of that journey wait behind the gap.

What `PassMeansSound` and `NoFalseAlarm` had to be told of the smoke test:

* *An expectation the reference does not meet.* `asset_lifecycle.py:188` (step 11g)
  expects `InvalidReceiver` of a batch of one good and one bad receiver after the
  cap was lowered to the supply. The mock mints element by element
  (`MockB20Asset.sol:275`) and reverts with `SupplyCapExceeded` at the first. So
  either the precompile looks at all receivers first, which no document says, or the
  step fails on a faithful implementation. `NoFalseAlarm` exempts it by name.
* *Guards no journey tests.* The 71 wrong implementations are those the suite can
  tell apart. It passes on one that forgot: the role, lane or cap check of
  `batchMint`; `InvalidSupplyCap`; `PolicyNotFound` of list updates,
  `Unauthorized` of `updateBlocklist`; lanes and balance in `transferFrom`; pause,
  balance and receiver in `transferWithMemo`; the balance check of a seizure or a
  burn; the pause of mint, `burn` or `burnBlocked`; the role gates of the burns, `announce`, the
  multiplier, pause, metadata, `grantRole` and `updatePolicy`; `Unauthorized` of
  stage, finalize and renounce; the zero admin of `createPolicyWithAccounts`; the
  multiplier's range in `updateMultiplier`; the wrapping in `InternalCallFailed`.
* *Checks that cannot fail.* The asset journey's probe of the token-as-recipient
  guard is the very check it gates. "Inverted unknown fails closed" asks for
  a blocklist id, whose plain inverse is closed anyway. The out-of-gas check calls with
  an argument that reverts with any gas. The "reverted announce must not consume" of
  step 14b follows a simulated call, which consumes nothing on any chain.
* *Failures taken for answers.* `supports_erc165`, `expect_raw_revert` (also with
  `error_name`) and `features_activated` catch every exception, so a node failure
  becomes "not supported", "rejected" or a skipped journey; `hit` in `SkipsAreEarned`
  and `PassMeansSound` is for these. The `policy` and `invariants` journeys are not
  gated on their fork and fail on Beryl. With `-k` the runner exits 0 whatever
  failed, and exceptions of `Chain(cfg)` or of the funding end it outside of
  its `try`.

What the local scripts leave open:

* `mutate.py` counts any failure of `forge` as a kill, a compile error or an already
  red suite included; six of its seventy patterns (numbers 10, 11, 12, 26, 47 and 64)
  are no longer in the sources and are skipped without an effect on the exit code; a
  suite that times out ends the campaign; after a kill the mutation stays in the
  tree and is what the next campaign backs up; an edit made while a mutation is
  tested is overwritten. `CampaignVerdict` says what the exit code does mean.
* `check-coverage.py` keys functions by name, so overloads hide each other; its
  report may be an old one.
* The fork runner's README has exit code 1 for failing tests and 2 for the environment;
  an RPC error between launch and tests, or an `$ANVIL_BIN` that cannot be executed, exits
  with 1. Between `assert_port_free` and anvil's bind another listener can take the
  port and be tested instead; anvil outlives a killed runner. The code `forge` exits
  with is passed on as it is; the model lets 1 stand for all that are not 0, so a
  failure of `forge` with code 2, which reads as one of the environment, is left out.

Remarks met on the way that need no run: the comment at
`MockPolicyRegistry.sol:188` places the `exists` flag at bit 160, the code at 255;
`MockB20.sol:515` speaks of four supported scopes, there are six;
`MockB20Asset.sol:328` says "if live" where the code tests for matured.

## 8. Not modelled, and why

* The hash that makes an address of a creation's parameters: one deployer per
  address, as collisions are out of scope. Symbols and contract URIs, which nothing
  reads. The name is in `B20Calls`, where the signing domain reads it.
* The activation registry's other features: the same boolean, asked the same way.
* The smoke test's encoders, tables, environment variables and traces: formatting
  and lookup without control.
* Event payloads, except where a property folds them (multiplier, `B20Calls`) or a
  journey asserts them.
* ERC-7201 slot numbers and packing: the repository's storage tests pin them.
* `BaseTime`: a read-only clock. `B20FactoryLib`: pure ABI encoders. Address
  constants.
* `forge` and `anvil` themselves, and the text of the mutation table: constants.

## 9. Plan

Done: registry and oracle; roles; units and rules; transactions of several calls
with permits and creations; multiplier and timeline; amounts; the smoke test's
client, runner and journeys; the local scripts; the proofs of section 5.

Left: `NoFalseAlarm` with several disturbances, and a check for each guard that no
journey tests (section 7).
