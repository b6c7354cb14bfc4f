# Verification of the ethereum-testnet-bootstrapper

TLA+ modules of the program in `src/`, the TLC configurations that check them and
TLAPS proofs about each component. Paths below are relative to the repository;
python files are under `src/src/`, launchers under `src/deps/launchers/`.

## 1. The system

A testnet is a set of docker containers that share the directory `/data`. The
operator runs `make clean`, `make init-testnet` and `docker-compose up`. The
bootstrapper container then writes the genesis files, and everything else waits in
polling loops until a *checkpoint file* appears. There are no messages between the
bootstrapper and the launchers: the files are the protocol.

| component | code | state | operations |
|---|---|---|---|
| bootstrapper | `testnet_bootstrapper.py` | files under `/data`, the genesis time in memory, which execution clients answered | `init_testnet`, `bootstrap_testnet`, `clean`, pairing, deployment block, copies to the collections |
| etb-config | `etb/config/etb_config.py` | `etb-config.yaml`; during population reserved addresses, counters | `write_config`, `set_genesis_time`, `get_etb_config`, population with defaults |
| genesis writers | `etb/genesis/*.py` | none of their own | one genesis file per execution client kind, `config.yaml`, `genesis.ssz` |
| launchers | `cl/*.sh`, `el/*.sh`, `bootnodes/*.sh` | position in the script, what they read | wait for a file, read, start the client |
| client requests | `etb/interfaces/client_request.py` | attempt counter | `perform_request`, `perform_batched_request` |
| metric monitors | `etb/monitoring/monitors/consensus_monitors.py` | results, four lists of failed clients | query, retry, report |
| testnet monitor, node-watch | `etb/monitoring/testnet_monitor.py`, `node_watch.py` | goal slot, lists of actions | wait for a slot, perform actions |
| status checker | `antithesis_checker.py` | phase, try | four phases, `check_for_consensus`, start and stop of faults |
| fork detector | `fork_detector.py` | the chain of parents each client gave | ask for a chain block by block, compare the chains, report |
| load generators | `tx_spammer.py`, `live_fuzzer.py`, `validator-operation-spammer.py` | none | wait for an epoch, run tx-fuzz once or forever |
| command wrappers | `eth2_val_tools.py`, `ethdo.py`, ... | none | start an external program |

Interactions: the bootstrapper releases the bootnode, execution launchers and
consensus launchers in this order, one checkpoint file each, and in between it asks
the execution clients it has just released (pairing, `eth_getBlockByNumber("0x0")`).
The tx-spammer uses the clock and the waits of the testnet monitor.
Monitors and the status checker wait for the first checkpoint and then poll the
clients from thread pools.

What is hard here, and what makes each part correct:

- *Files are truncated before they are written*, and others look at them at any
  moment; the bootstrapper and every container may die and be started again. Correct
  means: nobody works with a half-written file, and everything that ever runs in one
  experiment has one genesis time.
- *The data directory outlives an experiment*; init and clean may be interrupted.
  Correct means: no experiment starts on the files of an earlier one.
- *Everybody waits for somebody*: execution clients for the bootstrapper, the
  bootstrapper for execution clients, consensus clients for both. Correct means: the
  testnet comes up.
- *Pairing is repeated as a whole*, over clients that come up late, restart and forget,
  with requests repeated although they may have been executed. Correct means: consensus
  clients are released only when all execution clients know each other, a failed
  attempt does not spoil the next, and the attempts end.
- *Answers come from different moments* of clients that move and fail. Correct means:
  reports and verdicts say what was the case, every run ends, faults are stopped.
- *The clock*: whole seconds and whole slots, actions of any duration.

`PROJECT.json` lists each hazard at its line with the properties that would catch it.

## 2. Modules

```
PhasedStartup            what a startup protocol promises (abstract)
   ^ implemented by
BootstrapRefinement --- extends TestnetBootstrap
                                   ^
               +-------------------+--------------------+
     extended by TestnetLifecycle       its pairing implemented by ElPairing
     (clean / init / up around it)      (request by request)

MetricMonitor     TestnetMonitor     StatusChecker     ForkDetector     ConfigAllocation
```

The theorems about a module `M` and their TLAPS proofs are in `M_proofs`, which extends
`M`; those about the refinement are in `TestnetBootstrap_proofs`.

**TestnetBootstrap.** `bootstrap_testnet`, the launchers, the bootnode and
`get_etb_config`. `disk` maps each file to its content: `Absent`, `Empty` (created or
truncated) or the genesis time in it, 0 for none. A `with open(...)` of the script is
two steps, `OpenFile` and `WriteFile`; `at` is the statement the script is at and
`sub` the progress in it (file open, failed pairing attempts, copied collections).
The n-th run of the bootstrapper reads n from the clock, so contents of different runs
differ. `WriteConfigRefused` is the look at the checkpoint in `write_config`,
`ElectraForkMissing`, `GenesisToolFails`, `PairFails` and `GetDeploymentBlockFails`
are the exceptions of the code; `Crash...` and `Restart...` are containers that die.
The first of them is raised in every run of this commit, with `config.yaml` open: an
attribute that nothing sets is read (`consensus_genesis.py:156`), and with it set three
format widths that are an epoch (161, 165, 169) would raise as well. So the constant
`ElectraMended = {FALSE}` is the code as it is. The rest of `bootstrap_testnet`, which
does not depend on these lines, is explored with `TRUE` in the set: it stands for the
day they are mended, and no property of a passing run claims that this is today.
The two files of a collection are copied in two steps, `CopyConfig` and `CopySsz`.
A consensus launcher waits for the ENR file, then for the checkpoint; all but prysm's
(`EagerClients`) read the ENR when they see the file.

**PhasedStartup, BootstrapRefinement.** The promise without files: a genesis time is
chosen once, phases open in order, whoever joins gets that time. The refinement maps
checkpoint files to phases and launches to joins.

**TestnetLifecycle.** Extends TestnetBootstrap by the operator: `init_file`,
`local-testnet` and the compose file, each created or removed in a step of its own,
with an interruption after any of them. `Next` of TestnetBootstrap runs while the
compose project is up.

**ElPairing.** `_pair_execution_clients` request by request. `info` holds the futures of
`admin_nodeInfo`, one thread per client; `left` the `admin_addPeer` requests still to
make, in the order of the two loops (`IsNext`); `tries` the failed tries of the request
that is out. Clients launch and stop at any time and forget their peers (`knows`); a
request or its answer may be lost, and `admin_addPeer` may have been executed all the
same. `FailAttempt` is the exception of an attempt, which keeps nothing of it. The
module implements the pairing of TestnetBootstrap (`ImplementsPairing`): there all
requests to a client are one answer, `ElAnswers`.

**MetricMonitor.** One monitor object used again and again. Each round has a thread
per client, whose attempts (`Attempt`) interleave with the changes of the clients
(`Change`); `FinishRound` sorts the futures as `query_clients_for_metric` does and
decides on another round. Every monitor node-watch uses is an initial state: its class
(`kind`) and the lists its report prints (`prints`).

**TestnetMonitor.** `wait_for_slot` and its two callers over a clock in seconds: the loop
of node-watch, and the tx-spammer that waits for an epoch and then fuzzes (`Fuzz`,
once or forever). Durations of
actions are nondeterministic, and so is how late a sleep wakes (`late`): `time.sleep` has
no upper bound and nothing looks at the slot after it, so a slot can be overslept by as
much as the last sleep was late, and the properties say so. A pause of the process between
two readings of the clock is a part of the sleep or the action next to it. A prometheus answer that is not a
success ends the process (`PrometheusUnpackFails`), as the code does.

**StatusChecker.** `perform_finite_status_check` over a clock in slots, with
`get_heads_status_check_slot` as a batch of requests answered one by one while the
clients change. An answer with no block in it raises (`BlockRaises`).

**ForkDetector.** A tree of blocks that grows and clients that move on it (`Propose`,
`Follow`), while the pool asks each client for its head and then for parent after
parent (`GotBlock`); one failed answer leaves the client without a chain (`NoBlock`).
`RealForks` are the two loops of `calculate_real_forks_and_unsynced_children`, as a
recursive function over their comparisons. A block is a number, and the string search for " 7 " is membership in a
sequence.

**ConfigAllocation.** `_populate_config_with_defaults`: addresses and validators,
collection by collection, for every configuration file over small values, down to the
keystores of each node. The first `Presets` collections are `DEFAULT_GENERIC_INSTANCES`,
the bootstrapper and the bootnode: they have an address even if the file gives none
(`Written`), and that one is not among those the program reserves (`Given`).

Every module ends with the inductive invariant of its proofs (`IInv`, `LIInv` of
TestnetLifecycle, `PairingInv` in `ElPairing_proofs`), a conjunction of named parts with
the types as the first.

Definitions headed `Mutation:` are no part of a model: each is a plausible wrong
version of the definition after it, and `PROJECT.json` says which property must fail
when it takes its place. That is how we know that a property depends on the code.
`MC*.tla` give the constants that a .cfg can not express.

## 3. Runs

All passing runs but `pairing` and `recover` check the inductive invariant of their
module, types included, and the properties that follow from it besides.

| run | what it shows | bounds |
|---|---|---|
| bootstrap | no partial reads, one genesis time, guarded files are never reopened, consensus clients only after pairing, PhasedStartup implemented, and the invariant the proofs use | 2 clients of both kinds in 2 collections, a reader, 3 bootstrapper runs, 2 faults, 2 pairing attempts |
| recover | with fairness: if nothing fails the execution layer comes up, and the consensus layer where the electra lines are mended; clients released by a consensus checkpoint come up again | 2 runs, 1 fault, the electra lines as they are and mended |
| enr | *violation*: a consensus launcher can read an empty ENR before it waits for the checkpoint | 1 run, no fault, the electra lines as they are |
| lifecycle | experiments never mix, whatever was interrupted | 1 client, 3 runs, 2 faults |
| pairing | after a pairing who stayed up knows everyone, pairings end, attempts recover, TestnetBootstrap's pairing implemented | 3 clients, 2 attempts, 3 and 2 tries, 2 restarts, 3 losses |
| metrics | every client is reported once and truthfully, by each of the six reports; every run ends | 2 clients, 2 tries, 2 rounds, 2 runs, 2 changes |
| metrics_consensus | *violation*: agreement does not end the retries | as above, 1 run |
| node_watch | node-watch acts in the slot it names, or as long after it as its last sleep was late, for an epoch at most once, for no slot twice, and is never stuck; the tx-spammer starts in the first slot of its epoch with the same proviso | slots of 3 s, epochs of 3 slots, sleeps of 5 s at most that wake up to 10 s late, actions of 0 to 4 s, 60 s, delays to epoch 2 |
| checker | verdicts are sound both ways, faults end in time, the experiment ends | 2 clients, 2 heads, 2 tries, phases at 0, 1, 3, 6, 2 changes |
| checker_faults | *violation*: faults are started and never stopped | 1 change |
| forks | forks are reported, false ones only a window apart, syncing chains are behind | 3 clients, chains of 2 parents, 5 blocks, any number of rounds |
| config | what is assigned never overlaps itself, node by node; addresses overlap in no other than the two ways the findings name, and validators by no more than one | 4 collections, one of them a preset, up to 2 nodes and validators each, addresses 2 and 4 in the file and 3 for the preset, offsets 0 and 3 |

Why the bounds are enough: two runs of the bootstrapper are needed to mix genesis
times and a third to see that the second left nothing behind; two clients to have one
released and one not, and one of each kind of launcher; two faults to fail once more
during a recovery. Two rounds show what one leaves to the next, two runs of a monitor
the same for runs, two changes that one answer becomes another and back while requests
are out. In the pairing, one of three clients can be asked, told and restarted while
the other two wait for it, two attempts are the least with one to recover, and three
losses exhaust a request or spread over several. Five blocks and a window of two are
the least in which branches part inside and outside of a window and a client is a
window behind; three chains the least for one below another below a third. Actions
last from no time to longer than a slot, and 60 s are enough epochs
for every position in a slot; a sleep that wakes 10 s late misses a whole epoch of 9 s. In
the checker, phase 3 is further from phase 2 than one status check, so that `HealingTime`
asks for more than that the network healed for no time; `TimeToHeal` has it for any
phases. Four collections are a preset, one generic collection to be assigned or given, and
two clients, with addresses close enough for each to run into every other. `CHECK_DEADLOCK FALSE` everywhere: with bounded faults and
time every system here stops when its work is done.

Fairness. `FairSpec` of TestnetBootstrap: docker starts every container once and the
scheduler serves every process, so each polling loop sees its file; nothing is assumed
about second runs of the bootstrapper, and faults never have to happen.
`LayersComeUp` assumes no fault. `ReleasedClientsComeUp` is about what follows a consensus
checkpoint; at this commit there never is one. MetricMonitor: each attempt has a timeout, so every
thread goes on; the clients need not change. ElPairing: the bootstrapper is scheduled
and every try has a timeout; no client ever has to come up, and `RetryRecovers` only
speaks of the case that all are up and the faults are used up. TestnetMonitor and
StatusChecker: the process is scheduled and time passes, each action and each run of
tx-fuzz ends (requests have timeouts; the `subprocess.run` of ethdo has none, so `KeepsTime`
rests on ethdo ending); `Completes` of StatusChecker also assumes answers that can be parsed,
because one that can not ends the checker.

## 4. Findings

Ten disagreements between what the code says of itself and what it does are in
`PROJECT.json`, each with the quoted line. Three are violation runs: the ENR file that
exists before its content (`enr`); consensus that counts clients and not results
(`metrics_consensus`); faults that stay on after a malformed answer (`checker_faults`).
Others are stated by a definition of a module that TLC refutes when it is put into the
cfg of the run next to it:

- the electra fork that is read and never set, so that no testnet of this commit gets
  past `config.yaml`: `TestnetComesUp` in the run `recover`, with
  `ElectraMended = {FALSE}`; `LayersComeUp` is what does hold;
- slots that node-watch leaves out although its actions are short: `EverySlot` of
  TestnetMonitor, with `MaxDuration = 1`;
- runs of addresses of which only the first is looked at, default addresses of the
  bootstrapper and the bootnode (.201, .202) that nobody looks at, and validators that go
  on from the last used index instead of the one after: `IpRangesDisjoint` and
  `ValidatorsReserved` of ConfigAllocation. What does hold is `NoOtherOverlap` and
  `AtMostOneShared`, which tolerate just these and are no evidence that they are mended;
- chains of the fork detector that are overwritten by another chain behind the same
  one: `EveryClientReported` of ForkDetector.

Two are plain reading: the indefinite check that raises at once, and the tx-spammer
without `--epoch-delay`, which ends in a TypeError (`NoEpochDelay`).

Two more statements are there to show a limit and are refuted as well:
`RunningKnowAll` of ElPairing (an execution client that restarts during the last attempt
or after it is never told its peers again) and `OnlyRealForks` of ForkDetector (a
client a whole window behind counts as a fork).

## 5. Proofs

Every safety invariant and action property that a passing run checks, and both
refinements, is a theorem for all values of the constants that satisfy the named
assumptions of its module. The runs show that the constants of section 3 satisfy them
and that the properties do not hold for want of states; the theorems that they do not
hold for want of clients, rounds or blocks. The bounds on faults, runs, changes and blocks
may be any numbers: no proof needs them to be small. Each proof has the same shape: `Init` gives the invariant,
one step per action keeps it, it implies the property.

| module | theorems | assumed of the constants |
|---|---|---|
| TestnetBootstrap | `InductiveInvariant`, `TypeCorrect`, `NoPartialReads`, `GenesisAgreed`, `CheckpointsSeal`, `PairingBeforeRelease`, `Refinement` | one client with each API; a collection and a genesis file per client; file contents differ |
| TestnetLifecycle | `LifecycleInvariant`, `LifecycleTypes`, `CleanWhenReady`, `GenesisIsFresh`, `LifecycleAgreement` | as TestnetBootstrap |
| ElPairing | `PairingInvariant`, `PairedKnowAll`, `TypeCorrect`, `PairingRefines` | at least one client, attempt and try |
| MetricMonitor | `InductiveInvariant`, `TypeCorrect`, `EachReportedOnce`, `ReportsAreFresh` | the answers differ |
| TestnetMonitor | `InductiveInvariant`, `TypeCorrect`, `EpochsOnce`, `ReturnsInItsSlot`, `GoalsGoUp` | slots, epochs and sleeps are not of length 0; sleeps wake any number of seconds late |
| StatusChecker | `InductiveInvariant`, `TypeCorrect`, `PassedIsReal`, `FailedIsReal`, `TimeToHeal` | phases in order; the answers differ |
| ConfigAllocation | `InductiveInvariant`, `TypeCorrect`, `AddressesAssignedOnce`, `OverlapsAreKnown`, `NobodyIsSlashed`, `SharedAtMostOnce` | any number of presets, from any address on; sizes and counts are numbers, `Absent` is not one |
| ForkDetector | `InductiveInvariant`, `TypeCorrect`, `EveryForkReported`, `ForksAreReal`, `SyncingBehind` | a client, a window of at least one parent |

**TestnetBootstrap.** `NoPartialRead` is not inductive: it says nothing of files no one has
read. `IInv` adds five parts. `PublisherInv`: a live run past `write_config` is the only
one that got there, everything it has written carries its time and no later checkpoint is
there. `ConfigInv`: a run that can still write `etb-config.yaml` is one nobody listens to.
`SealInv`: what each checkpoint file promises of the files it guards. `ViewInv`: whoever
runs was released by its checkpoint and has the published time. `PairedInv`: a run past the
pairing has all answers. The crash steps are easy because `at = "down"` gives
`PublisherInv` nothing to say, and the start of another run because `WriteConfigRefused`
stops it before it gets there. `Refinement` takes each step to PhasedStartup: the three
checkpoint files open a phase, a launch joins, a restart leaves, and every other step is
shown to be a stutter.

**TestnetLifecycle.** `LIInv` uses the invariant of the bootstrap within one experiment
(`op = "up"`), so its proof cites the lemmas of `TestnetBootstrap_proofs` for the
containers' steps. Across experiments it adds what survives `down` (`SealInv` alone), that
a complete init leaves no checkpoint (`InitInv`, because `init_file` is created first and
removed only by `clean`, and files only go with `local-testnet`), and that published times
are later than the experiment (`FreshInv`).

**ElPairing.** `KnowsAll` says nothing before the end, so `PairingInv` adds what an attempt
has achieved so far: whoever stayed up since it began knows each peer whose request is no
longer in `left` (`ToldKnow`), an attempt starts with all requests in `left` and succeeds
with none (`Progress`), and nobody is its own peer (`KnowsOthers`). A failed attempt fills
`left` again, so `ToldKnow` holds trivially when the next one empties `restarted`.
`PairingRefines` maps `answered` to the clients that gave their enode and are told of
nowhere any more. Its proof corrected the mapping: an earlier one asked for the
statement the script is at, and with a single client, which has no peers to tell, the
last step then took no step of TestnetBootstrap.

**MetricMonitor.** `RoundInv`: a round starts with empty lists and results, and what a
thread brought back is among the answers since the round began. `SortedInv`: after the
last round each list is the set of clients that got its answer. Hence the lists are
disjoint (`OnePlace`) and true.

**TestnetMonitor.** `SlotInv` relates the clock to the goal: a goal that was ahead when
`wait_for_slot` was called is overslept by no more than the last sleep was late, because
each sleep asks for the goal slot at the latest (`NextSlotSoon`) and an earlier one that was
late leaves less to sleep. `EpochInv`: performed epochs lie behind the goal.
The arithmetic of slots (`SlotBounds`, `LateEnd`) is proved for every slot length.

**StatusChecker.** `VerdictInv` ties the verdict to the batch it came from, `BatchInv` the
answers to the clients, `TimeInv` the times of the phases to the loop over slots. That a
batch never begins after the present (`times.batch <= slot`) had to be added for
`TimeInv` to be inductive.

**ConfigAllocation.** Assigned addresses and validators ascend: `AddressInv` and
`ValidatorInv` order them along the collections, above what the file uses.
`NextFreeFound` shows that the search for a free address ends: only finitely many
are reserved. `OverlapsAreKnown` takes two collections that share an address and finds each
case impossible or among the known ones: two of the file would have raised, two assigned
ascend, and of an assigned one and one of the file the first address of the assigned one was
free, so it begins below (`RunsMeet`).

**ForkDetector.** The invariant says that chains are parts of lines of the tree
(`FetchInv`) and that the report is what the chains give (`ReportInv`), whatever became of the
tree since. The three properties are then facts about trees: a line has no branches
(`LineLinear`), two complete chains with one latest parent are equal (`SameHead`), every
chain lies below a unique one (`BelowUnique`), and a chain that begins on the line of another
without being its child has the whole window in between (`WindowBehind`). `LinkedPaths` and
`SortedChains` are inductions over the two loops and over the sort, so the theorems hold for
any number of chains, and for any order of them of one length.

Where a proof is by induction over numbers it takes the least element of the set of
counterexamples (`NatMinimum`), because the library's induction theorems have an operator
as a parameter, which the provers can not instantiate. A line is defined as what every
parent-closed set around a block contains, and the loops are a recursive function whose
existence is proved (`LinkedPaths`); no module declares a RECURSIVE operator.

Only model-checked: everything about fairness, which is beyond the proof system
(`LayersComeUp`, `ReleasedClientsComeUp`, `PairingEnds`, `RetryRecovers`, `RunReturns`,
`KeepsTime`, `Completes`). The properties that TLC refutes (section 4) have no theorem.

## 6. Not modelled

The fields of genesis files and of docker-compose.yaml, the merging of default values,
command lines, log texts and parsers (data); the fork report inside
`antithesis_checker.py` (not called) and the skipped slots of `fork_detector.py` (data);
the validator-operation-spammer, which can not be started: it imports
`etb.monitoring.TestnetMonitor`, which does not exist, and uses `Ethereal`, whose import
is commented out; command wrappers (each starts one program); docker images.
`docker-compose up` is only modelled after a complete init.

The status checker touches `/data/tx-fuzzer-ready` after phase 0; nothing in the repository
reads it, so the model leaves it out.

ForkDetector has two limits. The detector never sees a head itself, only its parent, so
clients on sibling heads have one chain, in the code as in the model, and the
properties speak of the latest parents. Chains are sorted by the length of their
strings; in the model that is the number of their blocks, which is the same while the
numbers of the hashes have one digit, as they have within the bounds.

## 7. Plan

Done, in this order: TestnetBootstrap and its proofs, the refinement, TestnetLifecycle,
MetricMonitor, TestnetMonitor, StatusChecker, ConfigAllocation, ElPairing, ForkDetector;
then the proofs of all safety properties and of both refinements.

Left: what the fault-free bounds on liveness rest on, as safety (a launcher that waits has
a writer, a try that is open has tries left), and facts between modules, such as the answer of
a monitor implying a statement about the bootstrap.

## 8. Running

    tlc -config MCTestnetBootstrap.cfg MCTestnetBootstrap
    for m in TestnetBootstrap TestnetLifecycle ElPairing MetricMonitor TestnetMonitor \
             StatusChecker ConfigAllocation ForkDetector; do tlapm ${m}_proofs.tla; done
