--------------------------- MODULE TestnetBootstrap ---------------------------
(***************************************************************************)
(* bootstrap_testnet of testnet_bootstrapper.py and everything that waits  *)
(* for the files it leaves in the shared /data volume: the consensus       *)
(* bootnode, the execution (EL) and consensus (CL) launchers of every      *)
(* client container, and the containers that call get_etb_config.          *)
(*                                                                         *)
(* There is no other channel between these processes: a file is opened     *)
(* (created or truncated) in one step and has its content in a later one,  *)
(* a process may look at it in between, and any process may die between    *)
(* any two of its steps and be started again.                              *)
(*                                                                         *)
(* The content of a file is the genesis time that was baked into it, 0     *)
(* when it carries none.                                                   *)
(***************************************************************************)
EXTENDS Naturals, FiniteSets

CONSTANTS
  Clients,         \* client instances: an EL and a CL in one container
  Readers,         \* containers that read etb-config.yaml (node-watch, ...)
  EagerClients,    \* CL launchers that read the ENR before the checkpoint
  AdminClients,    \* clients whose EL serves the admin API
  EthClients,      \* clients whose EL serves the eth API
  NumCollections,  \* number of client collections
  CollectionOf,    \* [Clients -> 1..NumCollections]
  GenesisFile,     \* [Clients -> ElGenesisFiles]: EXECUTION_GENESIS_FILE
  PairAttempts,    \* pair_el_clients_attempts, 10 in the code
  ElectraMended,   \* {FALSE}: the code as it is; {TRUE}: with the electra lines
                   \* of config.yaml mended; both if a property is about either
  MaxRuns,         \* bound: how often the bootstrapper is started
  MaxFaults,       \* bound: crashes, failed requests and failed commands
  Absent, Empty    \* a file that does not exist, or exists without content

ElGenesisFiles == {"geth_genesis", "besu_genesis", "nethermind_genesis"}

ASSUME ClientAssumption ==
  /\ EagerClients \subseteq Clients
  /\ AdminClients \subseteq Clients /\ AdminClients # {}
  /\ EthClients \subseteq Clients /\ EthClients # {}
  /\ NumCollections \in Nat
  /\ CollectionOf \in [Clients -> 1 .. NumCollections]
  /\ GenesisFile \in [Clients -> ElGenesisFiles]
  /\ PairAttempts \in Nat \ {0}
  /\ ElectraMended \subseteq BOOLEAN

ASSUME ContentAssumption ==
  Absent \notin Nat /\ Empty \notin Nat /\ Absent # Empty

Checkpoints ==
  {"etb_config_checkpoint", "bootnode_checkpoint", "execution_checkpoint",
   "consensus_checkpoint"}

\* Everything bootstrap_testnet writes with open(...) as f: f.write(...).
ScriptFiles ==
  Checkpoints \cup ElGenesisFiles
    \cup {"etb_config", "deposit_block", "consensus_config", "genesis_ssz"}

Files == ScriptFiles \cup {"bootnode_enr"}

\* The statement after each of them, in the order of bootstrap_testnet.
After ==
  [etb_config            |-> "etb_config_checkpoint",
   etb_config_checkpoint |-> "bootnode_checkpoint",
   bootnode_checkpoint   |-> "geth_genesis",
   geth_genesis          |-> "besu_genesis",
   besu_genesis          |-> "nethermind_genesis",
   nethermind_genesis    |-> "execution_checkpoint",
   execution_checkpoint  |-> "pair",
   deposit_block         |-> "consensus_config",
   consensus_config      |-> "genesis_ssz",
   genesis_ssz           |-> "copy",
   consensus_checkpoint  |-> "done"]

VARIABLES
  disk,         \* content of each file of the testnet root
  collDir,      \* config.yaml and genesis.ssz in each collection directory
  at, sub,      \* the bootstrapper's next statement, and progress within it
  genesisTime,  \* ETBConfig.genesis_time in the bootstrapper's memory
  answered,     \* ELs that answered in the current pairing attempt
  el,           \* genesis each EL was initialised with, Absent if not running
  clAt,         \* where each CL launcher is
  clEnr,        \* the bootnode ENR each CL launcher read
  clView,       \* config.yaml and genesis.ssz each CL was started with
  rd,           \* genesis time each config reader works with
  bn,           \* where the bootnode's launcher is
  runs, faults  \* bootstrapper runs and faults so far

vars == <<disk, collDir, at, sub, genesisTime, answered, el, clAt, clEnr,
          clView, rd, bn, runs, faults>>

bootVars == <<collDir, at, sub, genesisTime, answered, runs>>
nodeVars == <<el, clAt, clEnr, clView, rd, bn>>

Nothing == [config |-> Absent, ssz |-> Absent]
Exists(f) == disk[f] # Absent
Fault == faults < MaxFaults /\ faults' = faults + 1
Goto(s) == at' = s /\ sub' = 0

\* No container of the testnet runs.
ContainersOff ==
  /\ at = "down" /\ sub = 0 /\ genesisTime = 0 /\ answered = {}
  /\ el = [c \in Clients |-> Absent]
  /\ clAt = [c \in Clients |-> "wait_enr"]
  /\ clEnr = [c \in Clients |-> Absent]
  /\ clView = [c \in Clients |-> Nothing]
  /\ rd = [r \in Readers |-> Absent]
  /\ bn = "wait"

\* What init_testnet leaves: an etb-config.yaml without a genesis time and
\* empty client directories.
Init ==
  /\ disk = [f \in Files |-> IF f = "etb_config" THEN 0 ELSE Absent]
  /\ collDir = [k \in 1 .. NumCollections |-> Nothing]
  /\ ContainersOff
  /\ runs = 0 /\ faults = 0
-----------------------------------------------------------------------------
(***************************************************************************)
(* The bootstrapper.                                                       *)
(***************************************************************************)

\* The container is started, for the first time or again after the program
\* ended in any way. The n-th run reads n from the clock.
StartBootstrapper ==
  /\ at \in {"down", "done"}
  /\ runs < MaxRuns
  /\ runs' = runs + 1
  /\ Goto("load")
  /\ genesisTime' = 0 /\ answered' = {}
  /\ UNCHANGED <<disk, collDir, nodeVars, faults>>

\* ETBConfig(path) raises on a file that is missing or was only truncated.
LoadConfig ==
  /\ at = "load"
  /\ IF disk["etb_config"] \in Nat
       THEN Goto("etb_config") /\ genesisTime' = runs
       ELSE Goto("down") /\ UNCHANGED genesisTime
  /\ UNCHANGED <<disk, collDir, answered, nodeVars, runs, faults>>

\* Mutation: write_config without its look at the checkpoint file.
OpenFileUnchecked(f) ==
  /\ at = f /\ sub = 0
  /\ disk' = [disk EXCEPT ![f] = Empty]
  /\ sub' = 1
  /\ UNCHANGED <<collDir, at, genesisTime, answered, nodeVars, runs, faults>>

\* open(f, "w"); write_config refuses once the config was published.
OpenFile(f) ==
  /\ at = f /\ sub = 0
  /\ f = "etb_config" => ~Exists("etb_config_checkpoint")
  /\ disk' = [disk EXCEPT ![f] = Empty]
  /\ sub' = 1
  /\ UNCHANGED <<collDir, at, genesisTime, answered, nodeVars, runs, faults>>

WriteConfigRefused ==
  /\ at = "etb_config" /\ sub = 0
  /\ Exists("etb_config_checkpoint")
  /\ Goto("down")
  /\ UNCHANGED <<disk, collDir, genesisTime, answered, nodeVars, runs, faults>>

\* The fork times of the EL genesis files and MIN_GENESIS_TIME of config.yaml
\* come from memory; eth2-testnet-genesis takes it from the config.yaml on disk.
ContentOf(f) ==
  CASE f \in Checkpoints       -> Empty
    [] f = "deposit_block"     -> 0
    [] f = "genesis_ssz"       -> disk["consensus_config"]
    [] OTHER                   -> genesisTime

\* config.yaml is only written if the lines on electra were other ones.
WriteFile(f) ==
  /\ at = f /\ sub = 1
  /\ f = "consensus_config" => TRUE \in ElectraMended
  /\ disk' = [disk EXCEPT ![f] = ContentOf(f)]
  /\ Goto(After[f])
  /\ UNCHANGED <<collDir, genesisTime, answered, nodeVars, runs, faults>>

\* With config.yaml already open create_consensus_config_yaml raises, in every
\* run: nothing sets the electra_fork it reads, and with one the lines that follow
\* would raise as well, as they give an epoch to a format as its width.
ElectraForkMissing ==
  /\ at = "consensus_config" /\ sub = 1
  /\ FALSE \in ElectraMended
  /\ Goto("down")
  /\ UNCHANGED <<disk, collDir, genesisTime, answered, nodeVars, runs, faults>>

\* eth2-testnet-genesis writes to stderr: the exception ends the run with
\* genesis.ssz open.
GenesisToolFails ==
  /\ at = "genesis_ssz" /\ sub = 1
  /\ Fault
  /\ Goto("down")
  /\ UNCHANGED <<disk, collDir, genesisTime, answered, nodeVars, runs>>

\* One EL with the admin API answers admin_nodeInfo and every admin_addPeer.
ElAnswers(c) ==
  /\ at = "pair"
  /\ c \in AdminClients \ answered
  /\ el[c] # Absent
  /\ answered' = answered \cup {c}
  /\ UNCHANGED <<disk, collDir, at, sub, genesisTime, nodeVars, runs, faults>>

PairSucceeds ==
  /\ at = "pair" /\ answered = AdminClients
  /\ Goto("deposit_rpc")
  /\ UNCHANGED <<disk, collDir, genesisTime, answered, nodeVars, runs, faults>>

\* Mutation: the last failed attempt is not raised.
PairGivesUpQuietly ==
  /\ at = "pair"
  /\ Fault
  /\ answered' = {}
  /\ IF sub = PairAttempts - 1
       THEN Goto("deposit_rpc")
       ELSE sub' = sub + 1 /\ UNCHANGED at
  /\ UNCHANGED <<disk, collDir, genesisTime, nodeVars, runs>>

\* An EL does not answer in time: the attempt starts over, the last one
\* prints "terminate" and raises. sub counts the attempts that failed.
PairFails ==
  /\ at = "pair"
  /\ Fault
  /\ answered' = {}
  /\ IF sub = PairAttempts - 1
       THEN Goto("down")
       ELSE sub' = sub + 1 /\ UNCHANGED at
  /\ UNCHANGED <<disk, collDir, genesisTime, nodeVars, runs>>

\* Mutation: it asks a client whose CL is up as well.
GetDeploymentBlockFromNode ==
  /\ at = "deposit_rpc"
  /\ \E c \in EthClients : clAt[c] = "running"
  /\ Goto("deposit_block")
  /\ UNCHANGED <<disk, collDir, genesisTime, answered, nodeVars, runs, faults>>

\* get_deposit_contract_deployment_block asks one EL with the eth API.
GetDeploymentBlock ==
  /\ at = "deposit_rpc"
  /\ \E c \in EthClients : el[c] # Absent
  /\ Goto("deposit_block")
  /\ UNCHANGED <<disk, collDir, genesisTime, answered, nodeVars, runs, faults>>

\* It raises when the chosen one does not answer; there is no second try.
GetDeploymentBlockFails ==
  /\ at = "deposit_rpc"
  /\ Fault
  /\ Goto("down")
  /\ UNCHANGED <<disk, collDir, genesisTime, answered, nodeVars, runs>>

\* shutil.copy of the first file into the directory of the next collection ...
CopyConfig ==
  /\ at = "copy" /\ sub < NumCollections
  /\ collDir' = [collDir EXCEPT ![sub + 1].config = disk["consensus_config"]]
  /\ at' = "copy_ssz"
  /\ UNCHANGED <<disk, sub, genesisTime, answered, nodeVars, runs, faults>>

\* ... and of the second; what lighthouse and nimbus are given on top has no
\* genesis time in it.
CopySsz ==
  /\ at = "copy_ssz"
  /\ collDir' = [collDir EXCEPT ![sub + 1].ssz = disk["genesis_ssz"]]
  /\ at' = "copy" /\ sub' = sub + 1
  /\ UNCHANGED <<disk, genesisTime, answered, nodeVars, runs, faults>>

CopyDone ==
  /\ at = "copy" /\ sub = NumCollections
  /\ Goto("consensus_checkpoint")
  /\ UNCHANGED <<disk, collDir, genesisTime, answered, nodeVars, runs, faults>>

CrashBootstrapper ==
  /\ at \notin {"down", "done"}
  /\ Fault
  /\ Goto("down")
  /\ UNCHANGED <<disk, collDir, genesisTime, answered, nodeVars, runs>>
-----------------------------------------------------------------------------
(***************************************************************************)
(* The bootnode: launch-eth2-bootnode.sh.                                  *)
(***************************************************************************)
StartBootnode ==
  /\ bn = "wait" /\ Exists("bootnode_checkpoint")
  /\ bn' = "launched"
  /\ UNCHANGED <<disk, bootVars, el, clAt, clEnr, clView, rd, faults>>

\* The shell creates the file before curl asks for the ENR.
OpenEnr ==
  /\ bn = "launched"
  /\ disk' = [disk EXCEPT !["bootnode_enr"] = Empty]
  /\ bn' = "writing"
  /\ UNCHANGED <<bootVars, el, clAt, clEnr, clView, rd, faults>>

\* curl without --fail: when the request fails the file stays empty.
WriteEnr ==
  /\ bn = "writing"
  /\ \/ disk' = [disk EXCEPT !["bootnode_enr"] = 0] /\ UNCHANGED faults
     \/ Fault /\ UNCHANGED disk
  /\ bn' = "up"
  /\ UNCHANGED <<bootVars, el, clAt, clEnr, clView, rd>>

CrashBootnode ==
  /\ bn # "wait"
  /\ Fault
  /\ bn' = "wait"
  /\ UNCHANGED <<disk, bootVars, el, clAt, clEnr, clView, rd>>
-----------------------------------------------------------------------------
(***************************************************************************)
(* The client containers: an EL launcher and a CL launcher side by side.   *)
(***************************************************************************)
\* Mutation: the launcher waits for the genesis file, not the checkpoint.
LaunchElOnGenesisFile(c) ==
  /\ el[c] = Absent /\ Exists(GenesisFile[c])
  /\ el' = [el EXCEPT ![c] = disk[GenesisFile[c]]]
  /\ UNCHANGED <<disk, bootVars, clAt, clEnr, clView, rd, bn, faults>>

\* EL launchers wait for the execution checkpoint, then initialise the
\* database of the EL with EXECUTION_GENESIS_FILE.
LaunchEl(c) ==
  /\ el[c] = Absent /\ Exists("execution_checkpoint")
  /\ el' = [el EXCEPT ![c] = disk[GenesisFile[c]]]
  /\ UNCHANGED <<disk, bootVars, clAt, clEnr, clView, rd, bn, faults>>

\* Mutation: the launcher waits for an ENR file with content.
SeeEnrContent(c) ==
  /\ clAt[c] = "wait_enr" /\ disk["bootnode_enr"] = 0
  /\ clAt' = [clAt EXCEPT ![c] = "wait_checkpoint"]
  /\ clEnr' = [clEnr EXCEPT ![c] = 0]
  /\ UNCHANGED <<disk, bootVars, el, clView, rd, bn, faults>>

\* All launchers wait for the ENR file first; all but prysm's read it now.
SeeEnr(c) ==
  /\ clAt[c] = "wait_enr" /\ Exists("bootnode_enr")
  /\ clAt' = [clAt EXCEPT ![c] = "wait_checkpoint"]
  /\ clEnr' = IF c \in EagerClients
                THEN [clEnr EXCEPT ![c] = disk["bootnode_enr"]] ELSE clEnr
  /\ UNCHANGED <<disk, bootVars, el, clView, rd, bn, faults>>

\* Mutation: the CL does not wait for the consensus checkpoint.
LaunchClEarly(c) ==
  /\ clAt[c] = "wait_checkpoint"
  /\ clAt' = [clAt EXCEPT ![c] = "running"]
  /\ clEnr' = [clEnr EXCEPT ![c] = disk["bootnode_enr"]]
  /\ clView' = [clView EXCEPT ![c] = collDir[CollectionOf[c]]]
  /\ UNCHANGED <<disk, bootVars, el, rd, bn, faults>>

\* The CL is started on the directory of its collection (COLLECTION_DIR).
LaunchCl(c) ==
  /\ clAt[c] = "wait_checkpoint" /\ Exists("consensus_checkpoint")
  /\ clAt' = [clAt EXCEPT ![c] = "running"]
  /\ clEnr' = IF c \in EagerClients
                THEN clEnr ELSE [clEnr EXCEPT ![c] = disk["bootnode_enr"]]
  /\ clView' = [clView EXCEPT ![c] = collDir[CollectionOf[c]]]
  /\ UNCHANGED <<disk, bootVars, el, rd, bn, faults>>

\* The container dies with both of its launchers and starts again.
RestartClient(c) ==
  /\ el[c] # Absent \/ clAt[c] # "wait_enr"
  /\ Fault
  /\ el' = [el EXCEPT ![c] = Absent]
  /\ clAt' = [clAt EXCEPT ![c] = "wait_enr"]
  /\ clEnr' = [clEnr EXCEPT ![c] = Absent]
  /\ clView' = [clView EXCEPT ![c] = Nothing]
  /\ UNCHANGED <<disk, bootVars, rd, bn>>
-----------------------------------------------------------------------------
(***************************************************************************)
(* get_etb_config in the monitoring and load containers.                   *)
(***************************************************************************)
GetEtbConfig(r) ==
  /\ rd[r] = Absent /\ Exists("etb_config_checkpoint")
  /\ rd' = [rd EXCEPT ![r] = disk["etb_config"]]
  /\ UNCHANGED <<disk, bootVars, el, clAt, clEnr, clView, bn, faults>>

RestartReader(r) ==
  /\ rd[r] # Absent
  /\ Fault
  /\ rd' = [rd EXCEPT ![r] = Absent]
  /\ UNCHANGED <<disk, bootVars, el, clAt, clEnr, clView, bn>>
-----------------------------------------------------------------------------
BootstrapperStep ==
  \/ LoadConfig \/ WriteConfigRefused
  \/ \E f \in ScriptFiles : OpenFile(f) \/ WriteFile(f)
  \/ ElectraForkMissing
  \/ \E c \in Clients : ElAnswers(c)
  \/ PairSucceeds \/ GetDeploymentBlock
  \/ CopyConfig \/ CopySsz \/ CopyDone

BootstrapperFault ==
  \/ GenesisToolFails \/ PairFails \/ GetDeploymentBlockFails
  \/ CrashBootstrapper

BootnodeStep == StartBootnode \/ OpenEnr \/ WriteEnr

Next ==
  \/ StartBootstrapper \/ BootstrapperStep \/ BootstrapperFault
  \/ BootnodeStep \/ CrashBootnode
  \/ \E c \in Clients :
       LaunchEl(c) \/ SeeEnr(c) \/ LaunchCl(c) \/ RestartClient(c)
  \/ \E r \in Readers : GetEtbConfig(r) \/ RestartReader(r)

Spec == Init /\ [][Next]_vars

(***************************************************************************)
(* Docker starts the bootstrapper once and keeps scheduling every process; *)
(* the waiting loops of the launchers poll once a second. Nothing obliges  *)
(* anybody to start the bootstrapper a second time, or a fault to happen.  *)
(***************************************************************************)
Fairness ==
  /\ WF_vars(StartBootstrapper /\ runs = 0)
  /\ WF_vars(BootstrapperStep)
  /\ WF_vars(BootnodeStep)
  /\ \A c \in Clients :
       WF_vars(LaunchEl(c)) /\ WF_vars(SeeEnr(c)) /\ WF_vars(LaunchCl(c))
  /\ \A r \in Readers : WF_vars(GetEtbConfig(r))

FairSpec == Spec /\ Fairness
-----------------------------------------------------------------------------
Content == Nat \cup {Absent, Empty}
Statements ==
  ScriptFiles \cup {"load", "pair", "deposit_rpc", "copy", "copy_ssz", "done",
                   "down"}

\* The values the variables take.
TypeOK ==
  /\ disk \in [Files -> Content]
  /\ collDir \in [1 .. NumCollections -> [config : Content, ssz : Content]]
  /\ at \in Statements /\ sub \in Nat /\ genesisTime \in Nat
  /\ answered \subseteq AdminClients
  /\ el \in [Clients -> Content]
  /\ clAt \in [Clients -> {"wait_enr", "wait_checkpoint", "running"}]
  /\ clEnr \in [Clients -> Content]
  /\ clView \in [Clients -> [config : Content, ssz : Content]]
  /\ rd \in [Readers -> Content]
  /\ bn \in {"wait", "launched", "writing", "up"}
  /\ runs \in Nat /\ faults \in Nat

\* The genesis times that running ELs, CLs and config readers work with.
Views ==
  ({el[c] : c \in Clients} \cup {rd[r] : r \in Readers}
    \cup {clView[c].config : c \in Clients} \cup {clView[c].ssz : c \in Clients})
  \ {Absent}

\* Whoever was released by a checkpoint file found the files it guards
\* complete and stamped, although files are truncated before they are written
\* and the bootstrapper may die and run again in between.
NoPartialRead == Views \subseteq Nat \ {0}

\* All that runs in the testnet has the same genesis time, even when part of
\* it was started by one run of the bootstrapper and part of it, or the same
\* container once more, during another one.
GenesisAgreement == \A u, v \in Views : u = v

Guarded ==
  [etb_config_checkpoint |-> {"etb_config"},
   execution_checkpoint  |-> ElGenesisFiles,
   consensus_checkpoint  |-> {"consensus_config", "genesis_ssz"}]

\* Once a checkpoint file exists nothing ever reopens what it guards, or
\* copies anything else to the collections: a container that comes back
\* later reads what it read the first time.
CheckpointSealsFiles ==
  [][\A cp \in DOMAIN Guarded : Exists(cp) =>
       /\ Exists(cp)'
       /\ \A f \in Guarded[cp] : disk'[f] = disk[f]
       /\ cp = "consensus_checkpoint" => collDir' = collDir]_vars

\* CL clients are only released in a run that reached every admin EL.
ReleasedAfterPairing ==
  [][Exists("consensus_checkpoint")' /\ ~Exists("consensus_checkpoint")
       => answered = AdminClients]_vars

\* Every CL launcher that has read the ENR of the bootnode has read one, and not
\* the file while curl is still about to fill it. It has before it waits for the
\* checkpoint, so this does not take a run that gets there.
ClHasEnr ==
  \A c \in EagerClients : clAt[c] # "wait_enr" => clEnr[c] # Empty

ClientUp(c) == el[c] # Absent /\ clAt[c] = "running"

\* Without faults the execution layer and the config readers come up, and so does
\* the consensus layer once config.yaml is written: no launcher waits for a file
\* that nobody will write, but for what follows the exception in the middle of that
\* file. As the code is there is always that exception, so the first part is what
\* it does; the second is about the day these lines are mended.
LayersComeUp ==
  [](faults = 0) =>
    /\ <>[](/\ \A c \in Clients : el[c] # Absent
            /\ \A r \in Readers : rd[r] # Absent
            /\ Exists("consensus_config"))
    /\ disk["consensus_config"] \in Nat ~> \A c \in Clients : ClientUp(c)

\* "bootstrap and run the testnet": without faults all of it comes up.
TestnetComesUp ==
  [](faults = 0) =>
    <>[](/\ \A c \in Clients : ClientUp(c)
         /\ \A r \in Readers : rd[r] # Absent)

\* With faults, every client that was released comes (back) up. This is about
\* what follows the consensus checkpoint, and not that there will be one.
ReleasedClientsComeUp ==
  Exists("consensus_checkpoint") ~> \A c \in Clients : ClientUp(c)
-----------------------------------------------------------------------------
(***************************************************************************)
(* Why these properties hold: the inductive invariant.                     *)
(***************************************************************************)
\* The order of the statements of bootstrap_testnet.
Rank ==
  [load |-> 0, etb_config |-> 1, etb_config_checkpoint |-> 2,
   bootnode_checkpoint |-> 3, geth_genesis |-> 4, besu_genesis |-> 5,
   nethermind_genesis |-> 6, execution_checkpoint |-> 7, pair |-> 8,
   deposit_rpc |-> 9, deposit_block |-> 10, consensus_config |-> 11,
   genesis_ssz |-> 12, copy |-> 13, copy_ssz |-> 13, consensus_checkpoint |-> 14,
   done |-> 15, down |-> 0]

Stamped == ElGenesisFiles \cup {"etb_config", "consensus_config", "genesis_ssz"}
Copied(t) == [config |-> t, ssz |-> t]

\* A live run that is past write_config is the only one that got there: what
\* it has written carries its time and what it has not reached is not there.
PublisherInv ==
  Rank[at] \in 2 .. 14 =>
    /\ genesisTime # 0
    /\ \A f \in Stamped : Rank[f] < Rank[at] => disk[f] = genesisTime
    /\ \A f \in Checkpoints : Rank[f] < Rank[at] => Exists(f)
    /\ \A f \in Checkpoints : Rank[f] > Rank[at] => ~Exists(f)
    /\ at \in Checkpoints /\ sub = 0 => ~Exists(at)
    /\ \A k \in 1 .. NumCollections :
         (at \in {"copy", "copy_ssz"} /\ k <= sub) \/ at = "consensus_checkpoint"
           => collDir[k] = Copied(genesisTime)
    /\ at = "copy_ssz" =>
         sub + 1 \in 1 .. NumCollections /\ collDir[sub + 1].config = genesisTime

\* A run that can still write etb-config.yaml is one that nobody listens to.
ConfigInv ==
  /\ at # "down" => runs # 0
  /\ at = "etb_config" => genesisTime # 0
  /\ at = "etb_config" /\ sub = 1 => ~Exists("etb_config_checkpoint")

\* What a checkpoint file promises.
SealInv ==
  /\ Exists("etb_config_checkpoint") => disk["etb_config"] \in Nat \ {0}
  /\ \A f \in Checkpoints : Exists(f) => Exists("etb_config_checkpoint")
  /\ Exists("execution_checkpoint") =>
       \A f \in ElGenesisFiles : disk[f] = disk["etb_config"]
  /\ Exists("consensus_checkpoint") =>
       /\ disk["consensus_config"] = disk["etb_config"]
       /\ disk["genesis_ssz"] = disk["etb_config"]
       /\ \A k \in 1 .. NumCollections : collDir[k] = Copied(disk["etb_config"])

\* Whoever runs was released by its checkpoint and has the published time.
ViewInv ==
  /\ \A r \in Readers : rd[r] # Absent =>
       Exists("etb_config_checkpoint") /\ rd[r] = disk["etb_config"]
  /\ \A c \in Clients : el[c] # Absent =>
       Exists("execution_checkpoint") /\ el[c] = disk["etb_config"]
  /\ \A c \in Clients :
       IF clAt[c] = "running"
       THEN Exists("consensus_checkpoint") /\ clView[c] = Copied(disk["etb_config"])
       ELSE clView[c] = Nothing

\* A run that is past the pairing has the answer of every admin EL.
PairedInv == Rank[at] \in 9 .. 14 => answered = AdminClients

\* What every state of the bootstrap satisfies, whoever crashed and ran again: it
\* implies NoPartialRead and GenesisAgreement, and decides every step that
\* CheckpointSealsFiles, ReleasedAfterPairing and the refinement are about.
IInv == TypeOK /\ PairedInv /\ PublisherInv /\ ConfigInv /\ SealInv /\ ViewInv
=============================================================================
