----------------------- MODULE TestnetLifecycle_proofs ------------------------
(***************************************************************************)
(* TLAPS proofs about TestnetLifecycle: over any number of experiments,    *)
(* interrupted cleans and inits, runs and faults. What the containers do   *)
(* between up and down is taken from TestnetBootstrap_proofs.              *)
(***************************************************************************)
EXTENDS TestnetLifecycle, TestnetBootstrap_proofs

USE ClientAssumption, ContentAssumption DEF Exists

\* The state in which no container runs.
Off == /\ at = "down" /\ sub = 0 /\ genesisTime = 0 /\ answered = {}
       /\ el = [c \in Clients |-> Absent]
       /\ clAt = [c \in Clients |-> "wait_enr"]
       /\ clEnr = [c \in Clients |-> Absent]
       /\ clView = [c \in Clients |-> Nothing]
       /\ rd = [r \in Readers |-> Absent]
       /\ bn = "wait"

\* The steps of make init-testnet and make clean: the containers are off and
\* stay off.
InitStep ==
  InitStart \/ InitDirs \/ InitOpenConfig \/ InitWriteConfig \/ InitCompose
    \/ InitInterrupted
CleanStep ==
  CleanStart \/ CleanRootFile \/ CleanDirs \/ CleanDone \/ CleanInterrupted

LEMMA OffTypes ==
  ASSUME TypeOK, Off', UNCHANGED <<disk, collDir, runs, faults>>
  PROVE  TypeOK'
  BY DEF TypeOK, Off, Statements, Content, Nothing

\* The initial state.
LEMMA LInitInvariant == LInit => LIInv
<1> SUFFICES ASSUME LInit PROVE LIInv
  OBVIOUS
<1>1. TypeOK
  BY DEF LInit, ContainersOff, TypeOK, Content, Statements, Nothing
<1>2. LTypeOK
  BY <1>1 DEF LTypeOK, LInit, HostFiles
<1>3. \A f \in Checkpoints : ~Exists(f)
  BY FileFacts DEF LInit
<1>4. InitInv /\ RunInv
  BY <1>3 DEF InitInv, RunInv, LInit, ContainersOff
<1>5. FreshInv
  BY DEF FreshInv, LInit, ContainersOff, Rank
<1> QED
  BY <1>2, <1>4, <1>5 DEF LIInv

\* Nothing the operator does to files and directories changes the containers.
LEMMA OperatorTypes ==
  ASSUME LTypeOK, InitInv, InitStep \/ CleanStep
  PROVE  LTypeOK'
<1> USE DEF LTypeOK, InitStep, CleanStep, HostFiles
<1>1. TypeOK'
  <2>1. Absent \in Content /\ Empty \in Content /\ 0 \in Content
        /\ Nothing \in [config : Content, ssz : Content]
    BY DEF Content, Nothing
  <2>2. disk \in [Files -> Content] /\ disk' \in [Files -> Content]
    <3>1. \/ disk' = disk
          \/ \E f \in Files, v \in Content : disk' = [disk EXCEPT ![f] = v]
      <4>1. "etb_config" \in Files
        BY DEF Files, ScriptFiles
      <4>2. CASE InitOpenConfig \/ InitWriteConfig
        BY <2>1, <4>1, <4>2 DEF InitOpenConfig, InitWriteConfig
      <4>3. CASE CleanRootFile
        BY <2>1, <4>3 DEF CleanRootFile
      <4>4. CASE InitStart \/ InitDirs \/ InitCompose \/ InitInterrupted
        BY <4>4 DEF InitStart, InitDirs, InitCompose, InitInterrupted, vars
      <4>5. CASE CleanStart \/ CleanDirs \/ CleanDone \/ CleanInterrupted
        BY <4>5 DEF CleanStart, CleanDirs, CleanDone, CleanInterrupted, vars
      <4> QED
        BY <4>2, <4>3, <4>4, <4>5
    <3>2. disk \in [Files -> Content]
      BY DEF TypeOK
    <3> HIDE DEF LTypeOK, InitStep, CleanStep, HostFiles
    <3> QED
      BY <3>1, <3>2
  <2>3. collDir' \in [1 .. NumCollections -> [config : Content, ssz : Content]]
    <3>1. collDir' = collDir \/ collDir' = [k \in 1 .. NumCollections |-> Nothing]
      BY DEF InitStart, InitDirs, InitOpenConfig, InitWriteConfig,
         InitCompose, InitInterrupted, CleanStart, CleanRootFile, CleanDirs,
         CleanDone, CleanInterrupted, vars
    <3> QED
      BY <2>1, <3>1 DEF TypeOK
  <2>4. UNCHANGED containerVars /\ faults' \in Nat
    BY DEF InitStart, InitDirs, InitOpenConfig, InitWriteConfig, InitCompose,
       InitInterrupted, CleanStart, CleanRootFile, CleanDirs, CleanDone,
       CleanInterrupted, vars, containerVars, nodeVars, Fault, TypeOK
  <2> QED
    BY <2>2, <2>3, <2>4 DEF TypeOK, containerVars, nodeVars
<1>2. since' \in 0 .. runs' /\ runs' = runs
  BY DEF InitStart, InitDirs, InitOpenConfig, InitWriteConfig, InitCompose,
     InitInterrupted, CleanStart, CleanRootFile, CleanDirs, CleanDone,
     CleanInterrupted, vars, containerVars, TypeOK
<1>3. /\ op' \in {"idle", "init_dirs", "init_config", "init_write",
                  "init_compose", "ready", "clean"}
      /\ host' \in [HostFiles -> BOOLEAN]
  BY DEF InitStart, InitDirs, InitOpenConfig, InitWriteConfig, InitCompose,
     InitInterrupted, CleanStart, CleanRootFile, CleanDirs, CleanDone,
     CleanInterrupted
<1>4. op' = "ready" => \A h \in HostFiles : host'[h]
  BY DEF InitStart, InitDirs, InitOpenConfig, InitWriteConfig, InitCompose,
     InitInterrupted, CleanStart, CleanRootFile, CleanDirs, CleanDone,
     CleanInterrupted, InitInv
<1> QED
  BY <1>1, <1>2, <1>3, <1>4

\* What init and clean do to the files keeps the rest of the invariant: the
\* containers are off, and there is no checkpoint between mkdir and up.
LEMMA OperatorKeepsLIInv ==
  ASSUME LIInv, InitStep \/ CleanStep
  PROVE  LIInv'
<1> USE DEF InitStep, CleanStep, HostFiles
<1>1. LTypeOK' /\ LTypeOK /\ InitInv /\ RunInv /\ FreshInv
  BY OperatorTypes DEF LIInv
<1>2. /\ op # "up" /\ op' \notin {"up", "stopped"} /\ UNCHANGED containerVars
      /\ host \in [HostFiles -> BOOLEAN] /\ disk \in [Files -> Content]
      /\ at = "down"
  BY <1>1 DEF InitStart, InitDirs, InitOpenConfig, InitWriteConfig, InitCompose,
     InitInterrupted, CleanStart, CleanRootFile, CleanDirs, CleanDone,
     CleanInterrupted, vars, containerVars, nodeVars, LTypeOK, TypeOK, RunInv
<1>3. RunInv'
  BY <1>1, <1>2 DEF RunInv, containerVars, nodeVars
<1>4. FreshInv'
  BY <1>2 DEF FreshInv, containerVars, Rank
<1>5. InitInv'
  <2>1. CASE UNCHANGED disk
    <3>1. CASE InitStep
      BY <1>1, <1>2, <2>1, <3>1 DEF InitStart, InitDirs, InitOpenConfig,
         InitWriteConfig, InitCompose, InitInterrupted, InitInv
    <3>2. CASE CleanStep
      BY <1>1, <1>2, <2>1, <3>2, FileFacts DEF CleanStart, CleanRootFile,
         CleanDirs, CleanDone, CleanInterrupted, InitInv
    <3> QED
      BY <3>1, <3>2
  <2>2. CASE InitOpenConfig /\ ~UNCHANGED disk
    BY <1>1, <1>2, <2>2, FileFacts DEF InitOpenConfig, InitInv
  <2>3. CASE InitWriteConfig
    BY <1>1, <1>2, <2>3, FileFacts DEF InitWriteConfig, InitInv
  <2>4. CASE CleanRootFile /\ ~UNCHANGED disk
    BY <1>1, <1>2, <2>4, FileFacts DEF CleanRootFile, InitInv
  <2> QED
    BY <2>1, <2>2, <2>3, <2>4 DEF InitStart, InitDirs, InitCompose,
       InitInterrupted, CleanStart, CleanDirs, CleanDone, CleanInterrupted, vars
<1> QED
  BY <1>1, <1>3, <1>4, <1>5 DEF LIInv

\* A live run that is past load has read the clock of this experiment.
LEMMA ContainerKeepsFresh ==
  ASSUME LIInv, ContainerStep
  PROVE  FreshInv'
<1>1. /\ op = "up" /\ op' = "up" /\ since' = since /\ since \in Nat
      /\ IInv /\ IInv' /\ TypeOK /\ TypeOK' /\ FreshInv /\ [Next]_vars
  BY InductiveStep DEF ContainerStep, LIInv, RunInv, LTypeOK, IInv, TypeOK
<1>2. /\ at' # "down" => runs' > since
      /\ Rank[at'] \in 1 .. 14 => genesisTime' > since
  <2>1. CASE StartBootstrapper
    BY <1>1, <2>1 DEF StartBootstrapper, Goto, FreshInv, Rank, LIInv, LTypeOK,
       TypeOK
  <2>2. CASE LoadConfig
    BY <1>1, <2>2 DEF LoadConfig, Goto, FreshInv, Rank
  <2>3. CASE ~StartBootstrapper /\ ~LoadConfig
    <3>1. /\ runs' = runs /\ genesisTime' = genesisTime
          /\ \/ at' \in {at, "down"}
             \/ at # "down" /\ Rank[at] \in 1 .. 14
      <4>1. ASSUME NEW f \in ScriptFiles, OpenFile(f) \/ WriteFile(f)
            PROVE  /\ runs' = runs /\ genesisTime' = genesisTime
                   /\ at # "down" /\ Rank[at] \in 1 .. 14
        <5>1. Rank[f] \in 1 .. 14 /\ f # "down"
          BY DEF Rank, ScriptFiles, Checkpoints, ElGenesisFiles
        <5> QED
          BY <4>1, <5>1 DEF OpenFile, WriteFile
      <4>2. CASE \/ WriteConfigRefused \/ ElectraForkMissing \/ BootstrapperFault
        BY <4>2 DEF WriteConfigRefused, ElectraForkMissing, Goto,
           BootstrapperFault, GenesisToolFails, PairFails,
           GetDeploymentBlockFails, CrashBootstrapper
      <4>3. CASE PairSucceeds \/ GetDeploymentBlock \/ CopyConfig \/ CopySsz \/ CopyDone
        <5>1. Rank[at] \in 1 .. 14 /\ at # "down"
          BY <4>3 DEF PairSucceeds, GetDeploymentBlock, CopyConfig, CopySsz,
             CopyDone, Rank
        <5> QED
          BY <4>3, <5>1 DEF PairSucceeds, GetDeploymentBlock, CopyConfig, CopySsz,
             CopyDone
      <4>4. ASSUME NEW c \in Clients, ElAnswers(c)
            PROVE  /\ runs' = runs /\ genesisTime' = genesisTime
                   /\ at' = at /\ at # "down"
        BY <4>4 DEF ElAnswers
      <4>5. CASE BootnodeStep \/ CrashBootnode \/ UNCHANGED vars
        BY <4>5 DEF BootnodeStep, StartBootnode, OpenEnr, WriteEnr,
           CrashBootnode, vars, bootVars
      <4>6. CASE \/ \E c \in Clients : \/ LaunchEl(c) \/ SeeEnr(c)
                                       \/ LaunchCl(c) \/ RestartClient(c)
                 \/ \E r \in Readers : GetEtbConfig(r) \/ RestartReader(r)
        BY <4>6 DEF LaunchEl, SeeEnr, LaunchCl, RestartClient, GetEtbConfig,
           RestartReader, bootVars
      <4> QED
        BY <1>1, <2>3, <4>1, <4>2, <4>3, <4>4, <4>5, <4>6
        DEF Next, BootstrapperStep
    <3> QED
      BY <1>1, <3>1 DEF FreshInv, Rank
  <2> QED
    BY <2>1, <2>2, <2>3
<1>3. Exists("etb_config_checkpoint")' => disk'["etb_config"] > since
  <2>1. CASE Exists("etb_config_checkpoint")
    <3>1. disk'["etb_config"] = disk["etb_config"]
      <4>1. "etb_config_checkpoint" \in DOMAIN Guarded
            /\ "etb_config" \in Guarded["etb_config_checkpoint"]
        BY DEF Guarded
      <4> QED
        BY <1>1, <2>1, <4>1, SealStep
    <3> QED
      BY <1>1, <2>1, <3>1 DEF FreshInv
  <2>2. CASE ~Exists("etb_config_checkpoint") /\ Exists("etb_config_checkpoint")'
    <3>1. at = "etb_config_checkpoint" /\ genesisTime' = genesisTime
          /\ disk'["etb_config"] = disk["etb_config"]
      <4>1. /\ disk \in [Files -> Content] /\ "etb_config" \in Files
            /\ "etb_config_checkpoint" \in Files
            /\ disk'["etb_config_checkpoint"] # disk["etb_config_checkpoint"]
        BY <1>1, <2>2, FileFacts DEF TypeOK
      <4>2. /\ at = "etb_config_checkpoint" /\ genesisTime' = genesisTime
            /\ \E v : disk' = [disk EXCEPT !["etb_config_checkpoint"] = v]
        BY <1>1, <4>1, FileFacts, OnlyFilesChange DEF OpenFile, WriteFile
      <4> QED
        BY <4>1, <4>2
    <3>2. disk["etb_config"] = genesisTime
      BY <1>1, <3>1, FileFacts DEF IInv, PublisherInv, Rank
    <3> QED
      BY <1>1, <3>1, <3>2 DEF FreshInv, Rank
  <2> QED
    BY <2>1, <2>2
<1> QED
  BY <1>1, <1>2, <1>3 DEF FreshInv

\* While it is up, the testnet behaves as one experiment.
LEMMA ContainerKeepsLIInv ==
  ASSUME LIInv, ContainerStep
  PROVE  LIInv'
<1>1. /\ op = "up" /\ UNCHANGED <<op, host, since>> /\ IInv' /\ TypeOK'
      /\ runs \in Nat /\ LTypeOK /\ InitInv
  BY InductiveStep DEF ContainerStep, LIInv, RunInv, LTypeOK, IInv, TypeOK
<1>2. runs' \in Nat /\ runs' >= runs
  <2>1. CASE StartBootstrapper
    BY <1>1, <2>1 DEF StartBootstrapper
  <2>2. ASSUME BootstrapperStep \/ BootstrapperFault PROVE runs' = runs
    <3>1. CASE BootstrapperStep
      BY <3>1 DEF BootstrapperStep, LoadConfig, WriteConfigRefused, OpenFile,
         WriteFile, ElectraForkMissing, ElAnswers, PairSucceeds,
         GetDeploymentBlock, CopyConfig, CopySsz, CopyDone
    <3>2. CASE BootstrapperFault
      BY <3>2 DEF BootstrapperFault, GenesisToolFails, PairFails,
         GetDeploymentBlockFails, CrashBootstrapper
    <3> QED
      BY <2>2, <3>1, <3>2
  <2>3. CASE \/ BootnodeStep \/ CrashBootnode
             \/ \E c \in Clients : \/ LaunchEl(c) \/ SeeEnr(c)
                                   \/ LaunchCl(c) \/ RestartClient(c)
             \/ \E r \in Readers : GetEtbConfig(r) \/ RestartReader(r)
    BY <1>1, <2>3 DEF BootnodeStep, StartBootnode, OpenEnr, WriteEnr,
       CrashBootnode, LaunchEl, SeeEnr, LaunchCl, RestartClient, GetEtbConfig,
       RestartReader, bootVars
  <2> QED
    BY <1>1, <2>1, <2>2, <2>3 DEF ContainerStep, Next
<1>3. LTypeOK'
  BY <1>1, <1>2 DEF LTypeOK
<1>4. InitInv' /\ RunInv'
  BY <1>1 DEF InitInv, RunInv, LTypeOK, HostFiles
<1> QED
  BY <1>3, <1>4, ContainerKeepsFresh DEF LIInv

LEMMA UpKeepsLIInv ==
  ASSUME LIInv, Up
  PROVE  LIInv'
<1>1. /\ op \in {"ready", "stopped"} /\ op' = "up"
      /\ UNCHANGED <<disk, collDir, at, sub, genesisTime, answered, el, clAt,
                     clEnr, clView, rd, bn, runs, faults, host, since>>
  BY DEF Up, vars
<1>2. LTypeOK /\ TypeOK /\ InitInv /\ RunInv /\ FreshInv
  BY DEF LIInv, LTypeOK
<1>3. op = "ready" => \A f \in Checkpoints : ~Exists(f)
  BY <1>2 DEF InitInv
<1>4. TypeOK'
  BY <1>1, <1>2 DEF TypeOK
<1>5. LTypeOK'
  BY <1>1, <1>2, <1>4 DEF LTypeOK
<1>6. InitInv'
  BY <1>1, <1>2 DEF InitInv, LTypeOK, HostFiles
<1>7. SealInv'
  <2>1. SealInv
    BY <1>1, <1>2, <1>3, FileFacts DEF RunInv, SealInv
  <2> QED
    BY <1>1, <2>1 DEF SealInv
<1>8. IInv'
  <2>1. /\ at' = "down" /\ clAt' = [c \in Clients |-> "wait_enr"]
        /\ clView' = [c \in Clients |-> Nothing]
        /\ el' = [c \in Clients |-> Absent] /\ rd' = [r \in Readers |-> Absent]
    BY <1>1, <1>2 DEF RunInv
  <2>2. PairedInv' /\ PublisherInv' /\ ConfigInv'
    BY <2>1 DEF PairedInv, PublisherInv, ConfigInv, Rank
  <2>3. ViewInv'
    BY <2>1 DEF ViewInv
  <2> QED
    BY <1>4, <1>7, <2>2, <2>3 DEF IInv
<1>9. FreshInv'
  BY <1>1, <1>2, <1>3, FileFacts DEF FreshInv
<1> QED
  BY <1>1, <1>5, <1>6, <1>8, <1>9 DEF LIInv, RunInv

LEMMA DownKeepsLIInv ==
  ASSUME LIInv, Down
  PROVE  LIInv'
<1>1. /\ op = "up" /\ op' = "stopped" /\ Off'
      /\ UNCHANGED <<disk, collDir, runs, faults, host, since>>
  BY DEF Down, Off
<1>2. LTypeOK /\ TypeOK /\ InitInv /\ IInv /\ FreshInv
  BY <1>1 DEF LIInv, LTypeOK, RunInv
<1>3. TypeOK'
  BY <1>1, <1>2, OffTypes
<1>4. LTypeOK'
  BY <1>1, <1>2, <1>3 DEF LTypeOK
<1>5. InitInv'
  BY <1>1, <1>2 DEF InitInv, LTypeOK, HostFiles
<1>6. RunInv'
  BY <1>1, <1>2 DEF RunInv, Off, IInv, SealInv
<1>7. FreshInv'
  BY <1>1, <1>2 DEF FreshInv, Off, Rank
<1> QED
  BY <1>4, <1>5, <1>6, <1>7 DEF LIInv

\* The inductive invariant of the lifecycle: an experiment that was initialised
\* starts without a checkpoint, and everything it runs with is of its own.
THEOREM LifecycleInvariant == LSpec => []LIInv
<1>1. ASSUME LIInv, [LNext]_lvars PROVE LIInv'
  <2>1. CASE UNCHANGED lvars
    <3>1. LTypeOK'
      BY <1>1, <2>1 DEF lvars, vars, LIInv, LTypeOK, TypeOK
    <3>2. InitInv'
      BY <1>1, <2>1 DEF lvars, vars, LIInv, InitInv
    <3>3. IInv => IInv'
      <4>1. TypeOK => TypeOK'
        BY <2>1 DEF lvars, vars, TypeOK
      <4>2. PairedInv /\ ConfigInv => PairedInv' /\ ConfigInv'
        BY <2>1 DEF lvars, vars, PairedInv, ConfigInv
      <4>3. PublisherInv => PublisherInv'
        BY <2>1 DEF lvars, vars, PublisherInv
      <4>4. SealInv => SealInv'
        BY <2>1 DEF lvars, vars, SealInv
      <4>5. ViewInv => ViewInv'
        BY <2>1 DEF lvars, vars, ViewInv
      <4> QED
        BY <4>1, <4>2, <4>3, <4>4, <4>5 DEF IInv
    <3>4. SealInv => SealInv'
      BY <2>1 DEF lvars, vars, SealInv
    <3>5. RunInv'
      BY <1>1, <2>1, <3>3, <3>4 DEF lvars, vars, LIInv, RunInv
    <3>6. FreshInv'
      BY <1>1, <2>1 DEF lvars, vars, LIInv, FreshInv
    <3> QED
      BY <3>1, <3>2, <3>5, <3>6 DEF LIInv
  <2> QED
    BY <1>1, <2>1, OperatorKeepsLIInv, ContainerKeepsLIInv, UpKeepsLIInv,
       DownKeepsLIInv
    DEF LNext, InitStep, CleanStep
<1> QED
  BY <1>1, LInitInvariant, PTL DEF LSpec

\* The types, and docker-compose up only after a complete init.
THEOREM LifecycleTypes == LSpec => []LTypeOK
<1>1. LIInv => LTypeOK
  BY DEF LIInv
<1> QED
  BY <1>1, LifecycleInvariant, PTL

\* However the last clean or init ended, a testnet that is ready has no
\* checkpoint file of an earlier one.
THEOREM CleanWhenReady == LSpec => []ReadyIsClean
<1>1. LIInv => ReadyIsClean
  BY DEF LIInv, InitInv, ReadyIsClean
<1> QED
  BY <1>1, LifecycleInvariant, PTL

\* Nothing runs unless the testnet is up.
LEMMA ViewsWhenUp ==
  ASSUME LIInv, op # "up"
  PROVE  Views = {}
<1>1. /\ \A c \in Clients : el[c] = Absent /\ clView[c] = Nothing
      /\ \A r \in Readers : rd[r] = Absent
  BY DEF LIInv, RunInv
<1> QED
  BY <1>1 DEF Views, Nothing

\* Every EL, CL and config reader of an experiment runs with a genesis time
\* that was chosen after this experiment's init.
THEOREM GenesisIsFresh == LSpec => []NoStaleGenesis
<1>1. ASSUME LIInv PROVE NoStaleGenesis
  <2>1. CASE op = "up"
    <3>1. IInv /\ FreshInv
      BY <1>1, <2>1 DEF LIInv, RunInv
    <3> QED
      BY <2>1, <3>1, ViewsArePublished DEF NoStaleGenesis, FreshInv
  <2>2. CASE op # "up"
    BY <1>1, <2>2, ViewsWhenUp DEF NoStaleGenesis
  <2> QED
    BY <2>1, <2>2
<1> QED
  BY <1>1, LifecycleInvariant, PTL

\* All that runs at the same time has the same genesis time, over any number
\* of experiments.
THEOREM LifecycleAgreement == LSpec => []GenesisAgreement
<1>1. ASSUME LIInv PROVE GenesisAgreement
  <2>1. CASE op = "up"
    <3>1. IInv
      BY <1>1, <2>1 DEF LIInv, RunInv
    <3> QED
      BY <3>1, ViewsArePublished DEF GenesisAgreement
  <2>2. CASE op # "up"
    BY <1>1, <2>2, ViewsWhenUp DEF GenesisAgreement
  <2> QED
    BY <2>1, <2>2
<1> QED
  BY <1>1, LifecycleInvariant, PTL
=============================================================================
