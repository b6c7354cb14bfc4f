----------------------- MODULE TestnetBootstrap_proofs ------------------------
(***************************************************************************)
(* TLAPS proofs about TestnetBootstrap, for any clients, readers and       *)
(* collections, any number of runs of the bootstrapper and any number of   *)
(* faults; and that it implements PhasedStartup.                           *)
(***************************************************************************)
EXTENDS BootstrapRefinement, TLAPS

USE ClientAssumption, ContentAssumption

\* The initial state has the types.
LEMMA InitTypeOK == Init => TypeOK
  BY DEF Init, ContainersOff, TypeOK, Content, Statements, Nothing, Files,
         ScriptFiles, Checkpoints, ElGenesisFiles

\* What OpenFile and WriteFile put into a file is content.
LEMMA ContentOfType ==
  ASSUME TypeOK, NEW f \in ScriptFiles
  PROVE  ContentOf(f) \in Content /\ After[f] \in Statements
  BY DEF TypeOK, ContentOf, Content, Statements, After, Files, ScriptFiles,
         Checkpoints, ElGenesisFiles

\* Every step keeps the types.
LEMMA TypeStep ==
  ASSUME TypeOK, [Next]_vars
  PROVE  TypeOK'
<1> USE DEF TypeOK, nodeVars, bootVars, Goto, Fault
<1>1. CASE StartBootstrapper
  BY <1>1 DEF StartBootstrapper, Statements
<1>2. CASE BootstrapperStep
  <2>1. CASE LoadConfig
    BY <2>1 DEF LoadConfig, Statements, ScriptFiles
  <2>2. CASE WriteConfigRefused
    BY <2>2 DEF WriteConfigRefused, Statements
  <2>3. ASSUME NEW f \in ScriptFiles, OpenFile(f) PROVE TypeOK'
    BY <2>3 DEF OpenFile, Content
  <2>4. ASSUME NEW f \in ScriptFiles, WriteFile(f) PROVE TypeOK'
    BY <2>4, ContentOfType DEF WriteFile
  <2>5. CASE ElectraForkMissing
    BY <2>5 DEF ElectraForkMissing, Statements
  <2>6. ASSUME NEW c \in Clients, ElAnswers(c) PROVE TypeOK'
    BY <2>6 DEF ElAnswers
  <2>7. CASE PairSucceeds
    BY <2>7 DEF PairSucceeds, Statements
  <2>8. CASE GetDeploymentBlock
    BY <2>8 DEF GetDeploymentBlock, Statements, ScriptFiles
  <2>9. CASE CopyConfig \/ CopySsz
    <3>1. disk["consensus_config"] \in Content /\ disk["genesis_ssz"] \in Content
      BY DEF Files, ScriptFiles
    <3>2. {"copy", "copy_ssz"} \subseteq Statements
      BY DEF Statements
    <3>3. CASE CopyConfig
      BY <3>1, <3>2, <3>3 DEF CopyConfig
    <3>4. CASE CopySsz
      <4>1. collDir' \in [1 .. NumCollections -> [config : Content, ssz : Content]]
        <5>1. \A e \in [config : Content, ssz : Content] :
                [e EXCEPT !.ssz = disk["genesis_ssz"]]
                  \in [config : Content, ssz : Content]
          BY <3>1
        <5> QED
          BY <5>1, <3>4 DEF CopySsz
      <4> QED
        BY <3>2, <3>4, <4>1 DEF CopySsz
    <3> QED
      BY <2>9, <3>3, <3>4
  <2>10. CASE CopyDone
    BY <2>10 DEF CopyDone, Statements, ScriptFiles, Checkpoints
  <2> QED
    BY <1>2, <2>1, <2>2, <2>3, <2>4, <2>5, <2>6, <2>7, <2>8, <2>9, <2>10
    DEF BootstrapperStep
<1>3. CASE BootstrapperFault
  BY <1>3 DEF BootstrapperFault, GenesisToolFails, PairFails,
              GetDeploymentBlockFails, CrashBootstrapper, Statements
<1>4. CASE BootnodeStep \/ CrashBootnode
  <2>1. CASE StartBootnode
    BY <2>1 DEF StartBootnode
  <2>2. CASE OpenEnr
    BY <2>2 DEF OpenEnr, Content
  <2>3. CASE WriteEnr
    <3>1. disk' = [disk EXCEPT !["bootnode_enr"] = 0] \/ disk' = disk
      BY <2>3 DEF WriteEnr
    <3>0. 0 \in Content /\ disk \in [Files -> Content]
      BY DEF Content
    <3>2. disk' \in [Files -> Content]
      <4>1. [disk EXCEPT !["bootnode_enr"] = 0] \in [Files -> Content]
        BY <3>0
      <4> QED
        BY <3>0, <3>1, <4>1
    <3>3. /\ faults' \in Nat /\ bn' = "up"
          /\ UNCHANGED <<bootVars, el, clAt, clEnr, clView, rd>>
      BY <2>3 DEF WriteEnr
    <3> QED
      BY <3>2, <3>3
  <2>4. CASE CrashBootnode
    BY <2>4 DEF CrashBootnode
  <2> QED
    BY <1>4, <2>1, <2>2, <2>3, <2>4 DEF BootnodeStep
<1>5. ASSUME NEW c \in Clients,
             LaunchEl(c) \/ SeeEnr(c) \/ LaunchCl(c) \/ RestartClient(c)
      PROVE  TypeOK'
  <2>1. /\ disk[GenesisFile[c]] \in Content
        /\ disk["bootnode_enr"] \in Content
        /\ collDir[CollectionOf[c]] \in [config : Content, ssz : Content]
        /\ Absent \in Content /\ Nothing \in [config : Content, ssz : Content]
    BY DEF Files, ScriptFiles, Nothing, Content
  <2>2. CASE LaunchEl(c)
    BY <2>1, <2>2 DEF LaunchEl
  <2>3. CASE SeeEnr(c)
    BY <2>1, <2>3 DEF SeeEnr
  <2>4. CASE LaunchCl(c)
    BY <2>1, <2>4 DEF LaunchCl
  <2>5. CASE RestartClient(c)
    BY <2>1, <2>5 DEF RestartClient
  <2> QED
    BY <1>5, <2>2, <2>3, <2>4, <2>5
<1>6. ASSUME NEW r \in Readers, GetEtbConfig(r) \/ RestartReader(r)
      PROVE  TypeOK'
  <2>1. disk["etb_config"] \in Content /\ Absent \in Content
    BY DEF Files, ScriptFiles, Content
  <2>2. CASE GetEtbConfig(r)
    BY <2>1, <2>2 DEF GetEtbConfig
  <2>3. CASE RestartReader(r)
    BY <2>1, <2>3 DEF RestartReader
  <2> QED
    BY <1>6, <2>2, <2>3
<1>7. CASE UNCHANGED vars
  BY <1>7 DEF vars
<1> QED
  BY <1>1, <1>2, <1>3, <1>4, <1>5, <1>6, <1>7 DEF Next

\* The state space of the model, for any number of everything in it.
THEOREM TypeCorrect == Spec => []TypeOK
  BY InitTypeOK, TypeStep, PTL DEF Spec

\* The pairing is the only way past "pair", and nothing but a new attempt or a
\* new run forgets the answers.
LEMMA PairedStep ==
  ASSUME TypeOK, PairedInv, [Next]_vars
  PROVE  PairedInv'
<1> USE DEF PairedInv, Goto
<1>1. ASSUME NEW f \in ScriptFiles, OpenFile(f) \/ WriteFile(f) PROVE PairedInv'
  <2>1. answered' = answered /\ at = f /\ at' \in {f, After[f]}
    BY <1>1 DEF OpenFile, WriteFile
  <2>2. Rank[at'] \in 9 .. 14 => Rank[f] \in 9 .. 14
    BY <2>1 DEF Rank, After, ScriptFiles, Checkpoints, ElGenesisFiles
  <2> QED
    BY <2>1, <2>2
<1>2. CASE \/ WriteConfigRefused \/ ElectraForkMissing \/ LoadConfig
           \/ StartBootstrapper \/ BootstrapperFault
  <2>1. at' \in {"down", "load", "etb_config", "pair"}
    BY <1>2 DEF WriteConfigRefused, ElectraForkMissing, LoadConfig,
       StartBootstrapper, BootstrapperFault, GenesisToolFails, PairFails,
       GetDeploymentBlockFails, CrashBootstrapper
  <2> QED
    BY <2>1 DEF Rank
<1>3. CASE PairSucceeds \/ GetDeploymentBlock \/ CopyConfig \/ CopySsz \/ CopyDone
  BY <1>3 DEF PairSucceeds, GetDeploymentBlock, CopyConfig, CopySsz, CopyDone, Rank
<1>4. ASSUME NEW c \in Clients, ElAnswers(c) PROVE PairedInv'
  BY <1>4 DEF ElAnswers, Rank
<1>5. CASE UNCHANGED bootVars
  BY <1>5 DEF bootVars
<1>6. CASE \/ BootnodeStep \/ CrashBootnode \/ UNCHANGED vars
           \/ \E c \in Clients : \/ LaunchEl(c) \/ SeeEnr(c)
                                 \/ LaunchCl(c) \/ RestartClient(c)
           \/ \E r \in Readers : GetEtbConfig(r) \/ RestartReader(r)
  BY <1>5, <1>6 DEF BootnodeStep, StartBootnode, OpenEnr, WriteEnr,
     CrashBootnode, LaunchEl, SeeEnr, LaunchCl, RestartClient, GetEtbConfig,
     RestartReader, vars, bootVars
<1> QED
  BY <1>1, <1>2, <1>3, <1>4, <1>6 DEF Next, BootstrapperStep
-----------------------------------------------------------------------------
USE DEF Exists

\* The order of the statements, as numbers.
LEMMA RankFacts ==
  /\ \A s \in Statements : Rank[s] \in 0 .. 15
  /\ \A f \in ScriptFiles : f # "etb_config" <=> Rank[f] \in 2 .. 14
  /\ \A f, g \in ScriptFiles : f # g => Rank[f] < Rank[g] \/ Rank[g] < Rank[f]
  /\ \A f \in ScriptFiles : Rank[After[f]] = Rank[f] + 1
  /\ \A f \in ScriptFiles : After[f] # "consensus_checkpoint"
  /\ \A f \in ElGenesisFiles : Rank[f] < Rank["execution_checkpoint"]
  /\ Rank["consensus_config"] < Rank["genesis_ssz"]
  /\ Rank["genesis_ssz"] < Rank["copy"]
  /\ Rank["copy"] < Rank["consensus_checkpoint"]
  /\ Rank["etb_config"] = 1 /\ Rank["etb_config_checkpoint"] = 2
  /\ Rank["execution_checkpoint"] = 7 /\ Rank["consensus_checkpoint"] = 14
  BY DEF Rank, After, Statements, ScriptFiles, Checkpoints, ElGenesisFiles

LEMMA FileFacts ==
  /\ Stamped \subseteq ScriptFiles /\ Checkpoints \subseteq ScriptFiles
  /\ ElGenesisFiles \subseteq Stamped /\ ScriptFiles \subseteq Files
  /\ {"etb_config", "consensus_config", "genesis_ssz"} \subseteq Stamped
  /\ {"etb_config_checkpoint", "execution_checkpoint", "consensus_checkpoint"}
       \subseteq Checkpoints
  /\ Stamped \cap Checkpoints = {} /\ "bootnode_enr" \notin ScriptFiles
  /\ ScriptFiles \subseteq Statements
  BY DEF Stamped, ScriptFiles, Files, Checkpoints, ElGenesisFiles, Statements

LEMMA InitIInv == Init => IInv
<1> SUFFICES ASSUME Init PROVE IInv
  OBVIOUS
<1>1. TypeOK
  BY InitTypeOK
<1>2. \A f \in Checkpoints : ~Exists(f)
  BY DEF Init, ContainersOff, Files, ScriptFiles, Checkpoints, ElGenesisFiles
<1>3. PublisherInv /\ ConfigInv
  BY DEF Init, ContainersOff, PublisherInv, ConfigInv, Rank
<1>4. SealInv
  BY <1>2 DEF SealInv, Checkpoints
<1>5. ViewInv
  BY DEF Init, ContainersOff, ViewInv
<1>6. PairedInv
  BY DEF Init, ContainersOff, PairedInv, Rank
<1> QED
  BY <1>1, <1>3, <1>4, <1>5, <1>6 DEF IInv

\* Writing or opening the file of the current statement, when that is not
\* etb-config.yaml: no checkpoint that exists guards it, and nobody's view
\* changes.
LEMMA FileStep ==
  ASSUME TypeOK, PublisherInv, SealInv, ViewInv,
         NEW f \in ScriptFiles, f # "etb_config", at = f,
         NEW v, v # Absent,
         \A g \in Files : disk'[g] = IF g = f THEN v ELSE disk[g],
         collDir' = collDir, UNCHANGED nodeVars
  PROVE  /\ SealInv' /\ ViewInv' /\ genesisTime # 0
         /\ \A g \in Stamped : Rank[g] < Rank[f] =>
              disk[g] = genesisTime /\ disk'[g] = genesisTime
         /\ \A g \in Checkpoints : Rank[g] < Rank[f] => Exists(g)'
         /\ \A g \in Checkpoints : Rank[g] > Rank[f] => ~Exists(g)'
         /\ f = "consensus_checkpoint" =>
              \A k \in 1 .. NumCollections : collDir'[k] = Copied(genesisTime)
<1> USE DEF TypeOK
<1>1. Rank[f] \in 2 .. 14
  BY RankFacts
<1>2. /\ genesisTime # 0
      /\ \A g \in Stamped : Rank[g] < Rank[f] => disk[g] = genesisTime
      /\ \A g \in Checkpoints : Rank[g] < Rank[f] => Exists(g)
      /\ \A g \in Checkpoints : Rank[g] > Rank[f] => ~Exists(g)
      /\ f = "consensus_checkpoint" =>
           \A k \in 1 .. NumCollections : collDir[k] = Copied(genesisTime)
  BY <1>1 DEF PublisherInv
<1>3. disk'["etb_config"] = disk["etb_config"] /\ disk["etb_config"] = genesisTime
  BY <1>1, <1>2, RankFacts, FileFacts
<1>4. /\ \A g \in Stamped : Rank[g] < Rank[f] => disk'[g] = genesisTime
      /\ \A g \in Checkpoints : Rank[g] < Rank[f] => Exists(g)'
      /\ \A g \in Checkpoints : Rank[g] > Rank[f] => ~Exists(g)'
  <2>1. \A g \in Stamped \cup Checkpoints :
          Rank[g] < Rank[f] \/ Rank[g] > Rank[f] => g # f /\ g \in Files
    BY <1>1, FileFacts
  <2> QED
    BY <1>2, <2>1
<1>5. \A g \in Checkpoints : Exists(g) => Exists(g)'
  BY FileFacts
<1>6. \A g \in Checkpoints : Exists(g)' => g = f \/ Rank[g] < Rank[f]
  BY <1>4, RankFacts, FileFacts
<1>7. Exists("etb_config_checkpoint")'
  <2>1. CASE f = "etb_config_checkpoint"
    BY <2>1, FileFacts
  <2>2. CASE f # "etb_config_checkpoint"
    <3>1. Rank["etb_config_checkpoint"] < Rank[f]
      <4>1. "etb_config_checkpoint" \in ScriptFiles
        BY FileFacts
      <4>2. \/ Rank[f] < Rank["etb_config_checkpoint"]
            \/ Rank["etb_config_checkpoint"] < Rank[f]
        BY <2>2, <4>1, RankFacts
      <4>3. Rank["etb_config_checkpoint"] = 2
        BY RankFacts
      <4> QED
        BY <1>1, <4>2, <4>3
    <3> QED
      BY <1>2, <1>5, <3>1, FileFacts
  <2> QED
    BY <2>1, <2>2
<1>8. ASSUME Exists("execution_checkpoint")'
      PROVE  \A g \in ElGenesisFiles : disk'[g] = genesisTime
  <2>1. \A g \in ElGenesisFiles : Rank[g] < Rank[f]
    <3>1. "execution_checkpoint" = f \/ Rank["execution_checkpoint"] < Rank[f]
      BY <1>6, <1>8, FileFacts
    <3>2. Rank["execution_checkpoint"] = 7
          /\ \A g \in ElGenesisFiles : Rank[g] \in 4 .. 6
      BY DEF Rank, ElGenesisFiles
    <3>3. Rank[f] \in 7 .. 14
      BY <1>1, <3>1, <3>2
    <3> TAKE g \in ElGenesisFiles
    <3>4. Rank[g] \in 4 .. 6
      BY <3>2
    <3> QED
      BY <3>3, <3>4
  <2> TAKE g \in ElGenesisFiles
  <2>2. g # f /\ g \in Files /\ g \in Stamped
    BY <1>1, <2>1, FileFacts
  <2> QED
    BY <1>2, <2>1, <2>2
<1>9. ASSUME Exists("consensus_checkpoint")'
      PROVE  /\ disk'["consensus_config"] = genesisTime
             /\ disk'["genesis_ssz"] = genesisTime
             /\ \A k \in 1 .. NumCollections : collDir'[k] = Copied(genesisTime)
  <2>1. f = "consensus_checkpoint"
    <3>1. f = "consensus_checkpoint" \/ Rank["consensus_checkpoint"] < Rank[f]
      BY <1>6, <1>9, FileFacts
    <3> QED
      BY <1>1, <3>1, RankFacts
  <2>2. /\ Rank["consensus_config"] < Rank[f] /\ Rank["genesis_ssz"] < Rank[f]
        /\ "consensus_config" \in Stamped /\ "genesis_ssz" \in Stamped
        /\ "consensus_config" # f /\ "genesis_ssz" # f
    BY <2>1, FileFacts DEF Rank
  <2> QED
    BY <1>2, <2>1, <2>2, FileFacts
<1>10. SealInv'
  BY <1>2, <1>3, <1>7, <1>8, <1>9 DEF SealInv
<1>11. ViewInv'
  BY <1>3, <1>5, FileFacts DEF ViewInv, nodeVars
<1> QED
  BY <1>2, <1>4, <1>9, <1>10, <1>11, FileFacts

LEMMA OpenFileKeepsIInv ==
  ASSUME IInv, TypeOK', PairedInv', NEW f \in ScriptFiles, OpenFile(f)
  PROVE  IInv'
<1> USE DEF TypeOK
<1>1. /\ TypeOK /\ PublisherInv /\ ConfigInv /\ SealInv /\ ViewInv
      /\ at = f /\ sub = 0 /\ at' = f /\ sub' = 1
      /\ \A g \in Files : disk'[g] = IF g = f THEN Empty ELSE disk[g]
      /\ genesisTime' = genesisTime /\ collDir' = collDir /\ runs' = runs
      /\ UNCHANGED nodeVars
      /\ f = "etb_config" => ~Exists("etb_config_checkpoint")
  BY FileFacts DEF OpenFile, IInv
<1>2. ConfigInv'
  BY <1>1, FileFacts DEF ConfigInv, Statements
<1>3. CASE f = "etb_config"
  <2>1. \A g \in Checkpoints : ~Exists(g) /\ ~Exists(g)'
    BY <1>1, <1>3, FileFacts DEF SealInv, Checkpoints
  <2>2. PublisherInv'
    BY <1>1, <1>3, RankFacts, FileFacts DEF PublisherInv
  <2>3. SealInv' /\ ViewInv'
    BY <1>1, <2>1, FileFacts DEF SealInv, ViewInv, nodeVars
  <2> QED
    BY <1>2, <2>2, <2>3 DEF IInv
<1>4. CASE f # "etb_config"
  <2>1. f \notin {"copy", "copy_ssz"}
    BY DEF ScriptFiles, Checkpoints, ElGenesisFiles
  <2>2. /\ SealInv' /\ ViewInv' /\ genesisTime # 0
        /\ \A g \in Stamped : Rank[g] < Rank[f] =>
              disk[g] = genesisTime /\ disk'[g] = genesisTime
        /\ \A g \in Checkpoints : Rank[g] < Rank[f] => Exists(g)'
        /\ \A g \in Checkpoints : Rank[g] > Rank[f] => ~Exists(g)'
        /\ f = "consensus_checkpoint" =>
             \A k \in 1 .. NumCollections : collDir'[k] = Copied(genesisTime)
    <3> HIDE DEF TypeOK
    <3> QED
      BY <1>1, <1>4, FileStep
  <2>3. PublisherInv'
    BY <1>1, <2>1, <2>2 DEF PublisherInv
  <2> QED
    BY <1>2, <2>2, <2>3 DEF IInv
<1> QED
  BY <1>3, <1>4

\* Writing a file: the bootstrapper's time goes into every stamped file.
LEMMA WriteFileKeepsIInv ==
  ASSUME IInv, TypeOK', PairedInv', NEW f \in ScriptFiles, WriteFile(f)
  PROVE  IInv'
<1>1. /\ TypeOK /\ PublisherInv /\ ConfigInv /\ SealInv /\ ViewInv
      /\ at = f /\ sub = 1 /\ at' = After[f] /\ sub' = 0
      /\ \A g \in Files : disk'[g] = IF g = f THEN ContentOf(f) ELSE disk[g]
      /\ genesisTime' = genesisTime /\ collDir' = collDir /\ runs' = runs
      /\ UNCHANGED nodeVars
  BY FileFacts DEF WriteFile, IInv, TypeOK, Goto
<1>2. /\ Rank[After[f]] = Rank[f] + 1
      /\ After[f] \notin {"etb_config", "copy", "copy_ssz", "consensus_checkpoint"}
         \/ (f = "genesis_ssz" /\ After[f] = "copy")
  BY DEF Rank, After, ScriptFiles, Checkpoints, ElGenesisFiles
<1>3. ConfigInv'
  BY <1>1, <1>2 DEF ConfigInv, ScriptFiles, Checkpoints, ElGenesisFiles
<1>4. CASE f = "etb_config"
  <2>1. ContentOf(f) = genesisTime /\ After[f] = "etb_config_checkpoint"
    BY <1>4 DEF ContentOf, Checkpoints, After
  <2>2. \A g \in Checkpoints : ~Exists(g) /\ ~Exists(g)'
    BY <1>1, <1>4, FileFacts DEF SealInv, ConfigInv, Checkpoints
  <2>3. \A g \in Stamped : Rank[g] < 2 => g = "etb_config"
    BY DEF Rank, Stamped, ElGenesisFiles
  <2>4. genesisTime # 0 /\ disk'["etb_config"] = genesisTime
    BY <1>1, <1>4, <2>1, FileFacts DEF ConfigInv
  <2>5. PublisherInv'
    BY <1>1, <2>1, <2>2, <2>3, <2>4, RankFacts DEF PublisherInv, Checkpoints, Rank
  <2>6. SealInv' /\ ViewInv'
    BY <1>1, <2>2, FileFacts DEF SealInv, ViewInv, nodeVars
  <2> QED
    BY <1>3, <2>5, <2>6 DEF IInv
<1>5. CASE f # "etb_config"
  <2>1. Rank[f] \in 2 .. 14 /\ ContentOf(f) # Absent
        /\ (f \in Stamped => ContentOf(f) = genesisTime)
    <3>1. Rank[f] \in 2 .. 14
      BY <1>5, RankFacts
    <3>2. f = "genesis_ssz" => disk["consensus_config"] = genesisTime
      BY <1>1, <3>1, RankFacts, FileFacts DEF PublisherInv
    <3>3. genesisTime # Absent
      BY <1>1 DEF TypeOK
    <3> QED
      BY <3>1, <3>2, <3>3, FileFacts DEF ContentOf, Stamped, ElGenesisFiles
  <2>2. /\ SealInv' /\ ViewInv' /\ genesisTime # 0
        /\ \A g \in Stamped : Rank[g] < Rank[f] =>
              disk[g] = genesisTime /\ disk'[g] = genesisTime
        /\ \A g \in Checkpoints : Rank[g] < Rank[f] => Exists(g)'
        /\ \A g \in Checkpoints : Rank[g] > Rank[f] => ~Exists(g)'
    BY <1>1, <1>5, <2>1, FileStep
  <2>3. \A g \in ScriptFiles : Rank[g] \in Nat
                             /\ (Rank[g] < Rank[f] + 1 => g = f \/ Rank[g] < Rank[f])
    BY <2>1, RankFacts, FileFacts
  <2>4. PublisherInv'
    <3>1. \A g \in Stamped : Rank[g] < Rank[f] + 1 => disk'[g] = genesisTime
      BY <1>1, <2>1, <2>2, <2>3, FileFacts
    <3>2. \A g \in Checkpoints : Rank[g] < Rank[f] + 1 => Exists(g)'
      BY <1>1, <2>1, <2>2, <2>3, FileFacts
    <3>3. \A g \in Checkpoints : Rank[g] >= Rank[f] + 1 => ~Exists(g)'
      BY <2>1, <2>2, <2>3, FileFacts
    <3>4. \A g \in Checkpoints : Rank[g] > Rank[f] + 1 => ~Exists(g)'
      BY <2>1, <2>3, <3>3, FileFacts
    <3>5. After[f] \in Checkpoints => ~Exists(After[f])'
      BY <1>2, <2>1, <3>3
    <3> QED
      BY <1>1, <1>2, <2>2, <3>1, <3>2, <3>4, <3>5 DEF PublisherInv
  <2> QED
    BY <1>3, <2>2, <2>4 DEF IInv
<1> QED
  BY <1>4, <1>5

\* A run that ends, in whatever way, takes nothing with it.
LEMMA EndOfRunKeepsIInv ==
  ASSUME IInv, TypeOK', PairedInv', at' = "down",
         UNCHANGED <<disk, collDir, nodeVars>>
  PROVE  IInv'
<1>1. PublisherInv' /\ ConfigInv'
  BY DEF PublisherInv, ConfigInv, Rank
<1>2. SealInv' /\ ViewInv'
  BY DEF IInv, SealInv, ViewInv, nodeVars
<1> QED
  BY <1>1, <1>2 DEF IInv

\* A step of a container that leaves the bootstrapper's files alone.
LEMMA OthersKeepPublisher ==
  ASSUME IInv, \A g \in ScriptFiles : disk'[g] = disk[g], UNCHANGED bootVars
  PROVE  PublisherInv' /\ ConfigInv' /\ SealInv'
<1>1. PublisherInv'
  BY FileFacts DEF IInv, PublisherInv, bootVars
<1>2. ConfigInv'
  BY FileFacts DEF IInv, ConfigInv, bootVars
<1>3. SealInv'
  BY FileFacts DEF IInv, SealInv, bootVars
<1> QED
  BY <1>1, <1>2, <1>3

\* The steps of bootstrap_testnet that write no file.
LEMMA BetweenFilesKeepIInv ==
  ASSUME IInv, TypeOK', PairedInv',
         \/ StartBootstrapper \/ LoadConfig \/ PairSucceeds
         \/ GetDeploymentBlock \/ CopyConfig \/ CopySsz \/ CopyDone \/ PairFails
         \/ \E c \in Clients : ElAnswers(c)
  PROVE  IInv'
<1> USE DEF Goto
<1>1. CASE StartBootstrapper
  <2>1. PublisherInv' /\ ConfigInv'
    BY <1>1 DEF StartBootstrapper, PublisherInv, ConfigInv, Rank, IInv, TypeOK
  <2>2. SealInv' /\ ViewInv'
    BY <1>1 DEF StartBootstrapper, IInv, SealInv, ViewInv, nodeVars
  <2> QED
    BY <2>1, <2>2 DEF IInv
<1>2. CASE LoadConfig
  <2>1. PublisherInv' /\ ConfigInv'
    BY <1>2 DEF LoadConfig, PublisherInv, ConfigInv, Rank, IInv
  <2>2. SealInv' /\ ViewInv'
    BY <1>2 DEF LoadConfig, IInv, SealInv, ViewInv, nodeVars
  <2> QED
    BY <2>1, <2>2 DEF IInv
<1>3. CASE \/ PairSucceeds \/ GetDeploymentBlock
           \/ CopyConfig \/ CopySsz \/ CopyDone
           \/ (PairFails /\ at' # "down") \/ \E c \in Clients : ElAnswers(c)
  <2>1. UNCHANGED <<disk, genesisTime, runs, nodeVars>>
    BY <1>3 DEF PairSucceeds, GetDeploymentBlock, CopyConfig, CopySsz, CopyDone,
                PairFails, ElAnswers
  <2>2. \/ at = "pair" /\ at' \in {"pair", "deposit_rpc"} /\ collDir' = collDir
        \/ at = "deposit_rpc" /\ at' = "deposit_block" /\ collDir' = collDir
        \/ CopyConfig \/ CopySsz \/ CopyDone
    BY <1>3 DEF PairSucceeds, GetDeploymentBlock, PairFails, ElAnswers
  <2>3. PublisherInv
    BY DEF IInv
  <2>4. Rank[at] \in 8 .. 13 /\ Rank[at'] \in {Rank[at], Rank[at] + 1}
        /\ \A f \in Stamped \cup Checkpoints : Rank[f] \in 0 .. 14
             /\ (Rank[f] < Rank[at'] <=> Rank[f] < Rank[at])
             /\ (Rank[f] > Rank[at'] => Rank[f] > Rank[at])
    BY <2>2 DEF CopyConfig, CopySsz, CopyDone, Rank, Stamped, Checkpoints,
                ElGenesisFiles
  <2>5. /\ genesisTime # 0
        /\ \A f \in Stamped : Rank[f] < Rank[at] => disk[f] = genesisTime
        /\ \A f \in Checkpoints : Rank[f] < Rank[at] => Exists(f)
        /\ \A f \in Checkpoints : Rank[f] > Rank[at] => ~Exists(f)
        /\ ~Exists("consensus_checkpoint")
    BY <2>2, <2>3, <2>4 DEF PublisherInv, CopyConfig, CopySsz, CopyDone, Rank,
                            Checkpoints
  <2>6. at' \in Checkpoints => at' = "consensus_checkpoint"
    BY <2>2 DEF CopyConfig, CopySsz, CopyDone, Checkpoints
  <2>7. /\ \A k \in 1 .. NumCollections :
             (at' \in {"copy", "copy_ssz"} /\ k <= sub') \/ at' = "consensus_checkpoint"
               => collDir'[k] = Copied(genesisTime)
        /\ at' = "copy_ssz" => /\ sub' + 1 \in 1 .. NumCollections
                              /\ collDir'[sub' + 1].config = genesisTime
    <3>1. CASE ~(CopyConfig \/ CopySsz \/ CopyDone)
      BY <2>2, <3>1
    <3>2. ASSUME at \in {"copy", "copy_ssz"}
          PROVE  /\ \A k \in 1 .. NumCollections :
                      k <= sub => collDir[k] = Copied(genesisTime)
                 /\ at = "copy_ssz" => /\ sub + 1 \in 1 .. NumCollections
                                      /\ collDir[sub + 1].config = genesisTime
                 /\ disk["consensus_config"] = genesisTime
                 /\ disk["genesis_ssz"] = genesisTime
      BY <2>3, <2>4, <2>5, <3>2 DEF PublisherInv, Rank, Stamped
    <3>3. /\ sub \in Nat /\ NumCollections \in Nat
          /\ collDir \in [1 .. NumCollections -> [config : Content, ssz : Content]]
      BY DEF IInv, TypeOK
    <3>4. CASE CopyConfig
      <4>1. /\ at = "copy" /\ sub < NumCollections
            /\ at' = "copy_ssz" /\ sub' = sub
            /\ collDir' = [collDir EXCEPT ![sub + 1].config = disk["consensus_config"]]
        BY <3>4 DEF CopyConfig
      <4>2. sub + 1 \in 1 .. NumCollections
        BY <3>3, <4>1
      <4>3. \A k \in 1 .. NumCollections : k <= sub => collDir'[k] = collDir[k]
        BY <3>3, <4>1
      <4>4. collDir'[sub + 1].config = disk["consensus_config"]
        BY <3>3, <4>1, <4>2
      <4> QED
        BY <3>2, <4>1, <4>2, <4>3, <4>4
    <3>5. CASE CopySsz
      <4>1. /\ at = "copy_ssz" /\ at' = "copy" /\ sub' = sub + 1
            /\ collDir' = [collDir EXCEPT ![sub + 1].ssz = disk["genesis_ssz"]]
        BY <3>5 DEF CopySsz
      <4>2. \A k \in 1 .. NumCollections : k <= sub => collDir'[k] = collDir[k]
        BY <3>3, <4>1
      <4>3. collDir'[sub + 1] = Copied(genesisTime)
        BY <3>2, <3>3, <4>1 DEF Copied
      <4>4. \A k \in 1 .. NumCollections : k <= sub + 1 => k <= sub \/ k = sub + 1
        BY <3>3
      <4> QED
        BY <3>2, <4>1, <4>2, <4>3, <4>4
    <3>6. CASE CopyDone
      BY <3>2, <3>3, <3>6 DEF CopyDone
    <3> QED
      BY <3>1, <3>4, <3>5, <3>6
  <2>8. PublisherInv'
    BY <2>1, <2>4, <2>5, <2>6, <2>7 DEF PublisherInv
  <2>9. ConfigInv'
    BY <2>1, <2>2 DEF IInv, ConfigInv, CopyConfig, CopySsz, CopyDone
  <2>10. SealInv' /\ ViewInv'
    BY <2>1, <2>5 DEF IInv, SealInv, ViewInv, nodeVars
  <2> QED
    BY <2>8, <2>9, <2>10 DEF IInv
<1>4. CASE PairFails /\ at' = "down"
  BY <1>4, EndOfRunKeepsIInv DEF PairFails
<1> QED
  BY <1>1, <1>2, <1>3, <1>4

\* Every step keeps the inductive invariant.
LEMMA InductiveStep ==
  ASSUME IInv, [Next]_vars
  PROVE  IInv'
<1>0. TypeOK' /\ PairedInv'
  BY TypeStep, PairedStep DEF IInv
<1>1. CASE StartBootstrapper
  BY <1>0, <1>1, BetweenFilesKeepIInv
<1>2. CASE BootstrapperStep
  <2>1. ASSUME NEW f \in ScriptFiles, OpenFile(f) PROVE IInv'
    BY <1>0, <2>1, OpenFileKeepsIInv
  <2>2. ASSUME NEW f \in ScriptFiles, WriteFile(f) PROVE IInv'
    BY <1>0, <2>2, WriteFileKeepsIInv
  <2>3. CASE WriteConfigRefused \/ ElectraForkMissing
    BY <1>0, <2>3, EndOfRunKeepsIInv
    DEF WriteConfigRefused, ElectraForkMissing, Goto
  <2>4. CASE \/ LoadConfig \/ PairSucceeds \/ GetDeploymentBlock
             \/ CopyConfig \/ CopySsz \/ CopyDone \/ \E c \in Clients : ElAnswers(c)
    BY <1>0, <2>4, BetweenFilesKeepIInv
  <2> QED
    BY <1>2, <2>1, <2>2, <2>3, <2>4 DEF BootstrapperStep
<1>3. CASE BootstrapperFault
  <2>1. CASE PairFails
    BY <1>0, <2>1, BetweenFilesKeepIInv
  <2>2. CASE GenesisToolFails \/ GetDeploymentBlockFails \/ CrashBootstrapper
    BY <1>0, <2>2, EndOfRunKeepsIInv
    DEF GenesisToolFails, GetDeploymentBlockFails, CrashBootstrapper, Goto
  <2> QED
    BY <1>3, <2>1, <2>2 DEF BootstrapperFault
<1>4. CASE BootnodeStep \/ CrashBootnode
  <2>1. /\ UNCHANGED bootVars /\ UNCHANGED <<el, clAt, clView, rd>>
        /\ \A g \in ScriptFiles : disk'[g] = disk[g]
    <3>1. UNCHANGED bootVars /\ UNCHANGED <<el, clAt, clView, rd>>
      BY <1>4 DEF BootnodeStep, StartBootnode, OpenEnr, WriteEnr, CrashBootnode
    <3>2. \/ disk' = disk
          \/ disk' = [disk EXCEPT !["bootnode_enr"] = Empty]
          \/ disk' = [disk EXCEPT !["bootnode_enr"] = 0]
      BY <1>4 DEF BootnodeStep, StartBootnode, OpenEnr, WriteEnr, CrashBootnode
    <3>3. \A g \in ScriptFiles : g # "bootnode_enr"
      BY FileFacts
    <3>4. disk \in [Files -> Content]
      BY DEF IInv, TypeOK
    <3> QED
      BY <3>1, <3>2, <3>3, <3>4, FileFacts
  <2>2. ViewInv'
    BY <2>1, FileFacts DEF IInv, ViewInv
  <2> QED
    BY <1>0, <2>1, <2>2, OthersKeepPublisher DEF IInv
<1>5. ASSUME NEW c \in Clients,
             LaunchEl(c) \/ SeeEnr(c) \/ LaunchCl(c) \/ RestartClient(c)
      PROVE  IInv'
  <2>1. UNCHANGED <<disk, bootVars, rd>>
    BY <1>5 DEF LaunchEl, SeeEnr, LaunchCl, RestartClient
  <2>2. SealInv /\ ViewInv /\ TypeOK
    BY DEF IInv
  <2>3. PublisherInv' /\ ConfigInv' /\ SealInv'
    BY <2>1, OthersKeepPublisher
  <2>4. ViewInv'
    <3>1. CASE LaunchEl(c)
      <4>1. disk[GenesisFile[c]] = disk["etb_config"]
        BY <2>2, <3>1 DEF LaunchEl, SealInv
      <4> QED
        BY <2>1, <2>2, <3>1, <4>1 DEF LaunchEl, ViewInv, TypeOK
    <3>2. CASE SeeEnr(c)
      BY <2>1, <2>2, <3>2 DEF SeeEnr, ViewInv, TypeOK
    <3>3. CASE LaunchCl(c)
      <4>1. collDir[CollectionOf[c]] = Copied(disk["etb_config"])
        BY <2>2, <3>3 DEF LaunchCl, SealInv
      <4> QED
        BY <2>1, <2>2, <3>3, <4>1 DEF LaunchCl, ViewInv, TypeOK
    <3>4. CASE RestartClient(c)
      BY <2>1, <2>2, <3>4 DEF RestartClient, ViewInv, TypeOK
    <3> QED
      BY <1>5, <3>1, <3>2, <3>3, <3>4
  <2> QED
    BY <1>0, <2>3, <2>4 DEF IInv
<1>6. ASSUME NEW r \in Readers, GetEtbConfig(r) \/ RestartReader(r)
      PROVE  IInv'
  <2>1. UNCHANGED <<disk, bootVars, el, clAt, clView>>
    BY <1>6 DEF GetEtbConfig, RestartReader
  <2>2. ViewInv /\ TypeOK
    BY DEF IInv
  <2>3. PublisherInv' /\ ConfigInv' /\ SealInv'
    BY <2>1, OthersKeepPublisher
  <2>4. ViewInv'
    <3>1. CASE GetEtbConfig(r)
      BY <2>1, <2>2, <3>1 DEF GetEtbConfig, ViewInv, TypeOK
    <3>2. CASE RestartReader(r)
      BY <2>1, <2>2, <3>2 DEF RestartReader, ViewInv, TypeOK
    <3> QED
      BY <1>6, <3>1, <3>2
  <2> QED
    BY <1>0, <2>3, <2>4 DEF IInv
<1>7. CASE UNCHANGED vars
  <2>1. PublisherInv' /\ ConfigInv' /\ SealInv'
    BY <1>7, OthersKeepPublisher DEF vars, bootVars
  <2> QED
    BY <1>0, <1>7, <2>1 DEF vars, IInv, ViewInv
<1> QED
  BY <1>0, <1>1, <1>2, <1>3, <1>4, <1>5, <1>6, <1>7 DEF Next

\* The inductive invariant: the published config, the checkpoints, what each
\* of them guards and the views of everybody who was released stay in step.
THEOREM InductiveInvariant == Spec => []IInv
  BY InitIInv, InductiveStep, PTL DEF Spec

LEMMA ViewsArePublished ==
  ASSUME IInv, NEW v \in Views
  PROVE  Exists("etb_config_checkpoint") /\ v = disk["etb_config"]
         /\ v \in Nat \ {0}
<1>1. v # Absent /\ SealInv /\ ViewInv
  BY DEF Views, IInv
<1>2. Exists("etb_config_checkpoint") /\ v = disk["etb_config"]
  <2>1. CASE \E c \in Clients : v = el[c]
    BY <1>1, <2>1 DEF SealInv, ViewInv, Checkpoints
  <2>2. CASE \E r \in Readers : v = rd[r]
    BY <1>1, <2>2 DEF ViewInv
  <2>3. CASE \E c \in Clients : v = clView[c].config \/ v = clView[c].ssz
    <3>1. PICK c \in Clients : v = clView[c].config \/ v = clView[c].ssz
      BY <2>3
    <3>2. clAt[c] = "running"
      BY <1>1, <3>1 DEF ViewInv, Nothing
    <3> QED
      BY <1>1, <3>1, <3>2 DEF SealInv, ViewInv, Checkpoints, Copied
  <2> QED
    BY <2>1, <2>2, <2>3 DEF Views
<1> QED
  BY <1>1, <1>2 DEF SealInv

\* No released container ever reads a file that is absent, truncated or
\* without a genesis time.
THEOREM NoPartialReads == Spec => []NoPartialRead
<1>1. IInv => NoPartialRead
  BY ViewsArePublished DEF NoPartialRead
<1> QED
  BY <1>1, InductiveInvariant, PTL

\* Every EL, CL and config reader that runs has the same genesis time, over
\* any number of crashes and reruns.
THEOREM GenesisAgreed == Spec => []GenesisAgreement
<1>1. IInv => GenesisAgreement
  BY ViewsArePublished DEF GenesisAgreement
<1> QED
  BY <1>1, InductiveInvariant, PTL

LEMMA GuardedFacts ==
  ASSUME NEW cp \in DOMAIN Guarded
  PROVE  /\ cp \in Checkpoints /\ cp \in ScriptFiles
         /\ Rank[cp] \in 2 .. 14
         /\ \A f \in Guarded[cp] : f \in ScriptFiles /\ f \notin Checkpoints
                                   /\ Rank[f] \in 1 .. 14 /\ Rank[f] < Rank[cp]
  BY DEF Guarded, Rank, ScriptFiles, Checkpoints, ElGenesisFiles

\* While a checkpoint exists the current statement is not one that opens or
\* writes what it guards.
LEMMA NotReopened ==
  ASSUME IInv, NEW cp \in DOMAIN Guarded, Exists(cp), NEW f \in ScriptFiles,
         at = f, f = "etb_config" => ~Exists("etb_config_checkpoint")
  PROVE  f \notin Guarded[cp]
<1>1. f # "etb_config"
  BY GuardedFacts DEF IInv, SealInv
<1>2. Rank[f] \in 2 .. 14
  BY <1>1, RankFacts
<1>3. ~(Rank[cp] > Rank[f])
  BY <1>2, GuardedFacts DEF IInv, PublisherInv
<1> QED
  BY <1>2, <1>3, GuardedFacts

\* No step writes what an existing checkpoint guards.
LEMMA SealStep ==
  ASSUME IInv, [Next]_vars, NEW cp \in DOMAIN Guarded, Exists(cp)
  PROVE  /\ Exists(cp)'
         /\ \A f \in Guarded[cp] : disk'[f] = disk[f]
         /\ cp = "consensus_checkpoint" => collDir' = collDir
<1> DEFINE Sealed == /\ Exists(cp)'
                     /\ \A f \in Guarded[cp] : disk'[f] = disk[f]
                     /\ cp = "consensus_checkpoint" => collDir' = collDir
<1>1. ASSUME disk' = disk, collDir' = collDir PROVE Sealed
  BY <1>1
<1>2. TypeOK /\ cp \in Files /\ cp # "bootnode_enr"
  BY GuardedFacts, FileFacts DEF IInv
<1>3. ASSUME NEW f \in ScriptFiles, OpenFile(f) PROVE Sealed
  <2>1. f \notin Guarded[cp]
    BY <1>3, NotReopened DEF OpenFile
  <2> QED
    BY <1>2, <1>3, <2>1 DEF OpenFile, TypeOK
<1>4. ASSUME NEW f \in ScriptFiles, WriteFile(f) PROVE Sealed
  <2>1. f \notin Guarded[cp]
    BY <1>4, NotReopened DEF WriteFile, IInv, ConfigInv
  <2>2. f = cp => ContentOf(f) = Empty
    BY GuardedFacts DEF ContentOf, Checkpoints
  <2> QED
    BY <1>2, <1>4, <2>1, <2>2 DEF WriteFile, TypeOK
<1>5. CASE BootnodeStep \/ CrashBootnode
  <2>1. collDir' = collDir
        /\ \A f \in Files : f # "bootnode_enr" => disk'[f] = disk[f]
    <3>1. \/ disk' = disk
          \/ disk' = [disk EXCEPT !["bootnode_enr"] = Empty]
          \/ disk' = [disk EXCEPT !["bootnode_enr"] = 0]
      BY <1>5 DEF BootnodeStep, StartBootnode, OpenEnr, WriteEnr, CrashBootnode
    <3>2. collDir' = collDir
      BY <1>5 DEF BootnodeStep, StartBootnode, OpenEnr, WriteEnr,
                  CrashBootnode, bootVars
    <3> QED
      BY <1>2, <3>1, <3>2 DEF TypeOK
  <2> QED
    BY <1>2, <2>1, GuardedFacts, FileFacts
<1>6. CASE CopyConfig \/ CopySsz
  <2>1. cp # "consensus_checkpoint"
    BY <1>6 DEF CopyConfig, CopySsz, IInv, PublisherInv, Rank, Checkpoints
  <2> QED
    BY <1>6, <2>1 DEF CopyConfig, CopySsz
<1>7. CASE BootstrapperStep
  <2>1. CASE \/ LoadConfig \/ WriteConfigRefused \/ ElectraForkMissing
             \/ PairSucceeds \/ GetDeploymentBlock \/ CopyDone
             \/ \E c \in Clients : ElAnswers(c)
    BY <1>1, <2>1 DEF LoadConfig, WriteConfigRefused, ElectraForkMissing,
       PairSucceeds, GetDeploymentBlock, CopyDone, ElAnswers
  <2> QED
    BY <1>3, <1>4, <1>6, <1>7, <2>1 DEF BootstrapperStep
<1>8. CASE StartBootstrapper \/ BootstrapperFault
  BY <1>1, <1>8 DEF StartBootstrapper, BootstrapperFault, GenesisToolFails,
     PairFails, GetDeploymentBlockFails, CrashBootstrapper
<1>9. CASE \/ \E c \in Clients : \/ LaunchEl(c) \/ SeeEnr(c)
                                 \/ LaunchCl(c) \/ RestartClient(c)
           \/ \E r \in Readers : GetEtbConfig(r) \/ RestartReader(r)
  BY <1>1, <1>9 DEF LaunchEl, SeeEnr, LaunchCl, RestartClient, GetEtbConfig,
     RestartReader, bootVars
<1>10. CASE UNCHANGED vars
  BY <1>1, <1>10 DEF vars
<1> QED
  BY <1>5, <1>7, <1>8, <1>9, <1>10 DEF Next

\* What a checkpoint guards is never written again, by any run.
THEOREM CheckpointsSeal == Spec => CheckpointSealsFiles
<1>1. IInv /\ [Next]_vars =>
        [\A cp \in DOMAIN Guarded : Exists(cp) =>
           /\ Exists(cp)'
           /\ \A f \in Guarded[cp] : disk'[f] = disk[f]
           /\ cp = "consensus_checkpoint" => collDir' = collDir]_vars
  BY SealStep
<1> QED
  BY <1>1, InductiveInvariant, PTL DEF Spec, CheckpointSealsFiles
-----------------------------------------------------------------------------
\* Files of the bootstrapper are only changed by opening and writing them.
LEMMA OnlyFilesChange ==
  ASSUME TypeOK, [Next]_vars, NEW g \in ScriptFiles, disk'[g] # disk[g]
  PROVE  OpenFile(g) \/ WriteFile(g)
<1>1. disk \in [Files -> Content] /\ g \in Files /\ g # "bootnode_enr"
  BY FileFacts DEF TypeOK
<1>2. ~ UNCHANGED disk
  OBVIOUS
<1>3. ~ (BootnodeStep \/ CrashBootnode)
  <2>1. ASSUME BootnodeStep \/ CrashBootnode
        PROVE  \/ disk' = disk
               \/ disk' = [disk EXCEPT !["bootnode_enr"] = Empty]
               \/ disk' = [disk EXCEPT !["bootnode_enr"] = 0]
    BY <2>1 DEF BootnodeStep, StartBootnode, OpenEnr, WriteEnr, CrashBootnode
  <2> QED
    BY <1>1, <2>1
<1>4. \A f \in ScriptFiles : OpenFile(f) \/ WriteFile(f) => f = g
  BY <1>1 DEF OpenFile, WriteFile
<1> QED
  BY <1>2, <1>3, <1>4 DEF Next, BootstrapperStep, BootstrapperFault,
     StartBootstrapper, LoadConfig, WriteConfigRefused, ElectraForkMissing,
     ElAnswers, PairSucceeds, GetDeploymentBlock, CopyConfig, CopySsz, CopyDone,
     GenesisToolFails, PairFails, GetDeploymentBlockFails, CrashBootstrapper,
     LaunchEl, SeeEnr, LaunchCl, RestartClient, GetEtbConfig, RestartReader,
     vars

\* Only a run that had an answer from every admin EL creates the file that
\* releases the CLs, whatever runs and faults came before it.
THEOREM PairingBeforeRelease == Spec => ReleasedAfterPairing
<1> DEFINE Created == /\ ~Exists("consensus_checkpoint")
                      /\ Exists("consensus_checkpoint")'
<1>1. ASSUME IInv, [Next]_vars, Created PROVE answered = AdminClients
  <2>1. /\ TypeOK /\ disk \in [Files -> Content]
        /\ "consensus_checkpoint" \in ScriptFiles
        /\ "consensus_checkpoint" \in Files
        /\ disk'["consensus_checkpoint"] # disk["consensus_checkpoint"]
    BY <1>1 DEF IInv, TypeOK, Files, ScriptFiles, Checkpoints
  <2>2. at = "consensus_checkpoint"
    BY <1>1, <2>1, OnlyFilesChange DEF OpenFile, WriteFile
  <2> QED
    BY <1>1, <2>2 DEF IInv, PairedInv, Rank
<1>2. IInv /\ [Next]_vars =>
        [Exists("consensus_checkpoint")' /\ ~Exists("consensus_checkpoint")
           => answered = AdminClients]_vars
  BY <1>1
<1> QED
  BY <1>2, InductiveInvariant, PTL DEF Spec, ReleasedAfterPairing
-----------------------------------------------------------------------------
(***************************************************************************)
(* TestnetBootstrap implements PhasedStartup: which step of the files is   *)
(* which step of the abstract startup, and that all others leave the       *)
(* phase, the genesis time and the participants as they are.               *)
(***************************************************************************)
USE DEF Exists

\* The checkpoint files that open a phase.
PhaseFiles ==
  {"etb_config_checkpoint", "execution_checkpoint", "consensus_checkpoint"}

\* What participant p of PhasedStartup runs with.
View(p) ==
  IF p[1] = "reader" THEN rd[p[2]]
  ELSE IF p[1] = "el" THEN el[p[2]] ELSE ClView(p[2])

LEMMA ParticipantForms ==
  /\ \A r \in Readers : <<"reader", r>> \in Participants
  /\ \A c \in Clients : /\ <<"el", c>> \in Participants
                        /\ <<"cl", c>> \in Participants
  /\ \A p \in Participants : \/ \E r \in Readers : p = <<"reader", r>>
                             \/ \E c \in Clients : p = <<"el", c>>
                             \/ \E c \in Clients : p = <<"cl", c>>
  BY DEF Participants

LEMMA PhaseReached ==
  /\ Exists("etb_config_checkpoint") => Phase >= 1
  /\ Exists("execution_checkpoint") => Phase >= 2
  /\ Exists("consensus_checkpoint") => Phase >= 3
  BY DEF Phase

LEMMA NeedsOf ==
  /\ \A r \in Readers : Needs[<<"reader", r>>] = 1
  /\ \A c \in Clients : Needs[<<"el", c>>] = 2 /\ Needs[<<"cl", c>>] = 3
  BY ParticipantForms DEF Needs

\* A step of one participant.
LEMMA JoinedExcept ==
  ASSUME NEW q \in Participants, NEW v, View(q)' = v,
         \A p \in Participants : p # q => View(p)' = View(p)
  PROVE  Joined' = [Joined EXCEPT ![q] = v]
  BY DEF Joined, View

\* A step that the abstract startup does not see.
LEMMA Stutter ==
  ASSUME UNCHANGED <<rd, el, clView>>,
         \A f \in PhaseFiles : Exists(f)' = Exists(f),
         Exists("etb_config_checkpoint") => disk'["etb_config"] = disk["etb_config"]
  PROVE  UNCHANGED PS!avars
<1>1. Joined' = Joined
  BY DEF Joined, ClView
<1>2. Phase' = Phase
  BY DEF Phase, PhaseFiles
<1>3. Genesis' = Genesis
  BY DEF Genesis, PhaseFiles
<1> QED
  BY <1>1, <1>2, <1>3 DEF PS!avars

\* The step that creates a checkpoint file publishes the genesis time or opens
\* the next phase; whatever else is done to a file is nobody's business.
LEMMA FileRefines ==
  ASSUME IInv, NEW f \in ScriptFiles, at = f, NEW v, v # Absent,
         \A g \in Files : disk'[g] = IF g = f THEN v ELSE disk[g],
         UNCHANGED <<rd, el, clView>>,
         f = "etb_config" => ~Exists("etb_config_checkpoint")
  PROVE  PS!Publish \/ PS!OpenPhase \/ UNCHANGED PS!avars
<1>1. TypeOK /\ PublisherInv /\ SealInv /\ genesisTime \in Nat
  BY DEF IInv, TypeOK
<1>2. /\ PhaseFiles \subseteq Checkpoints /\ Checkpoints \subseteq Files
      /\ "etb_config" \in Files /\ "etb_config" \notin Checkpoints
  BY DEF PhaseFiles, Checkpoints, Files, ScriptFiles
<1>3. Joined' = Joined
  BY <1>1 DEF Joined, ClView
<1>4. CASE f \in PhaseFiles /\ ~Exists(f)
  <2>1. /\ Rank["etb_config_checkpoint"] = 2 /\ Rank["execution_checkpoint"] = 7
        /\ Rank["consensus_checkpoint"] = 14 /\ Rank["etb_config"] = 1
    BY DEF Rank
  <2>2. /\ genesisTime # 0
        /\ \A g \in Stamped : Rank[g] < Rank[f] => disk[g] = genesisTime
        /\ \A g \in Checkpoints : Rank[g] < Rank[f] => Exists(g)
        /\ \A g \in Checkpoints : Rank[g] > Rank[f] => ~Exists(g)
    BY <1>1, <1>2, <1>4, <2>1 DEF PublisherInv, PhaseFiles
  <2>3. disk["etb_config"] = genesisTime /\ disk'["etb_config"] = genesisTime
    BY <1>1, <1>2, <1>4, <2>1, <2>2, FileFacts DEF PhaseFiles
  <2>4. \A g \in PhaseFiles : Exists(g)' <=> (Exists(g) \/ g = f)
    BY <1>1, <1>2
  <2>5. CASE f = "etb_config_checkpoint"
    <3>1. Phase = 0 /\ Phase' = 1
      BY <1>2, <1>4, <2>1, <2>2, <2>4, <2>5 DEF Phase, PhaseFiles
    <3>2. Genesis' = genesisTime
      BY <2>3, <2>4, <2>5 DEF Genesis, PhaseFiles
    <3> QED
      BY <1>1, <1>3, <2>2, <3>1, <3>2 DEF PS!Publish
  <2>6. CASE f # "etb_config_checkpoint"
    <3>1. Exists("etb_config_checkpoint") /\ Exists("etb_config_checkpoint")'
      BY <1>2, <1>4, <2>1, <2>2, <2>4, <2>6 DEF PhaseFiles
    <3>2. Genesis' = Genesis
      BY <2>3, <3>1 DEF Genesis
    <3>3. CASE f = "execution_checkpoint"
      BY <1>2, <1>3, <1>4, <2>1, <2>2, <2>4, <3>1, <3>2, <3>3
      DEF Phase, PhaseFiles, PS!OpenPhase
    <3>4. CASE f = "consensus_checkpoint"
      BY <1>2, <1>3, <1>4, <2>1, <2>2, <2>4, <3>1, <3>2, <3>4
      DEF Phase, PhaseFiles, PS!OpenPhase
    <3> QED
      BY <1>4, <2>6, <3>3, <3>4 DEF PhaseFiles
  <2> QED
    BY <2>5, <2>6
<1>5. CASE f \notin PhaseFiles \/ Exists(f)
  <2>1. \A g \in PhaseFiles : Exists(g)' = Exists(g)
    BY <1>1, <1>2, <1>5
  <2>2. Exists("etb_config_checkpoint") => disk'["etb_config"] = disk["etb_config"]
    BY <1>2
  <2> QED
    BY <2>1, <2>2, Stutter
<1> QED
  BY <1>4, <1>5

\* Whoever is released takes the published genesis time with it.
LEMMA JoinRefines ==
  ASSUME IInv, UNCHANGED disk, NEW q \in Participants,
         View(q) = Absent, View(q)' = disk["etb_config"], Phase >= Needs[q],
         Exists("etb_config_checkpoint"),
         \A p \in Participants : p # q => View(p)' = View(p)
  PROVE  \E p \in Participants : PS!Join(p)
<1>1. Genesis = disk["etb_config"] /\ Genesis' = Genesis /\ Phase' = Phase
  BY DEF Genesis, Phase
<1>2. Joined[q] = Absent
  BY DEF Joined, View
<1>3. Joined' = [Joined EXCEPT ![q] = Genesis]
  BY <1>1, JoinedExcept
<1> QED
  BY <1>1, <1>2, <1>3 DEF PS!Join

\* A container that restarts leaves with all it ran, which may be nothing.
LEMMA LeaveRefines ==
  ASSUME UNCHANGED disk, NEW S \in SUBSET Participants,
         \A p \in S : View(p)' = Absent,
         \A p \in Participants \ S : View(p)' = View(p)
  PROVE  (\E T \in SUBSET Participants : PS!Leave(T)) \/ UNCHANGED PS!avars
<1> DEFINE T == {p \in S : View(p) # Absent}
<1>1. Genesis' = Genesis /\ Phase' = Phase
  BY DEF Genesis, Phase
<1>2. \A p \in Participants : View(p)' = IF p \in T THEN Absent ELSE View(p)
  OBVIOUS
<1>3. Joined = [p \in Participants |-> View(p)]
  BY DEF Joined, View
<1>4. Joined' = [p \in Participants |-> View(p)']
  BY DEF Joined, View
<1>5. CASE T = {}
  <2>1. Joined' = Joined
    BY <1>2, <1>3, <1>4, <1>5
  <2> QED
    BY <1>1, <2>1 DEF PS!avars
<1>6. CASE T # {}
  <2>1. \A p \in T : Joined[p] # Absent
    BY <1>3
  <2>2. Joined' = [p \in Participants |-> IF p \in T THEN Absent ELSE Joined[p]]
    BY <1>2, <1>3, <1>4
  <2> QED
    BY <1>1, <1>6, <2>1, <2>2 DEF PS!Leave
<1> QED
  BY <1>5, <1>6

\* An EL or a CL is launched, or the two of a container restart.
LEMMA ClientRefines ==
  ASSUME IInv, NEW c \in Clients,
         LaunchEl(c) \/ SeeEnr(c) \/ LaunchCl(c) \/ RestartClient(c)
  PROVE  PS!ANext \/ UNCHANGED PS!avars
<1> USE ParticipantForms
<1>1. TypeOK /\ SealInv /\ ViewInv
  BY DEF IInv
<1>2. CASE LaunchEl(c)
  <2> DEFINE q == <<"el", c>>
  <2>1. /\ el[c] = Absent /\ Exists("execution_checkpoint") /\ disk' = disk
        /\ \A d \in Clients : el'[d] = IF d = c THEN disk[GenesisFile[c]] ELSE el[d]
        /\ UNCHANGED <<rd, clView>>
    BY <1>1, <1>2 DEF LaunchEl, TypeOK
  <2>2. disk[GenesisFile[c]] = disk["etb_config"] /\ Exists("etb_config_checkpoint")
    BY <1>1, <2>1 DEF SealInv, Checkpoints
  <2>3. Phase >= 2 /\ Needs[q] = 2
    BY <2>1, NeedsOf, PhaseReached
  <2>4. View(q) = Absent /\ View(q)' = disk["etb_config"]
    BY <2>1, <2>2 DEF View
  <2>5. \A p \in Participants : p # q => View(p)' = View(p)
    BY <2>1 DEF View, ClView
  <2> QED
    BY <2>1, <2>2, <2>3, <2>4, <2>5, JoinRefines DEF PS!ANext
<1>3. CASE SeeEnr(c)
  BY <1>3, Stutter DEF SeeEnr
<1>4. CASE LaunchCl(c)
  <2> DEFINE q == <<"cl", c>>
  <2>1. /\ clAt[c] # "running" /\ Exists("consensus_checkpoint") /\ disk' = disk
        /\ \A d \in Clients :
             clView'[d] = IF d = c THEN collDir[CollectionOf[c]] ELSE clView[d]
        /\ UNCHANGED <<rd, el>>
    BY <1>1, <1>4 DEF LaunchCl, TypeOK
  <2>2. /\ collDir[CollectionOf[c]] = Copied(disk["etb_config"])
        /\ Exists("etb_config_checkpoint") /\ clView[c] = Nothing
    BY <1>1, <2>1 DEF SealInv, ViewInv, Checkpoints
  <2>3. Phase >= 3 /\ Needs[q] = 3
    BY <2>1, NeedsOf, PhaseReached
  <2>4. View(q) = Absent /\ View(q)' = disk["etb_config"]
    BY <2>1, <2>2 DEF View, ClView, Nothing, Copied
  <2>5. \A p \in Participants : p # q => View(p)' = View(p)
    BY <2>1 DEF View, ClView
  <2> QED
    BY <2>1, <2>2, <2>3, <2>4, <2>5, JoinRefines DEF PS!ANext
<1>5. CASE RestartClient(c)
  <2> DEFINE S == {<<"el", c>>, <<"cl", c>>}
  <2>1. /\ disk' = disk /\ rd' = rd
        /\ \A d \in Clients : el'[d] = IF d = c THEN Absent ELSE el[d]
        /\ \A d \in Clients : clView'[d] = IF d = c THEN Nothing ELSE clView[d]
    BY <1>1, <1>5 DEF RestartClient, TypeOK
  <2>2. \A p \in S : View(p)' = Absent
    BY <2>1 DEF View, ClView, Nothing
  <2>3. \A p \in Participants \ S : View(p)' = View(p)
    BY <2>1 DEF View, ClView
  <2>4. S \in SUBSET Participants
    OBVIOUS
  <2> QED
    BY <2>1, <2>2, <2>3, <2>4, LeaveRefines DEF PS!ANext
<1> QED
  BY <1>2, <1>3, <1>4, <1>5

\* A reader gets the config, or restarts.
LEMMA ReaderRefines ==
  ASSUME IInv, NEW r \in Readers, GetEtbConfig(r) \/ RestartReader(r)
  PROVE  PS!ANext \/ UNCHANGED PS!avars
<1> USE ParticipantForms
<1> DEFINE q == <<"reader", r>>
<1>1. TypeOK
  BY DEF IInv
<1>2. CASE GetEtbConfig(r)
  <2>1. /\ rd[r] = Absent /\ Exists("etb_config_checkpoint") /\ disk' = disk
        /\ \A s \in Readers : rd'[s] = IF s = r THEN disk["etb_config"] ELSE rd[s]
        /\ UNCHANGED <<el, clView>>
    BY <1>1, <1>2 DEF GetEtbConfig, TypeOK
  <2>2. Phase >= 1 /\ Needs[q] = 1
    BY <2>1, NeedsOf, PhaseReached
  <2>3. View(q) = Absent /\ View(q)' = disk["etb_config"]
    BY <2>1 DEF View
  <2>4. \A p \in Participants : p # q => View(p)' = View(p)
    BY <2>1 DEF View, ClView
  <2> QED
    BY <2>1, <2>2, <2>3, <2>4, JoinRefines DEF PS!ANext
<1>3. CASE RestartReader(r)
  <2>1. /\ disk' = disk /\ UNCHANGED <<el, clView>>
        /\ \A s \in Readers : rd'[s] = IF s = r THEN Absent ELSE rd[s]
    BY <1>1, <1>3 DEF RestartReader, TypeOK
  <2>2. View(q)' = Absent /\ \A p \in Participants \ {q} : View(p)' = View(p)
    BY <2>1 DEF View, ClView
  <2>3. {q} \in SUBSET Participants
    OBVIOUS
  <2> QED
    BY <2>1, <2>2, <2>3, LeaveRefines DEF PS!ANext
<1> QED
  BY <1>2, <1>3

\* The steps of the bootstrapper and of the bootnode that touch none of the
\* files PhasedStartup stands for.
LEMMA OtherStepsStutter ==
  ASSUME TypeOK,
         \/ StartBootstrapper \/ LoadConfig \/ WriteConfigRefused
         \/ ElectraForkMissing \/ PairSucceeds \/ GetDeploymentBlock
         \/ CopyConfig \/ CopySsz \/ CopyDone \/ \E c \in Clients : ElAnswers(c)
         \/ BootstrapperFault \/ BootnodeStep \/ CrashBootnode
         \/ UNCHANGED vars
  PROVE  UNCHANGED PS!avars
<1>1. UNCHANGED <<rd, el, clView>>
  BY DEF StartBootstrapper, LoadConfig, WriteConfigRefused, ElectraForkMissing,
     PairSucceeds, GetDeploymentBlock, CopyConfig, CopySsz, CopyDone, ElAnswers,
     BootstrapperFault, GenesisToolFails, PairFails, GetDeploymentBlockFails,
     CrashBootstrapper, BootnodeStep, StartBootnode, OpenEnr, WriteEnr,
     CrashBootnode, nodeVars, vars
<1>2. \/ disk' = disk
      \/ disk' = [disk EXCEPT !["bootnode_enr"] = Empty]
      \/ disk' = [disk EXCEPT !["bootnode_enr"] = 0]
  BY DEF StartBootstrapper, LoadConfig, WriteConfigRefused, ElectraForkMissing,
     PairSucceeds, GetDeploymentBlock, CopyConfig, CopySsz, CopyDone, ElAnswers,
     BootstrapperFault, GenesisToolFails, PairFails, GetDeploymentBlockFails,
     CrashBootstrapper, BootnodeStep, StartBootnode, OpenEnr, WriteEnr,
     CrashBootnode, vars
<1>3. \A f \in PhaseFiles \cup {"etb_config"} : f \in Files /\ f # "bootnode_enr"
  BY DEF PhaseFiles, Files, ScriptFiles, Checkpoints
<1>4. \A f \in PhaseFiles \cup {"etb_config"} : disk'[f] = disk[f]
  BY <1>2, <1>3 DEF TypeOK
<1> QED
  BY <1>1, <1>4, Stutter

\* The initial states map to the one of PhasedStartup.
LEMMA InitRefines == Init => PS!AInit
<1> SUFFICES ASSUME Init PROVE PS!AInit
  OBVIOUS
<1>1. \A f \in PhaseFiles : ~Exists(f)
  BY DEF Init, PhaseFiles, Files, ScriptFiles, Checkpoints
<1>2. Phase = 0 /\ Genesis = Absent
  BY <1>1 DEF Phase, Genesis, PhaseFiles
<1>3. \A p \in Participants : View(p) = Absent
  BY ParticipantForms DEF Init, ContainersOff, View, ClView, Nothing
<1>4. Joined = [p \in Participants |-> Absent]
  BY <1>3 DEF Joined, View
<1> QED
  BY <1>2, <1>4 DEF PS!AInit

\* The files, launchers, crashes and reruns implement one choice of a genesis
\* time, phases that open one after the other and participants that all join
\* with that time.
THEOREM Refinement == Spec => ImplementsPhasedStartup
<1>1. ASSUME IInv, [Next]_vars PROVE [PS!ANext]_PS!avars
  <2>1. TypeOK /\ ConfigInv
    BY <1>1 DEF IInv
  <2>2. ASSUME NEW f \in ScriptFiles, OpenFile(f) PROVE [PS!ANext]_PS!avars
    <3>1. /\ at = f /\ UNCHANGED <<rd, el, clView>>
          /\ f = "etb_config" => ~Exists("etb_config_checkpoint")
          /\ \A g \in Files : disk'[g] = IF g = f THEN Empty ELSE disk[g]
      BY <2>1, <2>2 DEF OpenFile, nodeVars, TypeOK
    <3> QED
      BY <1>1, <3>1, FileRefines DEF PS!ANext
  <2>3. ASSUME NEW f \in ScriptFiles, WriteFile(f) PROVE [PS!ANext]_PS!avars
    <3>1. /\ at = f /\ UNCHANGED <<rd, el, clView>>
          /\ f = "etb_config" => ~Exists("etb_config_checkpoint")
          /\ \A g \in Files : disk'[g] = IF g = f THEN ContentOf(f) ELSE disk[g]
      BY <2>1, <2>3 DEF WriteFile, nodeVars, TypeOK, ConfigInv
    <3>2. ContentOf(f) # Absent
      <4>1. f # "genesis_ssz" => ContentOf(f) # Absent
        BY <2>1 DEF ContentOf, TypeOK
      <4>2. f = "genesis_ssz" => Rank[f] = 12 /\ Rank["consensus_config"] = 11
                                 /\ "consensus_config" \in Stamped
        BY DEF Rank, Stamped
      <4>3. f = "genesis_ssz" => disk["consensus_config"] = genesisTime
        BY <1>1, <3>1, <4>2 DEF IInv, PublisherInv
      <4> QED
        BY <2>1, <4>1, <4>3 DEF ContentOf, TypeOK, Checkpoints
    <3> QED
      BY <1>1, <3>1, <3>2, FileRefines DEF PS!ANext
  <2>4. ASSUME NEW c \in Clients,
               LaunchEl(c) \/ SeeEnr(c) \/ LaunchCl(c) \/ RestartClient(c)
        PROVE  [PS!ANext]_PS!avars
    BY <1>1, <2>4, ClientRefines
  <2>5. ASSUME NEW r \in Readers, GetEtbConfig(r) \/ RestartReader(r)
        PROVE  [PS!ANext]_PS!avars
    BY <1>1, <2>5, ReaderRefines
  <2> QED
    BY <1>1, <2>1, <2>2, <2>3, <2>4, <2>5, OtherStepsStutter
    DEF Next, BootstrapperStep
<1> QED
  BY <1>1, InitRefines, InductiveInvariant, PTL
  DEF Spec, ImplementsPhasedStartup, PS!ASpec
=============================================================================
