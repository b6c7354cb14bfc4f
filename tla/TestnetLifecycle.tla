--------------------------- MODULE TestnetLifecycle ---------------------------
(***************************************************************************)
(* The testnet over several experiments: make clean, make init-testnet and *)
(* docker-compose up, as the README has the operator call them, around the *)
(* containers of TestnetBootstrap.                                         *)
(*                                                                         *)
(* The data directory outlives an experiment, and clean and init can be    *)
(* interrupted between any two files. What has to keep the next experiment *)
(* from starting on files of the last one are the init_file, the mkdir of  *)
(* local-testnet that does not tolerate an existing directory, and         *)
(* write_config's look at the checkpoint.                                  *)
(***************************************************************************)
EXTENDS TestnetBootstrap

VARIABLES
  op,      \* what the operator did last, or is in the middle of
  host,    \* which of init_file, local_testnet and docker_compose exist
  since    \* bootstrapper runs before the last successful init

lvars == <<vars, op, host, since>>

HostFiles == {"init_file", "local_testnet", "docker_compose"}

LInit ==
  /\ disk = [f \in Files |-> Absent]
  /\ collDir = [k \in 1 .. NumCollections |-> Nothing]
  /\ ContainersOff
  /\ runs = 0 /\ faults = 0
  /\ op = "idle" /\ host = [h \in HostFiles |-> FALSE] /\ since = 0

containerVars == <<at, sub, genesisTime, answered, runs, nodeVars>>
-----------------------------------------------------------------------------
(***************************************************************************)
(* make init-testnet.                                                      *)
(***************************************************************************)

\* With an init_file there, init raises before it does anything.
InitStart ==
  /\ op \in {"idle", "ready", "stopped"}
  /\ ~host["init_file"]
  /\ host' = [host EXCEPT !["init_file"] = TRUE]
  /\ op' = "init_dirs"
  /\ UNCHANGED <<vars, since>>

\* Mutation: mkdir(parents=True, exist_ok=True).
InitDirsExistOk ==
  /\ op = "init_dirs"
  /\ host' = [host EXCEPT !["local_testnet"] = TRUE]
  /\ op' = "init_config"
  /\ UNCHANGED <<vars, since>>

\* local_testnet_dir.mkdir(parents=True) raises when the directory is there.
\* The client directories, JWT secrets and keystores follow.
InitDirs ==
  /\ op = "init_dirs"
  /\ IF host["local_testnet"]
       THEN op' = "idle" /\ UNCHANGED host
       ELSE op' = "init_config" /\ host' = [host EXCEPT !["local_testnet"] = TRUE]
  /\ UNCHANGED <<vars, since>>

InitOpenConfig ==
  /\ op = "init_config"
  /\ IF Exists("etb_config_checkpoint")
       THEN op' = "idle" /\ UNCHANGED disk
       ELSE op' = "init_write" /\ disk' = [disk EXCEPT !["etb_config"] = Empty]
  /\ UNCHANGED <<collDir, containerVars, faults, host, since>>

\* Mutation: init returns before it has written the compose file.
InitWriteConfigLast ==
  /\ op = "init_write"
  /\ disk' = [disk EXCEPT !["etb_config"] = 0]
  /\ op' = "ready" /\ since' = runs
  /\ UNCHANGED <<collDir, containerVars, faults, host>>

InitWriteConfig ==
  /\ op = "init_write"
  /\ disk' = [disk EXCEPT !["etb_config"] = 0]
  /\ op' = "init_compose"
  /\ UNCHANGED <<collDir, containerVars, faults, host, since>>

InitCompose ==
  /\ op = "init_compose"
  /\ host' = [host EXCEPT !["docker_compose"] = TRUE]
  /\ op' = "ready" /\ since' = runs
  /\ UNCHANGED vars

InitInterrupted ==
  /\ op \in {"init_dirs", "init_config", "init_write", "init_compose"}
  /\ Fault
  /\ op' = "idle"
  /\ UNCHANGED <<disk, collDir, containerVars, host, since>>
-----------------------------------------------------------------------------
(***************************************************************************)
(* docker-compose up, the containers while it is up, and down.             *)
(***************************************************************************)
Up ==
  /\ op \in {"ready", "stopped"}
  /\ op' = "up"
  /\ UNCHANGED <<vars, host, since>>

ContainerStep == op = "up" /\ Next /\ UNCHANGED <<op, host, since>>

Down ==
  /\ op = "up"
  /\ op' = "stopped"
  /\ at' = "down" /\ sub' = 0 /\ genesisTime' = 0 /\ answered' = {}
  /\ el' = [c \in Clients |-> Absent]
  /\ clAt' = [c \in Clients |-> "wait_enr"]
  /\ clEnr' = [c \in Clients |-> Absent]
  /\ clView' = [c \in Clients |-> Nothing]
  /\ rd' = [r \in Readers |-> Absent]
  /\ bn' = "wait"
  /\ UNCHANGED <<disk, collDir, runs, faults, host, since>>
-----------------------------------------------------------------------------
(***************************************************************************)
(* make clean.                                                             *)
(***************************************************************************)
CleanStart ==
  /\ op \in {"idle", "ready", "stopped"}
  /\ op' = "clean"
  /\ UNCHANGED <<vars, host, since>>

\* os.walk visits the testnet root first: its files go one by one, in the
\* order of the directory.
CleanRootFile ==
  /\ op = "clean"
  /\ \/ \E f \in Files : /\ Exists(f)
                         /\ disk' = [disk EXCEPT ![f] = Absent]
                         /\ UNCHANGED host
     \/ /\ host["init_file"]
        /\ host' = [host EXCEPT !["init_file"] = FALSE]
        /\ UNCHANGED disk
  /\ UNCHANGED <<collDir, containerVars, faults, op, since>>

\* Then the directories go; rmtree of local-testnet may lose some of the
\* collections first. The compose file is not in the root and goes last.
CleanDirs ==
  /\ op = "clean"
  /\ \A f \in Files : ~Exists(f)
  /\ ~host["init_file"]
  /\ host["local_testnet"]
  /\ host' = [host EXCEPT !["local_testnet"] = FALSE]
  /\ collDir' = [k \in 1 .. NumCollections |-> Nothing]
  /\ UNCHANGED <<disk, containerVars, faults, op, since>>

CleanDone ==
  /\ op = "clean"
  /\ \A f \in Files : ~Exists(f)
  /\ ~host["init_file"] /\ ~host["local_testnet"]
  /\ host' = [host EXCEPT !["docker_compose"] = FALSE]
  /\ op' = "idle"
  /\ UNCHANGED <<vars, since>>

CleanInterrupted ==
  /\ op = "clean"
  /\ Fault
  /\ op' = "idle"
  /\ UNCHANGED <<disk, collDir, containerVars, host, since>>
-----------------------------------------------------------------------------
LNext ==
  \/ InitStart \/ InitDirs \/ InitOpenConfig \/ InitWriteConfig
  \/ InitCompose \/ InitInterrupted
  \/ Up \/ ContainerStep \/ Down
  \/ CleanStart \/ CleanRootFile \/ CleanDirs \/ CleanDone \/ CleanInterrupted

LSpec == LInit /\ [][LNext]_lvars
-----------------------------------------------------------------------------
\* The operator only gets to docker-compose up with all that init leaves.
LTypeOK ==
  /\ TypeOK
  /\ op \in {"idle", "init_dirs", "init_config", "init_write", "init_compose",
             "ready", "up", "stopped", "clean"}
  /\ host \in [HostFiles -> BOOLEAN]
  /\ since \in 0 .. runs
  /\ op \in {"ready", "up", "stopped"} => \A h \in HostFiles : host[h]

\* An experiment that was initialised finds no checkpoint of an earlier one,
\* however the last clean or init ended.
ReadyIsClean == op = "ready" => \A f \in Checkpoints : ~Exists(f)

\* Nothing in an experiment runs with the genesis time of an earlier one.
NoStaleGenesis == \A v \in Views : v > since
-----------------------------------------------------------------------------
(***************************************************************************)
(* Why these properties hold: the inductive invariant.                     *)
(***************************************************************************)
\* An init that got past a step has left what that step makes, and files of
\* the testnet root are only gone together with local-testnet.
InitInv ==
  /\ op \in {"init_dirs", "init_config", "init_write", "init_compose"}
       => host["init_file"]
  /\ op \in {"init_config", "init_write", "init_compose"} => host["local_testnet"]
  /\ ~host["local_testnet"] \/ op \in {"init_config", "init_write", "init_compose",
                                       "ready"}
       => \A f \in Checkpoints : ~Exists(f)

\* Containers run only between up and down, and then as they do in an
\* experiment of their own; down leaves what the checkpoints promise.
RunInv ==
  /\ op # "up" => /\ at = "down" /\ el = [c \in Clients |-> Absent]
                  /\ clAt = [c \in Clients |-> "wait_enr"]
                  /\ clView = [c \in Clients |-> Nothing]
                  /\ rd = [r \in Readers |-> Absent]
  /\ op = "up" => IInv
  /\ op = "stopped" => SealInv

\* The time of this experiment's runs is later than all that came before.
FreshInv ==
  /\ at # "down" => runs > since
  /\ Rank[at] \in 1 .. 14 => genesisTime > since
  /\ op \in {"up", "stopped"} /\ Exists("etb_config_checkpoint")
       => disk["etb_config"] > since

\* What every state of the directory satisfies over any number of experiments: it
\* implies ReadyIsClean, NoStaleGenesis and GenesisAgreement.
LIInv == LTypeOK /\ InitInv /\ RunInv /\ FreshInv
=============================================================================
