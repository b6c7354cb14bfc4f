------------------------- MODULE BootstrapRefinement --------------------------
(***************************************************************************)
(* TestnetBootstrap implements PhasedStartup: the checkpoint files are the *)
(* phases, the etb-config.yaml they guard is the choice of the genesis     *)
(* time, and launching from a file is joining with that time.              *)
(***************************************************************************)
EXTENDS TestnetBootstrap

Participants == ({"reader"} \X Readers) \cup ({"el", "cl"} \X Clients)

Needs ==
  [p \in Participants |-> IF p[1] = "reader" THEN 1
                          ELSE IF p[1] = "el" THEN 2 ELSE 3]

\* The phase is the last checkpoint file there is; the bootnode's checkpoint
\* releases nobody who needs the genesis time.
Phase ==
  IF Exists("consensus_checkpoint") THEN 3
  ELSE IF Exists("execution_checkpoint") THEN 2
  ELSE IF Exists("etb_config_checkpoint") THEN 1 ELSE 0

Genesis ==
  IF Exists("etb_config_checkpoint") THEN disk["etb_config"] ELSE Absent

\* A CL whose two files disagree runs with no genesis time of the testnet.
ClView(c) ==
  IF clView[c].config = clView[c].ssz THEN clView[c].ssz ELSE Empty

Joined ==
  [p \in Participants |-> IF p[1] = "reader" THEN rd[p[2]]
                          ELSE IF p[1] = "el" THEN el[p[2]]
                          ELSE ClView(p[2])]

PS == INSTANCE PhasedStartup WITH
        LastPhase <- 3, Undecided <- Absent,
        phase <- Phase, genesis <- Genesis, joined <- Joined

\* Under every interleaving, crash and rerun the files behave like one choice
\* of a genesis time that everybody who joins later is given.
ImplementsPhasedStartup == PS!ASpec
=============================================================================
