---------------------------- MODULE PhasedStartup ----------------------------
(***************************************************************************)
(* What the bootstrapper promises to everything that runs in the testnet,  *)
(* with no files, no crashes in the middle of a write and no order of      *)
(* statements: one genesis time is chosen once, phases open one after the  *)
(* other, and whoever joins, in whatever phase, gets that genesis time.    *)
(* TestnetBootstrap is shown to implement this specification.              *)
(***************************************************************************)
EXTENDS Naturals

CONSTANTS
  Participants,   \* everything that waits for a checkpoint file
  Needs,          \* [Participants -> 1..LastPhase]: the phase each waits for
  LastPhase,      \* the number of phases
  Undecided       \* not a genesis time

VARIABLES
  phase,          \* the last phase that was opened, 0 before the first
  genesis,        \* the genesis time of the testnet, or Undecided
  joined          \* the genesis time each participant runs with, or Undecided

avars == <<phase, genesis, joined>>

AInit ==
  /\ phase = 0
  /\ genesis = Undecided
  /\ joined = [p \in Participants |-> Undecided]

\* The one and only choice of the genesis time.
Publish ==
  /\ phase = 0
  /\ phase' = 1
  /\ genesis' \in Nat \ {0}
  /\ UNCHANGED joined

OpenPhase ==
  /\ phase \in 1 .. LastPhase - 1
  /\ phase' = phase + 1
  /\ UNCHANGED <<genesis, joined>>

Join(p) ==
  /\ joined[p] = Undecided
  /\ phase >= Needs[p]
  /\ joined' = [joined EXCEPT ![p] = genesis]
  /\ UNCHANGED <<phase, genesis>>

\* Those that stop together, as the two halves of a client container do.
Leave(S) ==
  /\ S # {} /\ \A p \in S : joined[p] # Undecided
  /\ joined' = [p \in Participants |-> IF p \in S THEN Undecided ELSE joined[p]]
  /\ UNCHANGED <<phase, genesis>>

ANext ==
  \/ Publish \/ OpenPhase
  \/ \E p \in Participants : Join(p)
  \/ \E S \in SUBSET Participants : Leave(S)

ASpec == AInit /\ [][ANext]_avars
=============================================================================
