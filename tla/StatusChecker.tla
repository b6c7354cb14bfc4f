---------------------------- MODULE StatusChecker ----------------------------
(***************************************************************************)
(* TestnetStatusCheckerV2.perform_finite_status_check of                   *)
(* antithesis_checker.py: the run of an experiment. It waits for the       *)
(* network to come up, asks for faults and for their end, gives the        *)
(* network time to heal and then decides whether it did.                   *)
(*                                                                         *)
(* Time is counted in slots. It passes while the checker waits or sleeps   *)
(* and while requests are in flight; the clients change their heads, fail  *)
(* and recover at any moment, also between the requests of one check. A    *)
(* request with its retries is one step: it returns what the client        *)
(* answers at the last attempt.                                            *)
(***************************************************************************)
EXTENDS Naturals, FiniteSets

CONSTANTS
  Clients,         \* clients_to_monitor
  Roots,           \* state roots of heads
  Unreachable,     \* every attempt ends in an exception
  Unparsable,      \* a response the checker can not take a block from
  Pending,         \* no answer yet
  Phase0, Phase1, Phase2, Phase3,  \* phase0_slot .. phase3_slot
  MaxRetries,      \* max_retries of check_for_consensus
  CheckSlots,      \* bound: slots that pass during one batch of requests
  SleepSlots,      \* bound: slots that pass during one sleep between tries
  MaxChanges       \* bound: how often clients change what they answer

Answers == Roots \cup {Unreachable, Unparsable}

ASSUME PhaseAssumption ==
  /\ {Phase0, Phase1, Phase2, Phase3} \subseteq Nat
  /\ Phase0 <= Phase1 /\ Phase1 < Phase2 /\ Phase2 < Phase3
  /\ MaxRetries \in Nat /\ CheckSlots \in Nat /\ SleepSlots \in Nat

ASSUME AnswerAssumption ==
  /\ Clients # {} /\ IsFiniteSet(Clients)
  /\ Unreachable # Unparsable /\ Unreachable # Pending /\ Unparsable # Pending
  /\ Roots \cap {Unreachable, Unparsable, Pending} = {}

VARIABLES
  slot,       \* get_slot()
  stage,      \* the part of the experiment
  pc,         \* what the checker is doing in it
  goal,       \* target of wait_for_slot
  busy,       \* slots since the current request, batch or sleep began
  asked,      \* clients that gave no validators
  tries,      \* curr_try of check_for_consensus
  got,        \* the futures of the current batch
  world,      \* what each client answers at the moment
  verdict,    \* what the last check_for_consensus returned
  seen,       \* history: what each client answered since the batch began
  quiet,      \* history: some batch of this check saw one head and no change
  times,      \* history: the slots of start_faults, stop_faults, the last batch
  changes

vars == <<slot, stage, pc, goal, busy, asked, tries, got, world, verdict,
          seen, quiet, times, changes>>

Stages == {"phase0", "phase1", "chaos", "healing", "phase3", "complete", "dead"}
Steps == {"wait", "validators", "batch", "sleep", "loop", "end"}

Init ==
  /\ slot = 0 /\ stage = "phase0" /\ pc = "wait" /\ goal = Phase0 /\ busy = 0
  /\ asked = {} /\ tries = 0 /\ verdict = "none" /\ quiet = FALSE
  /\ got = [c \in Clients |-> Pending]
  /\ world \in [Clients -> Answers]
  /\ seen = [c \in Clients |-> {}]
  /\ times = [start |-> 0, stop |-> 0, batch |-> 0]
  /\ changes = 0
-----------------------------------------------------------------------------
(***************************************************************************)
(* Time and the clients.                                                   *)
(***************************************************************************)

\* wait_for_slot may return a second late: see TestnetMonitor!InSlot.
MayTick ==
  \/ pc = "wait" /\ slot <= goal
  \/ pc \in {"validators", "batch"} /\ busy < CheckSlots
  \/ pc = "sleep" /\ busy < SleepSlots

Tick ==
  /\ MayTick
  /\ slot' = slot + 1
  /\ busy' = IF pc = "wait" THEN busy ELSE busy + 1
  /\ UNCHANGED <<stage, pc, goal, asked, tries, got, world, verdict, seen,
                 quiet, times, changes>>

Change(c) ==
  /\ changes < MaxChanges
  /\ changes' = changes + 1
  /\ \E a \in Answers \ {world[c]} :
       /\ world' = [world EXCEPT ![c] = a]
       /\ seen' = [seen EXCEPT ![c] = IF pc = "batch" THEN @ \cup {a} ELSE @]
  /\ UNCHANGED <<slot, stage, pc, goal, busy, asked, tries, got, verdict,
                 quiet, times>>
-----------------------------------------------------------------------------
(***************************************************************************)
(* get_heads_status_check_slot: one request to every client at once.       *)
(***************************************************************************)

\* Mutation: the answers of the batch before are kept.
StartBatchKeepingAnswers ==
  /\ pc' = "batch" /\ busy' = 0
  /\ seen' = [c \in Clients |-> {world[c]}]
  /\ times' = [times EXCEPT !.batch = slot]
  /\ UNCHANGED got

StartBatch ==
  /\ pc' = "batch" /\ busy' = 0
  /\ got' = [c \in Clients |-> Pending]
  /\ seen' = [c \in Clients |-> {world[c]}]
  /\ times' = [times EXCEPT !.batch = slot]

Answer(c) ==
  /\ pc = "batch" /\ got[c] = Pending
  /\ got' = [got EXCEPT ![c] = world[c]]
  /\ UNCHANGED <<slot, stage, pc, goal, busy, asked, tries, world, verdict,
                 seen, quiet, times, changes>>

BatchDone == pc = "batch" /\ \A c \in Clients : got[c] # Pending
Parsed == \A c \in Clients : got[c] # Unparsable
unreachable_clients == {c \in Clients : got[c] = Unreachable}
heads == {got[c] : c \in Clients \ unreachable_clients}

\* Nothing changed during the batch and all clients have one head.
QuietBatch == \E r \in Roots : \A c \in Clients : seen[c] = {r}

\* An answer without a block in it: response.json(), ["data"]["message"] or the
\* decoding of the graffiti raises, nobody catches it, and the checker ends.
BlockRaises ==
  /\ BatchDone /\ ~Parsed
  /\ stage' = "dead" /\ pc' = "end"
  /\ UNCHANGED <<slot, goal, busy, asked, tries, got, world, verdict, seen,
                 quiet, times, changes>>

\* In the loops the status is printed.
StatusPrinted ==
  /\ BatchDone /\ Parsed /\ stage \in {"chaos", "healing"}
  /\ pc' = "loop"
  /\ UNCHANGED <<slot, stage, goal, busy, asked, tries, got, world, verdict,
                 seen, quiet, times, changes>>
-----------------------------------------------------------------------------
(***************************************************************************)
(* check_for_consensus.                                                    *)
(***************************************************************************)

\* Mutation: clients that do not answer do not count.
FoundAmongReachable == Cardinality(heads) = 1

Found == unreachable_clients = {} /\ Cardinality(heads) = 1

\* The phase is over with its verdict. That /data/tx-fuzzer-ready is touched after
\* phase 0 is left out: nothing in the repository looks at the file.
CheckEnds(result) ==
  /\ verdict' = result
  /\ IF stage = "phase0"
       THEN stage' = "phase1" /\ pc' = "wait" /\ goal' = Phase1
       ELSE stage' = "complete" /\ pc' = "end" /\ UNCHANGED goal

\* Mutation: one try too many.
ExhaustedLate == tries > MaxRetries + 1

Exhausted == tries > MaxRetries

\* One try is over: found, or another try after a sleep, or given up.
TryDone ==
  /\ BatchDone /\ Parsed /\ stage \in {"phase0", "phase3"}
  /\ quiet' = (quiet \/ QuietBatch)
  /\ \/ Found /\ CheckEnds("passed") /\ UNCHANGED <<tries, busy>>
     \/ /\ ~Found /\ Exhausted
        /\ CheckEnds("failed") /\ UNCHANGED <<tries, busy>>
     \/ /\ ~Found /\ ~Exhausted
        /\ pc' = "sleep" /\ busy' = 0
        /\ UNCHANGED <<verdict, stage, goal, tries>>
  /\ UNCHANGED <<slot, asked, got, world, seen, times, changes>>

Retry ==
  /\ pc = "sleep"
  /\ tries' = tries + 1
  /\ StartBatch
  /\ UNCHANGED <<slot, stage, goal, asked, world, verdict, quiet, changes>>

StartCheck == tries' = 1 /\ verdict' = "none" /\ quiet' = FALSE /\ StartBatch
-----------------------------------------------------------------------------
(***************************************************************************)
(* perform_finite_status_check.                                            *)
(***************************************************************************)

\* Mutation: wait_for_slot waits for exactly that slot.
ReachedExactly == pc = "wait" /\ slot = goal

Reached == pc = "wait" /\ slot >= goal

BeginPhase0 ==
  /\ Reached /\ stage = "phase0"
  /\ pc' = "validators" /\ busy' = 0
  /\ UNCHANGED <<slot, stage, goal, asked, tries, got, world, verdict, seen,
                 quiet, times, changes>>

\* get_validators_from_client asks one client after the other until one
\* answers; what it answers is only printed.
NoValidators(c) ==
  /\ pc = "validators" /\ c \notin asked
  /\ world[c] = Unreachable
  /\ asked' = asked \cup {c} /\ busy' = 0
  /\ UNCHANGED <<slot, stage, pc, goal, tries, got, world, verdict, seen,
                 quiet, times, changes>>

ValidatorsRaise ==
  /\ pc = "validators"
  /\ \E c \in Clients \ asked : world[c] = Unparsable
  /\ stage' = "dead" /\ pc' = "end"
  /\ UNCHANGED <<slot, goal, busy, asked, tries, got, world, verdict, seen,
                 quiet, times, changes>>

CheckPhase0 ==
  /\ pc = "validators"
  /\ asked = Clients \/ \E c \in Clients \ asked : world[c] \in Roots
  /\ StartCheck
  /\ UNCHANGED <<slot, stage, goal, asked, world, changes>>

\* Whatever the verdict of phase 0 is.
StartFaults ==
  /\ Reached /\ stage = "phase1"
  /\ stage' = "chaos" /\ pc' = "loop"
  /\ times' = [times EXCEPT !.start = slot]
  /\ UNCHANGED <<slot, goal, busy, asked, tries, got, world, verdict, seen,
                 quiet, changes>>

CheckHeads ==
  /\ Reached /\ stage \in {"chaos", "healing"}
  /\ StartBatch
  /\ UNCHANGED <<slot, stage, goal, asked, tries, world, verdict, quiet, changes>>

LoopEnd == IF stage = "chaos" THEN Phase2 ELSE Phase3

\* Mutation: while get_slot() <= ...
InLoopInclusive == pc = "loop" /\ slot <= LoopEnd

InLoop == pc = "loop" /\ slot < LoopEnd

WaitForNextSlot ==
  /\ InLoop
  /\ goal' = slot + 1 /\ pc' = "wait"
  /\ UNCHANGED <<slot, stage, busy, asked, tries, got, world, verdict, seen,
                 quiet, times, changes>>

StopFaults ==
  /\ pc = "loop" /\ ~InLoop /\ stage = "chaos"
  /\ stage' = "healing"
  /\ times' = [times EXCEPT !.stop = slot]
  /\ UNCHANGED <<slot, pc, goal, busy, asked, tries, got, world, verdict, seen,
                 quiet, changes>>

CheckPhase3 ==
  /\ pc = "loop" /\ ~InLoop /\ stage = "healing"
  /\ stage' = "phase3"
  /\ StartCheck
  /\ UNCHANGED <<slot, goal, asked, world, changes>>

Environment == Tick \/ \E c \in Clients : Change(c)

Checker ==
  \/ \E c \in Clients : Answer(c) \/ NoValidators(c)
  \/ BlockRaises \/ StatusPrinted \/ TryDone \/ Retry
  \/ BeginPhase0 \/ ValidatorsRaise \/ CheckPhase0 \/ StartFaults
  \/ CheckHeads \/ WaitForNextSlot \/ StopFaults \/ CheckPhase3

Next == Environment \/ Checker

Spec == Init /\ [][Next]_vars

\* Time passes, requests time out, and the checker is never suspended.
FairSpec == Spec /\ WF_vars(Tick) /\ WF_vars(Checker)
-----------------------------------------------------------------------------
\* The values the variables take; no check makes more tries than it may.
TypeOK ==
  /\ slot \in Nat /\ goal \in Nat /\ busy \in Nat /\ changes \in Nat
  /\ stage \in Stages /\ pc \in Steps
  /\ asked \in SUBSET Clients
  /\ tries \in 0 .. MaxRetries + 1
  /\ got \in [Clients -> Answers \cup {Pending}]
  /\ world \in [Clients -> Answers]
  /\ verdict \in {"none", "passed", "failed"}
  /\ seen \in [Clients -> SUBSET Answers]
  /\ quiet \in BOOLEAN
  /\ times \in [start : Nat, stop : Nat, batch : Nat]

Done == stage = "complete"

\* "Phase3 passed" is never an artefact of retries, of moving heads or of
\* answers that came late: after the faults had ended, and not before
\* phase3_slot, there was one batch of requests in which every client had the
\* same head at some moment.
PassedMeansAgreement ==
  Done /\ verdict = "passed" =>
    /\ times.batch >= Phase3 /\ times.batch >= times.stop
    /\ \E r \in Roots : \A c \in Clients : r \in seen[c]

\* And it does not fail a healthy network: a check fails only after all its
\* tries, and in each of them some client failed, changed its head, or had
\* another head than the others.
FailedMeansTrouble == verdict = "failed" => tries > MaxRetries /\ ~quiet

\* The checks of the loops do not let the phases drift: if phase 0 was over in
\* time, faults last for at most one check more than planned, and the network
\* has all the time to heal but that.
HealingTime ==
  times.start <= Phase2 =>
    /\ stage = "chaos" => slot <= Phase2 + CheckSlots + 1
    /\ stage \in {"phase3", "complete"} =>
         times.batch + Phase2 + CheckSlots + 1 >= times.stop + Phase3

\* Whichever clients are down and for however long, the experiment ends with a
\* verdict, as long as what the clients do answer can be parsed.
Completes == [](\A c \in Clients : world[c] # Unparsable) => <>Done

\* "Phase2: This is the endpoint for chaos": who starts faults stops them.
FaultsStop == stage = "chaos" ~> stage \in {"healing", "phase3", "complete"}
-----------------------------------------------------------------------------
(***************************************************************************)
(* Why the safety properties hold: the inductive invariant.                *)
(***************************************************************************)
\* What the checker does in each part of the experiment.
StageInv ==
  /\ stage = "phase0" => pc \in {"wait", "validators", "batch", "sleep"}
  /\ stage = "phase1" => pc = "wait"
  /\ stage \in {"chaos", "healing"} => pc \in {"wait", "batch", "loop"}
  /\ stage = "phase3" => pc \in {"batch", "sleep"}
  /\ stage \in {"complete", "dead"} => pc = "end"
  /\ pc = "sleep" => tries <= MaxRetries

\* The answers of a batch are among those the clients gave since it began.
BatchInv ==
  pc = "batch" => \A c \in Clients :
    world[c] \in seen[c] /\ got[c] \in seen[c] \cup {Pending}

\* A check has no verdict yet; a quiet batch always makes it pass, and what it
\* passed for stays as it was seen.
VerdictInv ==
  /\ pc \in {"batch", "sleep"} /\ stage \in {"phase0", "phase3"} => verdict = "none"
  /\ quiet => verdict = "passed"
  /\ verdict = "failed" => tries > MaxRetries
  /\ stage = "complete" /\ verdict = "passed" =>
       \E r \in Roots : \A c \in Clients : r \in seen[c]

\* The loop over the slots of a phase leaves it in time, and the last check
\* begins after the last phase.
TimeInv ==
  /\ times.stop <= slot /\ times.batch <= slot
  /\ stage \in {"phase3", "complete"} =>
       times.batch >= Phase3 /\ times.batch >= times.stop
  /\ times.start <= Phase2 =>
       /\ stage = "chaos" /\ pc = "wait" => goal <= Phase2 /\ slot <= goal + 1
       /\ stage = "chaos" /\ pc = "batch" =>
            busy <= CheckSlots /\ slot <= Phase2 + 1 + busy
       /\ stage = "chaos" /\ pc = "loop" => slot <= Phase2 + CheckSlots + 1
       /\ stage \in {"healing", "phase3", "complete"} =>
            times.stop <= Phase2 + CheckSlots + 1

\* What every state of the check satisfies: it implies that verdicts are sound both
\* ways and that a fault phase ends within one status check of its end.
IInv == TypeOK /\ StageInv /\ BatchInv /\ VerdictInv /\ TimeInv
=============================================================================
