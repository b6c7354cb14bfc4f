------------------------- MODULE StatusChecker_proofs -------------------------
(***************************************************************************)
(* TLAPS proofs about StatusChecker: for any number of clients, any phases,*)
(* tries and bounds on the time that requests and sleeps take.             *)
(***************************************************************************)
EXTENDS StatusChecker, FiniteSetTheorems, TLAPS

USE PhaseAssumption, AnswerAssumption

(***************************************************************************)
(* What the answers of a batch say.                                        *)
(***************************************************************************)
\* There is one head among finitely many exactly if all of them are that one.
LEMMA OneHead ==
  ASSUME unreachable_clients = {}
  PROVE  Cardinality(heads) = 1 <=> \E r : \A c \in Clients : got[c] = r
<1> DEFINE T == {got[c] : c \in Clients}
<1> DEFINE g == [c \in Clients |-> got[c]]
<1>1. heads = T
  BY DEF heads
<1>2. g \in Surjection(Clients, T)
  BY DEF Surjection
<1>3. IsFiniteSet(T)
  BY <1>2, FS_Surjection
<1>4. Cardinality(T) = 1 <=> \E r : T = {r}
  BY <1>3, FS_Singleton
<1>5. (\E r : T = {r}) <=> \E r : \A c \in Clients : got[c] = r
  <2>1. ASSUME NEW r, T = {r} PROVE \A c \in Clients : got[c] = r
    BY <2>1
  <2>2. ASSUME NEW r, \A c \in Clients : got[c] = r PROVE T = {r}
    BY <2>2
  <2> QED
    BY <2>1, <2>2
<1> QED
  BY <1>1, <1>4, <1>5

\* A check passes on a head that every client gave during the batch.
LEMMA FoundIsAgreement ==
  ASSUME TypeOK, BatchInv, BatchDone, Parsed, Found
  PROVE  \E r \in Roots : \A c \in Clients : r \in seen[c]
<1>1. PICK r : \A c \in Clients : got[c] = r
  BY OneHead DEF Found
<1>2. \A c \in Clients : got[c] # Unreachable
  BY DEF Found, unreachable_clients
<1>3. \A c \in Clients : got[c] \in Roots /\ got[c] \in seen[c]
  BY <1>2 DEF TypeOK, BatchInv, BatchDone, Parsed, Answers
<1> QED
  BY <1>1, <1>3

\* A batch in which nothing changed and all had one head is found.
LEMMA QuietIsFound ==
  ASSUME TypeOK, BatchInv, BatchDone, QuietBatch
  PROVE  Found
<1>1. PICK r \in Roots : \A c \in Clients : seen[c] = {r}
  BY DEF QuietBatch
<1>2. \A c \in Clients : got[c] = r
  BY <1>1 DEF BatchInv, BatchDone
<1>3. unreachable_clients = {}
  BY <1>2 DEF unreachable_clients
<1> QED
  BY <1>2, <1>3, OneHead DEF Found

(***************************************************************************)
(* The steps.                                                              *)
(***************************************************************************)
LEMMA InitStep == Init => IInv
<1> SUFFICES ASSUME Init PROVE IInv
  OBVIOUS
<1> USE DEF Init
<1>1. TypeOK
  <2>1. /\ got \in [Clients -> Answers \cup {Pending}]
        /\ seen \in [Clients -> SUBSET Answers]
    OBVIOUS
  <2>2. times \in [start : Nat, stop : Nat, batch : Nat] /\ 0 \in 0 .. MaxRetries + 1
    OBVIOUS
  <2>3. Phase0 \in Nat
    OBVIOUS
  <2> QED
    BY <2>1, <2>2, <2>3 DEF TypeOK, Stages, Steps
<1>2. StageInv /\ BatchInv /\ VerdictInv
  BY DEF StageInv, BatchInv, VerdictInv
<1>3. TimeInv
  BY DEF TimeInv
<1> QED
  BY <1>1, <1>2, <1>3 DEF IInv

\* A batch begins with futures for all clients, and a check with its first try.
LEMMA StartBatchTypes ==
  ASSUME TypeOK, StartBatch
  PROVE  /\ pc' \in Steps /\ busy' \in Nat
         /\ got' \in [Clients -> Answers \cup {Pending}]
         /\ seen' \in [Clients -> SUBSET Answers]
         /\ times' \in [start : Nat, stop : Nat, batch : Nat]
BY DEF TypeOK, StartBatch, Steps

LEMMA StartCheckTypes ==
  ASSUME TypeOK, StartCheck
  PROVE  /\ tries' \in 0 .. MaxRetries + 1 /\ quiet' \in BOOLEAN
         /\ verdict' \in {"none", "passed", "failed"}
<1>1. tries' = 1 /\ verdict' = "none" /\ quiet' = FALSE
  BY DEF StartCheck
<1>2. 1 \in 0 .. MaxRetries + 1
  OBVIOUS
<1> QED
  BY <1>1, <1>2

LEMMA TypeStep ==
  ASSUME IInv, [Next]_vars
  PROVE  TypeOK'
<1> USE DEF IInv, TypeOK, Stages, Steps
<1>1. CASE UNCHANGED vars
  BY <1>1 DEF vars
<1>2. CASE Tick
  BY <1>2 DEF Tick
<1>3. ASSUME NEW c \in Clients, Change(c) PROVE TypeOK'
  BY <1>3 DEF Change
<1>4. ASSUME NEW c \in Clients, Answer(c) PROVE TypeOK'
  BY <1>4 DEF Answer
<1>5. ASSUME NEW c \in Clients, NoValidators(c) PROVE TypeOK'
  BY <1>5 DEF NoValidators
<1>6. CASE BlockRaises
  BY <1>6 DEF BlockRaises
<1>7. CASE StatusPrinted
  BY <1>7 DEF StatusPrinted
<1>8. CASE TryDone
  <2>1. quiet' \in BOOLEAN
    BY <1>8 DEF TryDone, QuietBatch
  <2>2. /\ stage' \in Stages /\ pc' \in Steps /\ goal' \in Nat /\ busy' \in Nat
        /\ verdict' \in {"none", "passed", "failed"} /\ tries' = tries
    BY <1>8 DEF TryDone, CheckEnds
  <2> QED
    BY <1>8, <2>1, <2>2 DEF TryDone
<1>9. CASE Retry
  BY <1>9, StartBatchTypes DEF Retry, StageInv
<1>10. CASE BeginPhase0
  BY <1>10 DEF BeginPhase0
<1>11. CASE ValidatorsRaise
  BY <1>11 DEF ValidatorsRaise
<1>12. CASE CheckPhase0
  <2>1. StartBatch
    BY <1>12 DEF CheckPhase0, StartCheck
  <2> QED
    BY <1>12, <2>1, StartBatchTypes, StartCheckTypes DEF CheckPhase0
<1>13. CASE StartFaults
  BY <1>13 DEF StartFaults
<1>14. CASE CheckHeads
  BY <1>14, StartBatchTypes DEF CheckHeads
<1>15. CASE WaitForNextSlot
  BY <1>15 DEF WaitForNextSlot
<1>16. CASE StopFaults
  BY <1>16 DEF StopFaults
<1>17. CASE CheckPhase3
  <2>1. StartBatch
    BY <1>17 DEF CheckPhase3, StartCheck
  <2> QED
    BY <1>17, <2>1, StartBatchTypes, StartCheckTypes DEF CheckPhase3
<1> QED
  BY <1>1, <1>2, <1>3, <1>4, <1>5, <1>6, <1>7, <1>8, <1>9, <1>10, <1>11, <1>12,
     <1>13, <1>14, <1>15, <1>16, <1>17 DEF Next, Environment, Checker

LEMMA StageStep ==
  ASSUME IInv, [Next]_vars
  PROVE  StageInv'
<1> USE DEF IInv, StageInv
<1>1. CASE UNCHANGED vars
  BY <1>1 DEF vars
<1>2. CASE Tick \/ \E c \in Clients : Change(c) \/ Answer(c) \/ NoValidators(c)
  BY <1>2 DEF Tick, Change, Answer, NoValidators
<1>3. CASE BlockRaises \/ StatusPrinted \/ BeginPhase0 \/ ValidatorsRaise
  BY <1>3 DEF BlockRaises, StatusPrinted, BeginPhase0, ValidatorsRaise, Reached
<1>4. CASE TryDone
  BY <1>4 DEF TryDone, CheckEnds, Exhausted, TypeOK
<1>5. CASE Retry
  BY <1>5 DEF Retry, StartBatch, TypeOK, Stages
<1>6. CASE CheckPhase0
  BY <1>6 DEF CheckPhase0, StartCheck, StartBatch, TypeOK, Stages
<1>7. CASE CheckHeads
  BY <1>7 DEF CheckHeads, StartBatch, Reached
<1>8. CASE CheckPhase3
  BY <1>8 DEF CheckPhase3, StartCheck, StartBatch
<1>9. CASE StartFaults \/ WaitForNextSlot \/ StopFaults
  BY <1>9 DEF StartFaults, WaitForNextSlot, StopFaults, Reached, InLoop, TypeOK, Stages
<1> QED
  BY <1>1, <1>2, <1>3, <1>4, <1>5, <1>6, <1>7, <1>8, <1>9 DEF Next, Environment, Checker

\* What begins a batch.
LEMMA StartBatchStep ==
  ASSUME IInv, StartBatch, UNCHANGED world
  PROVE  BatchInv'
BY DEF IInv, TypeOK, BatchInv, StartBatch

LEMMA BatchStep ==
  ASSUME IInv, [Next]_vars
  PROVE  BatchInv'
<1>1. CASE UNCHANGED <<pc, world, seen, got>>
  BY <1>1 DEF IInv, BatchInv
<1>2. CASE pc' # "batch"
  BY <1>2 DEF BatchInv
<1>3. CASE StartBatch /\ UNCHANGED world
  BY <1>3, StartBatchStep
<1>4. ASSUME NEW c \in Clients, Change(c) PROVE BatchInv'
  <2>1. CASE pc # "batch"
    BY <1>4, <2>1 DEF Change, BatchInv
  <2>2. CASE pc = "batch"
    <3>1. PICK a : world' = [world EXCEPT ![c] = a]
                   /\ seen' = [seen EXCEPT ![c] = @ \cup {a}]
      BY <1>4, <2>2 DEF Change
    <3>2. \A d \in Clients : /\ world'[d] = IF d = c THEN a ELSE world[d]
                             /\ seen'[d] = IF d = c THEN seen[d] \cup {a} ELSE seen[d]
      BY <3>1 DEF IInv, TypeOK
    <3>3. got' = got
      BY <1>4 DEF Change
    <3> QED
      BY <2>2, <3>2, <3>3 DEF IInv, BatchInv
  <2> QED
    BY <2>1, <2>2
<1>5. ASSUME NEW c \in Clients, Answer(c) PROVE BatchInv'
  BY <1>5 DEF Answer, IInv, TypeOK, BatchInv
<1> QED
  BY <1>1, <1>2, <1>3, <1>4, <1>5 DEF Next, Environment, Checker, vars, Tick,
     NoValidators, BlockRaises, StatusPrinted, TryDone, CheckEnds, Retry,
     BeginPhase0, ValidatorsRaise, CheckPhase0, StartCheck, StartFaults,
     CheckHeads, WaitForNextSlot, StopFaults, CheckPhase3
LEMMA VerdictStep ==
  ASSUME IInv, [Next]_vars
  PROVE  VerdictInv'
<1> USE DEF IInv, VerdictInv
<1>1. CASE UNCHANGED vars
  BY <1>1 DEF vars
<1>2. CASE Tick \/ \E c \in Clients : Answer(c) \/ NoValidators(c)
  BY <1>2 DEF Tick, Answer, NoValidators
<1>3. ASSUME NEW c \in Clients, Change(c) PROVE VerdictInv'
  <2>1. stage = "complete" => seen' = seen
    <3>1. ASSUME stage = "complete" PROVE \A d \in Clients : seen'[d] = seen[d]
      BY <1>3, <3>1 DEF Change, StageInv, TypeOK
    <3>2. seen \in [Clients -> SUBSET Answers] /\ seen' \in [Clients -> SUBSET Answers]
      BY TypeStep, <1>3 DEF TypeOK, Next, Environment
    <3> QED
      BY <3>1, <3>2
  <2> QED
    BY <1>3, <2>1 DEF Change
<1>4. CASE BlockRaises \/ StatusPrinted \/ BeginPhase0 \/ ValidatorsRaise
  BY <1>4 DEF BlockRaises, StatusPrinted, BeginPhase0, ValidatorsRaise, Reached
<1>5. CASE TryDone
  <2>1. verdict = "none" /\ quiet = FALSE
    BY <1>5 DEF TryDone, BatchDone, TypeOK
  <2>2. /\ BatchDone /\ Parsed /\ stage \in {"phase0", "phase3"} /\ seen' = seen
        /\ quiet' = (quiet \/ QuietBatch)
        /\ tries' = tries
    BY <1>5 DEF TryDone
  <2>3. CASE Found
    <3>1. verdict' = "passed" /\ (pc' = "wait" \/ pc' = "end")
      BY <1>5, <2>3 DEF TryDone, CheckEnds
    <3>2. \E r \in Roots : \A c \in Clients : r \in seen[c]
      BY <2>2, <2>3, FoundIsAgreement
    <3> QED
      BY <2>2, <3>1, <3>2
  <2>4. CASE ~Found
    <3>1. quiet' = FALSE
      BY <2>1, <2>2, <2>4, QuietIsFound
    <3>2. CASE Exhausted
      <4>1. verdict' = "failed" /\ (pc' = "wait" \/ pc' = "end")
        BY <1>5, <2>4, <3>2 DEF TryDone, CheckEnds
      <4> QED
        BY <2>2, <3>1, <3>2, <4>1 DEF Exhausted
    <3>3. CASE ~Exhausted
      <4>1. verdict' = verdict /\ stage' = stage
        BY <1>5, <2>4, <3>3 DEF TryDone
      <4> QED
        BY <2>1, <2>2, <3>1, <4>1
    <3> QED
      BY <3>2, <3>3
  <2> QED
    BY <2>3, <2>4
<1>6. CASE Retry
  <2>1. stage \in {"phase0", "phase3"}
    BY <1>6 DEF Retry, StageInv, TypeOK, Stages
  <2> QED
    BY <1>6, <2>1 DEF Retry, StartBatch
<1>7. CASE CheckPhase0 \/ CheckPhase3
  BY <1>7 DEF CheckPhase0, CheckPhase3, StartCheck, StartBatch
<1>8. CASE CheckHeads
  BY <1>8 DEF CheckHeads, StartBatch
<1>9. CASE StartFaults \/ WaitForNextSlot \/ StopFaults
  BY <1>9 DEF StartFaults, WaitForNextSlot, StopFaults
<1> QED
  BY <1>1, <1>2, <1>3, <1>4, <1>5, <1>6, <1>7, <1>8, <1>9 DEF Next, Environment, Checker

LEMMA TimeStep ==
  ASSUME IInv, [Next]_vars
  PROVE  TimeInv'
<1>0. /\ slot \in Nat /\ goal \in Nat /\ busy \in Nat
      /\ times \in [start : Nat, stop : Nat, batch : Nat]
      /\ CheckSlots \in Nat /\ Phase2 \in Nat /\ Phase3 \in Nat
  BY DEF IInv, TypeOK
<1> USE <1>0 DEF TimeInv
<1>t. TimeInv
  BY DEF IInv
<1>1. CASE UNCHANGED vars
  BY <1>t, <1>1 DEF vars
<1>2. CASE Tick
  <2>1. slot' = slot + 1 /\ UNCHANGED <<stage, pc, goal, times>>
    BY <1>2 DEF Tick
  <2>2. pc = "wait" => slot <= goal
    BY <1>2 DEF Tick, MayTick
  <2>3. pc = "batch" => busy < CheckSlots /\ busy' = busy + 1
    BY <1>2 DEF Tick, MayTick
  <2>4. pc # "loop"
    BY <1>2 DEF Tick, MayTick
  <2> QED
    BY <1>t, <2>1, <2>2, <2>3, <2>4
<1>3. CASE \E c \in Clients : Change(c) \/ Answer(c)
  BY <1>t, <1>3 DEF Change, Answer
<1>4. CASE (\E c \in Clients : NoValidators(c)) \/ BeginPhase0 \/ ValidatorsRaise
             \/ BlockRaises
  BY <1>t, <1>4 DEF NoValidators, BeginPhase0, ValidatorsRaise, BlockRaises, IInv, StageInv
<1>5. CASE StatusPrinted
  BY <1>t, <1>5 DEF StatusPrinted, BatchDone
<1>6. CASE TryDone
  BY <1>t, <1>6 DEF TryDone, CheckEnds
<1>7. CASE Retry
  <2>1. stage \in {"phase0", "phase3"}
    BY <1>7 DEF Retry, IInv, StageInv, TypeOK, Stages
  <2> QED
    BY <1>t, <1>7, <2>1 DEF Retry, StartBatch
<1>8. CASE CheckPhase0
  BY <1>t, <1>8 DEF CheckPhase0, StartCheck, StartBatch, IInv, StageInv
<1>9. CASE StartFaults
  BY <1>t, <1>9 DEF StartFaults
<1>10. CASE CheckHeads
  BY <1>t, <1>10 DEF CheckHeads, StartBatch, Reached
<1>11. CASE WaitForNextSlot
  BY <1>t, <1>11 DEF WaitForNextSlot, InLoop, LoopEnd
<1>12. CASE StopFaults
  BY <1>t, <1>12 DEF StopFaults
<1>13. CASE CheckPhase3
  BY <1>t, <1>13 DEF CheckPhase3, StartCheck, StartBatch, InLoop, LoopEnd
<1> QED
  BY <1>1, <1>2, <1>3, <1>4, <1>5, <1>6, <1>7, <1>8, <1>9, <1>10, <1>11, <1>12,
     <1>13 DEF Next, Environment, Checker
LEMMA InductiveStep == IInv /\ [Next]_vars => IInv'
BY TypeStep, StageStep, BatchStep, VerdictStep, TimeStep DEF IInv

(***************************************************************************)
(* The theorems.                                                           *)
(***************************************************************************)
\* What the checker does in each part, what its batches and checks have seen,
\* and how far the clock is.
THEOREM InductiveInvariant == Spec => []IInv
<1> QED
  BY InitStep, InductiveStep, PTL DEF Spec

\* The variables always have values of their types, and no check makes more
\* tries than it may.
THEOREM TypeCorrect == Spec => []TypeOK
<1>1. IInv => TypeOK
  BY DEF IInv
<1> QED
  BY <1>1, InductiveInvariant, PTL

\* "Phase3 passed" means that all clients had the same head at some moment of
\* one batch of requests, made after the faults and not before phase3_slot.
THEOREM PassedIsReal == Spec => []PassedMeansAgreement
<1>1. IInv => PassedMeansAgreement
  BY DEF IInv, VerdictInv, TimeInv, PassedMeansAgreement, Done
<1> QED
  BY <1>1, InductiveInvariant, PTL

\* A check fails only after all its tries, none of which saw a quiet network
\* with one head.
THEOREM FailedIsReal == Spec => []FailedMeansTrouble
<1>1. IInv => FailedMeansTrouble
  BY DEF IInv, VerdictInv, FailedMeansTrouble
<1> QED
  BY <1>1, InductiveInvariant, PTL

\* Faults last for at most one check more than planned, and the network has the
\* time between phase 2 and phase 3 to heal, but that one check.
THEOREM TimeToHeal == Spec => []HealingTime
<1>1. IInv => HealingTime
  <2> SUFFICES ASSUME IInv, times.start <= Phase2
               PROVE  /\ stage = "chaos" => slot <= Phase2 + CheckSlots + 1
                      /\ stage \in {"phase3", "complete"} =>
                           times.batch + Phase2 + CheckSlots + 1 >= times.stop + Phase3
    BY DEF HealingTime
  <2>1. /\ slot \in Nat /\ goal \in Nat /\ busy \in Nat
        /\ times \in [start : Nat, stop : Nat, batch : Nat]
        /\ CheckSlots \in Nat /\ Phase2 \in Nat /\ Phase3 \in Nat
    BY DEF IInv, TypeOK
  <2>2. TimeInv
    BY DEF IInv
  <2>3. stage = "chaos" => slot <= Phase2 + CheckSlots + 1
    <3> SUFFICES ASSUME stage = "chaos" PROVE slot <= Phase2 + CheckSlots + 1
      OBVIOUS
    <3>1. pc \in {"wait", "batch", "loop"}
      BY DEF IInv, StageInv
    <3>2. CASE pc = "wait"
      BY <2>1, <2>2, <3>2 DEF TimeInv
    <3>3. CASE pc = "batch"
      BY <2>1, <2>2, <3>3 DEF TimeInv
    <3>4. CASE pc = "loop"
      BY <2>2, <3>4 DEF TimeInv
    <3> QED
      BY <3>1, <3>2, <3>3, <3>4
  <2>4. stage \in {"phase3", "complete"} =>
          times.batch + Phase2 + CheckSlots + 1 >= times.stop + Phase3
    BY <2>1, <2>2 DEF TimeInv
  <2> QED
    BY <2>3, <2>4
<1> QED
  BY <1>1, InductiveInvariant, PTL
=============================================================================
