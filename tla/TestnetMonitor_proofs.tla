------------------------- MODULE TestnetMonitor_proofs -------------------------
(***************************************************************************)
(* TLAPS proofs about TestnetMonitor: for any length of slots and epochs,  *)
(* any number of actions, and any bounds on sleeps, delays, the time that  *)
(* an action takes and how late a sleep may wake.                          *)
(***************************************************************************)
EXTENDS TestnetMonitor, TLAPS

USE ClockAssumption

(***************************************************************************)
(* Seconds and slots.                                                      *)
(***************************************************************************)
LEMMA SlotBounds ==
  ASSUME NEW t \in Nat
  PROVE  /\ get_slot(t) \in Nat
         /\ get_slot(t) * SecondsPerSlot <= t
         /\ t < get_slot(t) * SecondsPerSlot + SecondsPerSlot
BY DEF get_slot

LEMMA SlotAtMost ==
  ASSUME NEW t \in Nat, NEW n \in Nat, t < n * SecondsPerSlot + SecondsPerSlot
  PROVE  get_slot(t) <= n
BY DEF get_slot

LEMMA SlotMonotone ==
  ASSUME NEW t \in Nat, NEW u \in Nat, t <= u
  PROVE  get_slot(t) <= get_slot(u)
BY DEF get_slot

LEMMA Distribute ==
  ASSUME NEW a \in Nat, NEW b \in Nat, NEW c \in Nat
  PROVE  a * c \in Nat /\ (a + b) * c = a * c + b * c
OBVIOUS

\* A sleep of d that wakes l late ends less than l after e, if one of m ends before.
LEMMA LateEnd ==
  ASSUME NEW t \in Nat, NEW d \in Nat, NEW m \in Nat, NEW e \in Nat, NEW l \in Nat,
         d <= m, t + m < e
  PROVE  t + d + l \in Nat /\ t <= t + d + l /\ t + d + l < e + l
OBVIOUS

\* The whole slots that wait_for_slot sleeps at most take it no further than the
\* goal does from the slot it is in.
LEMMA DeltaEnds ==
  ASSUME now \in Nat, goal \in Nat, get_slot(now) < goal
  PROVE  Delta \in Nat /\ now + Delta < (goal + 1) * SecondsPerSlot
<1>1. get_slot(now) \in Nat
  BY SlotBounds
<1>2. PICK d \in Nat : goal = get_slot(now) + d /\ goal - get_slot(now) = d
  <2>1. goal - get_slot(now) \in Nat
    BY <1>1
  <2> QED
    BY <1>1, <2>1
<1>3. Delta = d * SecondsPerSlot /\ Delta \in Nat
  BY <1>2, Distribute DEF Delta
<1>4. (goal + 1) * SecondsPerSlot
        = get_slot(now) * SecondsPerSlot + d * SecondsPerSlot + SecondsPerSlot
  <2>1. (get_slot(now) + d + 1) * SecondsPerSlot
          = (get_slot(now) + d) * SecondsPerSlot + 1 * SecondsPerSlot
    BY <1>1, Distribute
  <2>2. (get_slot(now) + d) * SecondsPerSlot
          = get_slot(now) * SecondsPerSlot + d * SecondsPerSlot
    BY <1>1, Distribute
  <2> QED
    BY <1>1, <1>2, <2>1, <2>2
<1>5. now < get_slot(now) * SecondsPerSlot + SecondsPerSlot
  BY SlotBounds
<1>6. get_slot(now) * SecondsPerSlot \in Nat /\ d * SecondsPerSlot \in Nat
  BY <1>1, Distribute
<1> DEFINE a == get_slot(now) * SecondsPerSlot
<1> DEFINE b == d * SecondsPerSlot
<1>7. a \in Nat /\ b \in Nat /\ now < a + SecondsPerSlot /\ Delta = b
      /\ (goal + 1) * SecondsPerSlot = a + b + SecondsPerSlot
  BY <1>3, <1>4, <1>5, <1>6
<1> HIDE DEF a, b
<1>8. now + b < a + b + SecondsPerSlot
  BY <1>7
<1> QED
  BY <1>3, <1>7, <1>8
\* Within a slot's time after the goal's, the lateness of the last sleep included,
\* the clock is at most one slot further.
LEMMA NextSlotSoon ==
  ASSUME NEW t \in Nat, NEW u \in Nat, NEW n \in Nat, late \in Nat, InSlot(t, n),
         t <= u, u + late < t + SecondsPerSlot
  PROVE  get_slot(u) <= n + 1
<1>1. t < (n + 1) * SecondsPerSlot + late
  BY DEF InSlot
<1> DEFINE m == (n + 1) * SecondsPerSlot
<1>2. m \in Nat /\ t < m + late
  BY <1>1, Distribute
<1> HIDE DEF m
<1>3. u < m + SecondsPerSlot
  BY <1>2
<1>4. u < (n + 1) * SecondsPerSlot + SecondsPerSlot
  BY <1>3 DEF m
<1> QED
  BY <1>4, SlotAtMost

(***************************************************************************)
(* The steps.                                                              *)
(***************************************************************************)
LEMMA ActionsAtValues ==
  /\ DOMAIN ActionsAt = {"once", "next", "wait", "slot", "epoch", "delay", "fuzz",
                         "returned", "dead"}
  /\ ActionsAt["once"] = OnceActions /\ ActionsAt["slot"] = SlotActions
  /\ ActionsAt["epoch"] = EpochActions
  /\ ActionsAt["dead"] = SlotActions + EpochActions
  /\ \A at \in {"next", "wait", "delay", "fuzz", "returned"} : ActionsAt[at] = 0
BY DEF ActionsAt

LEMMA InitStep == Init => IInv
<1> SUFFICES ASSUME Init PROVE IInv
  OBVIOUS
<1>1. /\ caller \in {"node_watch", "spam_once", "spam_forever"}
      /\ now \in Nat /\ wake = now /\ k = 0 /\ goal = 0
      /\ pc = IF caller = "node_watch" THEN "once" ELSE "delay"
      /\ epochs = [e \in Epochs |-> 0]
      /\ late = 0
  <2>1. SecondsPerSlot * SlotsPerEpoch \in Nat
    BY Distribute
  <2> QED
    BY <2>1 DEF Init
<1>2. get_slot(now) \in Nat
  BY <1>1, SlotBounds
<1>3. TypeOK
  BY <1>1, <1>2, ActionsAtValues DEF TypeOK
<1>4. CallerInv
  BY <1>1 DEF CallerInv
<1>5. SlotInv
  BY <1>1 DEF SlotInv
<1>6. EpochInv
  BY <1>1 DEF EpochInv
<1> QED
  BY <1>3, <1>4, <1>5, <1>6 DEF IInv

\* One more action of a list takes some time, maybe none.
LEMMA PerformStep ==
  ASSUME TypeOK, NEW n \in Nat, Perform(n)
  PROVE  now' \in Nat /\ now <= now' /\ k' \in 0 .. n
<1>1. k \in Nat
  BY ActionsAtValues DEF TypeOK
<1> QED
  BY <1>1 DEF TypeOK, Perform

\* One sleep goes past the goal's slot by less than it wakes late.
LEMMA SleepStep ==
  ASSUME TypeOK, Sleep
  PROVE  /\ now' \in Nat /\ now <= now' /\ late' \in Nat
         /\ now' < (goal + 1) * SecondsPerSlot + late'
<1>1. now \in Nat /\ goal \in Nat /\ get_slot(now) < goal
  BY DEF TypeOK, Sleep
<1>2. Delta \in Nat /\ now + Delta < (goal + 1) * SecondsPerSlot
  BY <1>1, DeltaEnds
<1>3. Shorter(Delta, MaxSleep) \in Nat /\ Shorter(Delta, MaxSleep) <= Delta
  BY <1>2 DEF Shorter
<1>4. late' \in Nat /\ now' = now + Shorter(Delta, MaxSleep) + late'
  BY DEF Sleep, SleepFor
<1>5. (goal + 1) * SecondsPerSlot \in Nat
  BY <1>1, Distribute
<1> QED
  BY <1>1, <1>2, <1>3, <1>4, <1>5, LateEnd

\* The clock never runs back.
LEMMA ClockStep ==
  ASSUME TypeOK, [Next]_vars
  PROVE  now' \in Nat /\ now <= now' /\ get_slot(now) <= get_slot(now')
<1>1. now' \in Nat /\ now <= now'
  <2>0. now \in Nat
    BY DEF TypeOK
  <2>1. CASE OnceAction \/ SlotAction \/ EpochAction
    BY <2>1, PerformStep DEF OnceAction, SlotAction, EpochAction
  <2>2. CASE Sleep
    BY <2>2, SleepStep
  <2>3. CASE Fuzz
    BY <2>0, <2>3 DEF Fuzz
  <2>4. CASE UNCHANGED now
    BY <2>0, <2>4
  <2> QED
    BY <2>1, <2>2, <2>3, <2>4 DEF Next, vars, OnceDone, NextGoal, Woken, SlotDone,
       EpochDone, PrometheusUnpackFails, WaitForEpoch, NoEpochDelay
<1> QED
  BY <1>1, SlotMonotone DEF TypeOK
LEMMA TypeStep ==
  ASSUME IInv, [Next]_vars
  PROVE  TypeOK'
<1>1. /\ caller \in {"node_watch", "spam_once", "spam_forever"}
      /\ now \in Nat /\ goal \in Nat /\ wake \in 0 .. now /\ epochs \in [Epochs -> Nat]
      /\ late \in Nat
      /\ caller = "node_watch" => goal <= get_slot(now) + 1
      /\ pc \in DOMAIN ActionsAt /\ k \in 0 .. ActionsAt[pc]
  BY DEF IInv, TypeOK
<1>2. now' \in Nat /\ now <= now' /\ get_slot(now) <= get_slot(now')
      /\ get_slot(now) \in Nat /\ get_slot(now') \in Nat
  BY ClockStep, SlotBounds DEF IInv, TypeOK
<1>3. caller' = caller
  BY DEF Next, vars, OnceAction, OnceDone, NextGoal, Sleep, Woken, SlotAction,
         SlotDone, EpochAction, EpochDone, PrometheusUnpackFails, WaitForEpoch,
         NoEpochDelay, Fuzz
<1>4. goal' \in Nat /\ (caller = "node_watch" => goal' <= get_slot(now') + 1)
  <2>1. CASE UNCHANGED goal
    BY <1>1, <1>2, <2>1
  <2>2. CASE NextGoal
    BY <1>1, <1>2, <2>2 DEF NextGoal
  <2>3. CASE WaitForEpoch
    <3>1. PICK epoch \in 0 .. MaxDelay : goal' = epoch * SlotsPerEpoch
      BY <2>3 DEF WaitForEpoch
    <3>2. goal' \in Nat
      BY <3>1, Distribute
    <3>3. caller # "node_watch"
      BY <2>3 DEF WaitForEpoch, IInv, CallerInv
    <3> QED
      BY <3>2, <3>3
  <2> QED
    BY <2>1, <2>2, <2>3 DEF Next, vars, OnceAction, OnceDone, Sleep, Woken,
       SlotAction, SlotDone, EpochAction, EpochDone, PrometheusUnpackFails,
       NoEpochDelay, Fuzz
<1>5. wake' \in 0 .. now'
  <2>1. CASE UNCHANGED wake
    BY <1>1, <1>2, <2>1
  <2>2. CASE Woken
    BY <1>1, <2>2 DEF Woken
  <2> QED
    BY <2>1, <2>2 DEF Next, vars, OnceAction, OnceDone, NextGoal, Sleep,
       SlotAction, SlotDone, EpochAction, EpochDone, PrometheusUnpackFails,
       WaitForEpoch, NoEpochDelay, Fuzz
<1>6. epochs' \in [Epochs -> Nat]
  <2>1. CASE UNCHANGED epochs
    BY <1>1, <2>1
  <2>2. CASE EpochDone
    BY <1>1, <2>2 DEF EpochDone
  <2> QED
    BY <2>1, <2>2 DEF Next, vars, OnceAction, OnceDone, NextGoal, Sleep, Woken,
       SlotAction, SlotDone, EpochAction, PrometheusUnpackFails,
       WaitForEpoch, NoEpochDelay, Fuzz
<1>7. pc' \in DOMAIN ActionsAt /\ k' \in 0 .. ActionsAt[pc']
  <2> USE <1>1, ActionsAtValues
  <2>1. CASE OnceAction
    BY <2>1, PerformStep DEF OnceAction, IInv
  <2>2. CASE SlotAction
    BY <2>2, PerformStep DEF SlotAction, IInv
  <2>3. CASE EpochAction
    BY <2>3, PerformStep DEF EpochAction, IInv
  <2>4. CASE OnceDone \/ SlotDone \/ EpochDone
    BY <2>4 DEF OnceDone, SlotDone, EpochDone
  <2>5. CASE NextGoal \/ Sleep \/ Woken
    BY <2>5 DEF NextGoal, Sleep, Woken
  <2>6. CASE PrometheusUnpackFails
    BY <2>6 DEF PrometheusUnpackFails
  <2>7. CASE WaitForEpoch \/ NoEpochDelay
    BY <2>7 DEF WaitForEpoch, NoEpochDelay
  <2>8. CASE Fuzz
    BY <2>8 DEF Fuzz
  <2>9. CASE UNCHANGED vars
    BY <2>9 DEF vars
  <2> QED
    BY <2>1, <2>2, <2>3, <2>4, <2>5, <2>6, <2>7, <2>8, <2>9 DEF Next
<1>8. late' \in Nat
  <2>1. CASE UNCHANGED late
    BY <1>1, <2>1
  <2>2. CASE Sleep
    BY <2>2, SleepStep DEF IInv
  <2>3. CASE NextGoal \/ WaitForEpoch
    BY <2>3 DEF NextGoal, WaitForEpoch
  <2> QED
    BY <2>1, <2>2, <2>3 DEF Next, vars, OnceAction, OnceDone, Woken, SlotAction,
       SlotDone, EpochAction, EpochDone, PrometheusUnpackFails, NoEpochDelay, Fuzz
<1> QED
  BY <1>1, <1>2, <1>3, <1>4, <1>5, <1>6, <1>7, <1>8 DEF TypeOK

LEMMA CallerStep ==
  ASSUME IInv, [Next]_vars
  PROVE  CallerInv'
<1> USE DEF IInv, CallerInv
<1>1. CASE OnceAction \/ OnceDone \/ NextGoal \/ Sleep \/ Woken \/ UNCHANGED vars
  BY <1>1 DEF OnceAction, OnceDone, NextGoal, Sleep, Woken, vars
<1>2. CASE SlotAction \/ SlotDone \/ EpochAction \/ EpochDone \/ PrometheusUnpackFails
  BY <1>2 DEF SlotAction, SlotDone, EpochAction, EpochDone, PrometheusUnpackFails
<1>3. CASE WaitForEpoch \/ NoEpochDelay \/ Fuzz
  BY <1>3 DEF WaitForEpoch, NoEpochDelay, Fuzz
<1> QED
  BY <1>1, <1>2, <1>3 DEF Next

\* wait_for_slot(goal) returns in the slot it was called for, or as long after it
\* as its last sleep was late, unless that slot was over when it was called.
LEMMA WokenInSlot ==
  ASSUME IInv, pc = "wait", get_slot(now) >= goal, get_slot(wake) < goal
  PROVE  InSlot(now, goal)
BY DEF IInv, SlotInv, InSlot

LEMMA SlotStep ==
  ASSUME IInv, [Next]_vars
  PROVE  SlotInv'
<1>1. now \in Nat /\ goal \in Nat /\ wake \in Nat /\ wake <= now
  BY DEF IInv, TypeOK
<1>2. now' \in Nat /\ now <= now' /\ get_slot(now) <= get_slot(now')
      /\ get_slot(now) \in Nat /\ get_slot(now') \in Nat
      /\ get_slot(wake) \in Nat /\ get_slot(wake) <= get_slot(now)
  BY <1>1, ClockStep, SlotBounds, SlotMonotone DEF IInv
<1>3. SlotInv /\ CallerInv
  BY DEF IInv
<1>4. CASE OnceAction
  BY <1>3, <1>4 DEF OnceAction, SlotInv
<1>5. CASE OnceDone
  <2>1. goal' = 0 /\ pc' \in {"returned", "next"} /\ now' = now
    BY <1>3, <1>5 DEF OnceDone, SlotInv
  <2> QED
    BY <1>2, <2>1 DEF SlotInv
<1>6. CASE NextGoal
  <2>1. /\ pc' = "wait" /\ goal' = get_slot(now) + 1 /\ late' = 0
        /\ UNCHANGED <<now, wake>>
    BY <1>6 DEF NextGoal
  <2>2. get_slot(wake') < goal'
    BY <1>2, <2>1
  <2>3. now' < (goal' + 1) * SecondsPerSlot + late'
    <3>1. now < get_slot(now) * SecondsPerSlot + SecondsPerSlot
      BY <1>1, SlotBounds
    <3>2. (get_slot(now) + 2) * SecondsPerSlot
            = get_slot(now) * SecondsPerSlot + 2 * SecondsPerSlot
      BY <1>2, Distribute
    <3>3. goal' + 1 = get_slot(now) + 2 /\ get_slot(now) * SecondsPerSlot \in Nat
      BY <1>2, <2>1, Distribute
    <3> QED
      BY <1>1, <2>1, <3>1, <3>2, <3>3
  <2> QED
    BY <2>1, <2>2, <2>3 DEF SlotInv
<1>7. CASE Sleep
  <2>1. pc = "wait" /\ UNCHANGED <<caller, pc, goal, wake>>
    BY <1>7 DEF Sleep
  <2>2. now' < (goal' + 1) * SecondsPerSlot + late'
    BY <1>7, <2>1, SleepStep DEF IInv
  <2>3. pc' = "wait" /\ (caller' = "node_watch" => get_slot(wake') < goal')
    BY <1>3, <2>1 DEF SlotInv
  <2> QED
    BY <2>2, <2>3 DEF SlotInv
<1>8. CASE Woken
  <2>1. /\ pc = "wait" /\ get_slot(now) >= goal /\ UNCHANGED <<caller, now, goal, late>>
        /\ pc' = IF caller = "node_watch" THEN "slot" ELSE "fuzz"
        /\ wake' = now
    BY <1>8 DEF Woken
  <2>2. caller = "node_watch" => InSlot(now, goal)
    BY <1>3, <2>1, WokenInSlot DEF SlotInv
  <2>3. caller = "node_watch" => InSlot(wake, goal)'
    BY <2>1, <2>2 DEF InSlot, get_slot
  <2> QED
    BY <1>1, <1>2, <2>1, <2>3 DEF SlotInv
<1>9. CASE SlotAction \/ SlotDone \/ EpochAction \/ EpochDone
  <2>1. /\ pc \in {"slot", "epoch"} /\ pc' \in {"slot", "epoch", "next"}
        /\ UNCHANGED <<goal, wake, late>>
    BY <1>9 DEF SlotAction, SlotDone, EpochAction, EpochDone
  <2>2. goal <= get_slot(now) /\ InSlot(wake, goal)
    BY <1>3, <2>1 DEF SlotInv
  <2>3. InSlot(wake, goal)'
    BY <2>1, <2>2 DEF InSlot, get_slot
  <2> QED
    BY <1>1, <1>2, <2>1, <2>2, <2>3 DEF SlotInv
<1>10. CASE PrometheusUnpackFails \/ NoEpochDelay \/ Fuzz
  <2>1. pc' \in {"dead", "fuzz", "returned"}
    BY <1>10 DEF PrometheusUnpackFails, NoEpochDelay, Fuzz
  <2> QED
    BY <2>1 DEF SlotInv
<1>11. CASE WaitForEpoch
  <2>1. /\ pc' = "wait" /\ caller' # "node_watch" /\ wake = now /\ late' = 0
        /\ UNCHANGED <<now, wake>>
    BY <1>3, <1>11 DEF WaitForEpoch, SlotInv, CallerInv
  <2>2. goal' \in Nat
    BY TypeStep DEF TypeOK
  <2>3. ASSUME get_slot(now) < goal'
        PROVE  now' < (goal' + 1) * SecondsPerSlot + late'
    <3>1. PICK d \in Nat : goal' = get_slot(now) + d
      <4>1. goal' - get_slot(now) \in Nat
        BY <1>2, <2>2, <2>3
      <4> QED
        BY <1>2, <2>2, <4>1
    <3>2. goal' + 1 = get_slot(now) + (d + 1)
      BY <1>2, <2>2, <3>1
    <3>3. (goal' + 1) * SecondsPerSlot
            = get_slot(now) * SecondsPerSlot + (d + 1) * SecondsPerSlot
      BY <1>2, <3>2, Distribute
    <3>4. (d + 1) * SecondsPerSlot = d * SecondsPerSlot + SecondsPerSlot
          /\ d * SecondsPerSlot \in Nat /\ get_slot(now) * SecondsPerSlot \in Nat
      BY <1>2, Distribute
    <3>5. now < get_slot(now) * SecondsPerSlot + SecondsPerSlot
      BY <1>1, SlotBounds
    <3> QED
      BY <1>1, <2>1, <3>3, <3>4, <3>5
  <2>4. get_slot(wake') = get_slot(now)
    BY <2>1
  <2>5. get_slot(wake') < goal' => now' < (goal' + 1) * SecondsPerSlot + late'
    BY <2>3, <2>4
  <2> QED
    BY <2>1, <2>5 DEF SlotInv
<1>12. CASE UNCHANGED vars
  BY <1>3, <1>12 DEF vars, SlotInv, InSlot, get_slot
<1> QED
  BY <1>4, <1>5, <1>6, <1>7, <1>8, <1>9, <1>10, <1>11, <1>12 DEF Next
LEMMA EpochStep ==
  ASSUME IInv, [Next]_vars
  PROVE  EpochInv'
<1>1. /\ goal \in Nat /\ epochs \in [Epochs -> Nat]
      /\ \A e \in Epochs : e \in Nat /\ e * SlotsPerEpoch \in Nat
      /\ EpochInv
  BY Distribute DEF IInv, TypeOK, Epochs
<1>2. CASE /\ UNCHANGED <<caller, goal, epochs>>
           /\ pc # "next"
           /\ pc' = "epoch" => goal % SlotsPerEpoch = 0
  BY <1>1, <1>2 DEF EpochInv
<1>3. CASE OnceAction \/ OnceDone \/ Sleep \/ Woken
  BY <1>2, <1>3 DEF OnceAction, OnceDone, Sleep, Woken
<1>4. CASE SlotAction \/ SlotDone
  BY <1>2, <1>4 DEF SlotAction, SlotDone
<1>5. CASE EpochAction
  BY <1>1, <1>2, <1>5 DEF EpochAction, EpochInv
<1>6. CASE PrometheusUnpackFails \/ NoEpochDelay \/ Fuzz
  BY <1>2, <1>6 DEF PrometheusUnpackFails, NoEpochDelay, Fuzz
<1>7. CASE NextGoal
  <2>1. /\ goal' = get_slot(now) + 1 /\ pc' = "wait" /\ UNCHANGED <<caller, epochs>>
    BY <1>7 DEF NextGoal
  <2>2. goal <= get_slot(now) /\ get_slot(now) \in Nat
    BY <1>7, SlotBounds DEF NextGoal, IInv, TypeOK, SlotInv
  <2>3. goal' \in Nat /\ goal < goal'
    BY <1>1, <2>1, <2>2
  <2> QED
    BY <1>1, <2>1, <2>3 DEF EpochInv
<1>8. CASE WaitForEpoch
  <2>1. caller # "node_watch" /\ pc' = "wait" /\ UNCHANGED <<caller, epochs>>
    BY <1>8 DEF WaitForEpoch, IInv, CallerInv
  <2> QED
    BY <1>1, <2>1 DEF EpochInv
<1>9. CASE EpochDone
  <2> DEFINE epoch == goal \div SlotsPerEpoch
  <2>1. /\ pc = "epoch" /\ pc' = "next" /\ UNCHANGED <<caller, goal>>
        /\ epochs' = IF epoch \in Epochs THEN [epochs EXCEPT ![epoch] = @ + 1] ELSE epochs
    BY <1>9 DEF EpochDone
  <2>2. epoch * SlotsPerEpoch = goal
    <3>1. goal % SlotsPerEpoch = 0
      BY <1>1, <2>1 DEF EpochInv
    <3> QED
      BY <1>1, <3>1
  <2>3. caller = "node_watch"
    BY <2>1 DEF IInv, CallerInv
  <2> HIDE DEF epoch
  <2>4. epoch \in Epochs => epochs[epoch] = 0
    <3>1. epoch \in Epochs => epochs[epoch] \in Nat /\ epochs[epoch] <= 1 /\ epochs[epoch] # 1
      BY <1>1, <2>1, <2>2 DEF EpochInv
    <3> QED
      BY <3>1
  <2>5. \A e \in Epochs : epochs'[e] = IF e = epoch THEN 1 ELSE epochs[e]
    BY <1>1, <2>1, <2>4
  <2> QED
    BY <1>1, <2>1, <2>2, <2>3, <2>5 DEF EpochInv
<1>10. CASE UNCHANGED vars
  BY <1>1, <1>10 DEF vars, EpochInv
<1> QED
  BY <1>3, <1>4, <1>5, <1>6, <1>7, <1>8, <1>9, <1>10 DEF Next

LEMMA InductiveStep == IInv /\ [Next]_vars => IInv'
BY TypeStep, CallerStep, SlotStep, EpochStep DEF IInv

(***************************************************************************)
(* The theorems.                                                           *)
(***************************************************************************)
\* Where the programs are in their loops, how far the clock is ahead of the
\* goal, and which epochs' actions were performed.
THEOREM InductiveInvariant == Spec => []IInv
<1> QED
  BY InitStep, InductiveStep, PTL DEF Spec

\* The variables always have values of their types, and the goal of node-watch
\* is never further ahead than the next slot.
THEOREM TypeCorrect == Spec => []TypeOK
<1>1. IInv => TypeOK
  BY DEF IInv
<1> QED
  BY <1>1, InductiveInvariant, PTL

\* The actions of an epoch are performed at most once, however late the process
\* wakes, after those of its first slot, and wait_for_slot had returned in that slot
\* or as long after it as its last sleep was late.
THEOREM EpochsOnce == Spec => []OncePerEpoch
<1>1. IInv => OncePerEpoch
  BY DEF IInv, SlotInv, EpochInv, OncePerEpoch
<1> QED
  BY <1>1, InductiveInvariant, PTL

\* wait_for_slot returns in the slot it was called for, or as long after it as the
\* last of its sleeps was late, however many there are and however late those before
\* it, unless that slot was over when it was called.
THEOREM ReturnsInItsSlot == Spec => StartsInItsSlot
<1> DEFINE Returns ==
      pc = "wait" /\ pc' # "wait" =>
        /\ get_slot(now) >= goal
        /\ get_slot(wake) < goal => InSlot(now, goal)
<1>1. IInv /\ [Next]_vars => [Returns]_vars
  <2> SUFFICES ASSUME IInv, Next, pc = "wait", pc' # "wait"
               PROVE  /\ get_slot(now) >= goal
                      /\ get_slot(wake) < goal => InSlot(now, goal)
    OBVIOUS
  <2>1. get_slot(now) >= goal
    BY DEF Next, OnceAction, OnceDone, NextGoal, Sleep, Woken, SlotAction,
           SlotDone, EpochAction, EpochDone, PrometheusUnpackFails, WaitForEpoch,
           NoEpochDelay, Fuzz
  <2> QED
    BY <2>1, WokenInSlot
<1> QED
  BY <1>1, InductiveInvariant, PTL DEF Spec, StartsInItsSlot

\* No slot is watched twice, however late the process wakes, and at most one is left
\* out when a late wake-up and the actions after it took less than a slot together.
THEOREM GoalsGoUp == Spec => GoalsAdvance
<1> DEFINE Advances ==
      ChoosesGoal =>
        /\ goal' > goal
        /\ goal # 0 /\ now - wake + late < SecondsPerSlot => goal' <= goal + 2
<1>1. IInv /\ [Next]_vars => [Advances]_vars
  <2> SUFFICES ASSUME IInv, Next, ChoosesGoal
               PROVE  /\ goal' > goal
                      /\ goal # 0 /\ now - wake + late < SecondsPerSlot => goal' <= goal + 2
    OBVIOUS
  <2>1. pc = "next" /\ goal' = get_slot(now) + 1
    BY DEF ChoosesGoal, Next, OnceAction, OnceDone, NextGoal, Sleep, Woken, SlotAction,
           SlotDone, EpochAction, EpochDone, PrometheusUnpackFails, WaitForEpoch,
           NoEpochDelay, Fuzz
  <2>2. /\ now \in Nat /\ wake \in Nat /\ wake <= now /\ goal \in Nat
        /\ late \in Nat /\ get_slot(now) \in Nat
    BY SlotBounds DEF IInv, TypeOK
  <2>3. goal <= get_slot(now) /\ (goal # 0 => InSlot(wake, goal))
    BY <2>1 DEF IInv, SlotInv
  <2>4. ASSUME goal # 0, now - wake + late < SecondsPerSlot
        PROVE  get_slot(now) <= goal + 1
    <3>1. now + late < wake + SecondsPerSlot
      BY <2>2, <2>4
    <3> QED
      BY <2>2, <2>3, <2>4, <3>1, NextSlotSoon
  <2> QED
    BY <2>1, <2>2, <2>3, <2>4
<1> QED
  BY <1>1, InductiveInvariant, PTL DEF Spec, GoalsAdvance
=============================================================================
