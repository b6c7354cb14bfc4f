---------------------------- MODULE TestnetMonitor ----------------------------
(***************************************************************************)
(* TestnetMonitor of testnet_monitor.py and the two programs that use it.  *)
(* node-watch loops: wait for the next slot, perform the actions of the    *)
(* slot one after the other, and those of the epoch at its first slot. The *)
(* tx-spammer waits for an epoch and then runs the fuzzer, once or forever.*)
(*                                                                         *)
(* One process and the clock. Time is in whole seconds since genesis, as   *)
(* int(time.time()) has it; it passes while the process sleeps and while   *)
(* an action waits for answers, by an amount nobody controls: time.sleep   *)
(* says how long it sleeps at least, and a busy or paused host makes it    *)
(* any longer.                                                             *)
(***************************************************************************)
EXTENDS Naturals

CONSTANTS
  SecondsPerSlot, SlotsPerEpoch,
  OnceActions, SlotActions, EpochActions,  \* how many there are of each
  PrometheusMayFail,  \* is there a prometheus action, and can it be answered badly?
  MaxSleep,      \* the longest sleep of wait_for_slot, 60 in the code
  MaxLate,       \* bound: seconds a sleep may wake late
  MaxDuration,   \* bound: seconds one action may take
  MaxDelay,      \* bound: --epoch-delay of the tx-spammer
  MaxTime        \* bound: the experiment ends

ASSUME ClockAssumption ==
  /\ SecondsPerSlot \in Nat \ {0} /\ SlotsPerEpoch \in Nat \ {0}
  /\ MaxSleep \in Nat \ {0}
  /\ OnceActions \in Nat /\ SlotActions \in Nat /\ EpochActions \in Nat
  /\ PrometheusMayFail \in BOOLEAN
  /\ MaxLate \in Nat /\ MaxDuration \in Nat /\ MaxDelay \in Nat /\ MaxTime \in Nat

VARIABLES
  caller,  \* the program: node-watch, or tx-spammer and how it fuzzes
  now,     \* seconds since genesis_time
  pc,      \* where run() is
  k,       \* actions of the current list performed so far
  goal,    \* goal_slot
  wake,    \* history: when wait_for_slot returned last, or the start
  late,    \* history: how late the last sleep of wait_for_slot(goal) woke
  epochs   \* history: how often the actions of each epoch were performed

vars == <<caller, now, pc, k, goal, wake, late, epochs>>

get_slot(t) == t \div SecondsPerSlot
Epochs == 0 .. get_slot(MaxTime) \div SlotsPerEpoch
Running == now < MaxTime

\* Both join at any time after genesis.
Init ==
  /\ caller \in {"node_watch", "spam_once", "spam_forever"}
  /\ now \in 0 .. SecondsPerSlot * SlotsPerEpoch
  /\ pc = IF caller = "node_watch" THEN "once" ELSE "delay"
  /\ k = 0 /\ goal = 0 /\ wake = now /\ late = 0
  /\ epochs = [e \in Epochs |-> 0]

\* Mutation: the loop over a list runs once too often.
PerformOneTooMany(n) ==
  /\ k <= n
  /\ k' = k + 1
  /\ \E d \in 0 .. MaxDuration : now' = now + d

\* perform_action of one more action of a list of n.
Perform(n) ==
  /\ k < n
  /\ k' = k + 1
  /\ \E d \in 0 .. MaxDuration : now' = now + d

OnceAction ==
  /\ pc = "once" /\ Running
  /\ Perform(OnceActions)
  /\ UNCHANGED <<caller, pc, goal, wake, late, epochs>>

\* Without an action that repeats the monitor returns.
OnceDone ==
  /\ pc = "once" /\ k = OnceActions
  /\ pc' = IF SlotActions = 0 /\ EpochActions = 0 THEN "returned" ELSE "next"
  /\ k' = 0
  /\ UNCHANGED <<caller, now, goal, wake, late, epochs>>

\* Mutation: it waits for the slot it is in.
NextGoalNow ==
  /\ pc = "next" /\ Running
  /\ goal' = get_slot(now)
  /\ pc' = "wait" /\ late' = 0
  /\ UNCHANGED <<caller, now, k, wake, epochs>>

\* Mutation: the goals are counted and not taken from the clock.
NextGoalCounted ==
  /\ pc = "next" /\ Running
  /\ goal' = IF goal = 0 THEN get_slot(now) + 1 ELSE goal + 1
  /\ pc' = "wait" /\ late' = 0
  /\ UNCHANGED <<caller, now, k, wake, epochs>>

NextGoal ==
  /\ pc = "next" /\ Running
  /\ goal' = get_slot(now) + 1
  /\ pc' = "wait" /\ late' = 0
  /\ UNCHANGED <<caller, now, k, wake, epochs>>

\* t_delta in wait_for_slot: whole slots, from wherever in the slot it is now.
Delta == (goal - get_slot(now)) * SecondsPerSlot
Shorter(a, b) == IF a < b THEN a ELSE b

\* time.sleep wakes no earlier than asked, and as late as it happens to.
SleepFor(n) == \E l \in 0 .. MaxLate : now' = now + n + l /\ late' = l

Sleep ==
  /\ pc = "wait" /\ get_slot(now) < goal
  /\ SleepFor(Shorter(Delta, MaxSleep))
  /\ UNCHANGED <<caller, pc, k, goal, wake, epochs>>

Woken ==
  /\ pc = "wait" /\ get_slot(now) >= goal
  /\ pc' = IF caller = "node_watch" THEN "slot" ELSE "fuzz"
  /\ wake' = now
  /\ UNCHANGED <<caller, now, k, goal, late, epochs>>

SlotAction ==
  /\ pc = "slot"
  /\ Perform(SlotActions)
  /\ UNCHANGED <<caller, pc, goal, wake, late, epochs>>

\* Mutation: the epoch is taken from the clock after the slot's actions.
SlotDoneByTheClock ==
  /\ pc = "slot" /\ k = SlotActions
  /\ pc' = IF get_slot(now) % SlotsPerEpoch = 0 THEN "epoch" ELSE "next"
  /\ k' = 0
  /\ UNCHANGED <<caller, now, goal, wake, late, epochs>>

SlotDone ==
  /\ pc = "slot" /\ k = SlotActions
  /\ pc' = IF goal % SlotsPerEpoch = 0 THEN "epoch" ELSE "next"
  /\ k' = 0
  /\ UNCHANGED <<caller, now, goal, wake, late, epochs>>

EpochAction ==
  /\ pc = "epoch"
  /\ Perform(EpochActions)
  /\ UNCHANGED <<caller, pc, goal, wake, late, epochs>>

EpochDone ==
  /\ pc = "epoch" /\ k = EpochActions
  /\ pc' = "next" /\ k' = 0
  /\ epochs' = IF goal \div SlotsPerEpoch \in Epochs
                 THEN [epochs EXCEPT ![goal \div SlotsPerEpoch] = @ + 1]
                 ELSE epochs
  /\ UNCHANGED <<caller, now, goal, wake, late>>

\* PrometheusAction: for an answer that is not a 200, or not a success, one of
\* the requests returns a bare dictionary that the loop over the results can
\* not unpack. Nothing catches it: node-watch ends.
PrometheusUnpackFails ==
  /\ PrometheusMayFail
  /\ \/ pc = "slot" /\ k < SlotActions
     \/ pc = "epoch" /\ k < EpochActions
  /\ pc' = "dead"
  /\ UNCHANGED <<caller, now, k, goal, wake, late, epochs>>

\* wait_for_epoch(--epoch-delay)
WaitForEpoch ==
  /\ pc = "delay"
  /\ \E epoch \in 0 .. MaxDelay : goal' = epoch * SlotsPerEpoch
  /\ pc' = "wait" /\ late' = 0
  /\ UNCHANGED <<caller, now, k, wake, epochs>>

\* --epoch-delay was not given: epoch_to_slot multiplies None.
NoEpochDelay ==
  /\ pc = "delay"
  /\ pc' = "dead"
  /\ UNCHANGED <<caller, now, k, goal, wake, late, epochs>>

\* One run of tx-fuzz. run_indefinitely starts the next one at once, whether
\* it failed or not; a single run that fails raises.
Fuzz ==
  /\ pc = "fuzz" /\ Running
  /\ \E d \in 0 .. MaxDuration : now' = now + d
  /\ \/ caller = "spam_forever" /\ UNCHANGED pc
     \/ caller = "spam_once" /\ pc' \in {"returned", "dead"}
  /\ UNCHANGED <<caller, k, goal, wake, late, epochs>>

Next ==
  \/ OnceAction \/ OnceDone \/ NextGoal \/ Sleep \/ Woken
  \/ SlotAction \/ SlotDone \/ EpochAction \/ EpochDone
  \/ PrometheusUnpackFails
  \/ WaitForEpoch \/ NoEpochDelay \/ Fuzz

Spec == Init /\ [][Next]_vars /\ WF_vars(Next)
-----------------------------------------------------------------------------
ActionsAt ==
  [at \in {"once", "next", "wait", "slot", "epoch", "delay", "fuzz",
           "returned", "dead"} |->
     CASE at = "once" -> OnceActions
       [] at = "slot" -> SlotActions
       [] at = "epoch" -> EpochActions
       [] at = "dead" -> SlotActions + EpochActions
       [] OTHER -> 0]

\* The values the variables take; k counts within the list at hand, and the
\* goal of node-watch is never further ahead than the next slot.
TypeOK ==
  /\ caller \in {"node_watch", "spam_once", "spam_forever"}
  /\ now \in Nat /\ goal \in Nat
  /\ caller = "node_watch" => goal <= get_slot(now) + 1
  /\ wake \in 0 .. now /\ late \in Nat
  /\ pc \in DOMAIN ActionsAt
  /\ k \in 0 .. ActionsAt[pc]
  /\ epochs \in [Epochs -> Nat]

\* What wait_for_slot(n) promises its caller when it returns at t: slot n has
\* begun, and would not be over had the last sleep woken on time. Nothing looks at
\* the slot again after it, so this much later, and no more, the return may be.
InSlot(t, n) == get_slot(t) >= n /\ t < (n + 1) * SecondsPerSlot + late

\* However long the actions before took, in whatever part of a slot they ended,
\* and however many sleeps it takes and however late these wake, wait_for_slot
\* returns in the slot it was called for, or as long after it as the last of the
\* sleeps was late: a late one before is made up for. So with a last sleep that
\* wakes on time what is logged under "Expected slot" was observed then, and the
\* spamming starts in the first slot of the epoch it was told, unless that was
\* over when it was called.
StartsInItsSlot ==
  [][pc = "wait" /\ pc' # "wait" =>
       /\ get_slot(now) >= goal
       /\ get_slot(wake) < goal => InSlot(now, goal)]_vars

\* The actions of an epoch are performed at most once, however late the process
\* wakes; and only after those of its first slot, however long these took, and
\* with wait_for_slot back from the wait for that slot as above.
OncePerEpoch ==
  /\ \A e \in Epochs : epochs[e] <= 1
  /\ pc = "epoch" =>
       goal % SlotsPerEpoch = 0 /\ InSlot(wake, goal)

ChoosesGoal == pc = "next" /\ pc' = "wait"

\* No slot is watched twice, however late the process wakes; and when the late
\* wake-up and the actions after it took less than a slot, all together, at most
\* one slot is left out.
GoalsAdvance ==
  [][ChoosesGoal =>
       /\ goal' > goal
       /\ goal # 0 /\ now - wake + late < SecondsPerSlot => goal' <= goal + 2]_vars

\* The loop waits between two slots and never spins, and it never hangs in an
\* action: the experiment goes on to its end, and the spamming begins.
KeepsTime == <>(~Running \/ pc \in {"fuzz", "returned", "dead"})

\* node_watch.py: "Run the node watch printing out the results every slot".
\* When the late wake-up and the actions after it took less than a slot, all
\* together, none is left out.
EverySlot ==
  [][ChoosesGoal /\ goal # 0 /\ now - wake + late < SecondsPerSlot
       => goal' = goal + 1]_vars
-----------------------------------------------------------------------------
(***************************************************************************)
(* Why the safety properties hold: the inductive invariant.                *)
(***************************************************************************)
\* The part of the loop each program is in.
CallerInv ==
  IF caller = "node_watch"
    THEN pc \in {"once", "next", "wait", "slot", "epoch", "returned", "dead"}
    ELSE pc \in {"delay", "wait", "fuzz", "returned", "dead"}

\* A goal that was ahead when wait_for_slot was called is overslept by no more
\* than the last sleep was late, and after its slot's actions it is behind the clock.
SlotInv ==
  /\ pc = "delay" => wake = now
  /\ pc = "once" => goal = 0
  /\ pc = "wait" =>
       /\ caller = "node_watch" => get_slot(wake) < goal
       /\ get_slot(wake) < goal => now < (goal + 1) * SecondsPerSlot + late
  /\ pc \in {"next", "slot", "epoch"} => goal <= get_slot(now)
  /\ pc \in {"slot", "epoch"} \/ (pc = "next" /\ goal # 0) => InSlot(wake, goal)

\* Epochs whose actions were performed begin before the goal, or with it when
\* the next goal is still to be chosen.
EpochInv ==
  /\ pc = "epoch" => goal % SlotsPerEpoch = 0
  /\ \A e \in Epochs :
       /\ epochs[e] <= 1
       /\ epochs[e] = 1 =>
            /\ caller = "node_watch"
            /\ \/ e * SlotsPerEpoch < goal
               \/ e * SlotsPerEpoch = goal /\ pc = "next"

\* What every state of both programs satisfies: they are where their loop puts them,
\* no goal is overslept further than one sleep was late, and no epoch had its actions
\* performed twice.
IInv == TypeOK /\ CallerInv /\ SlotInv /\ EpochInv
=============================================================================
