------------------------- MODULE MetricMonitor_proofs -------------------------
(***************************************************************************)
(* TLAPS proofs about MetricMonitor, for any clients, any values of a      *)
(* metric, any numbers of retries and of rounds, and a monitor that is run *)
(* any number of times.                                                    *)
(***************************************************************************)
EXTENDS MetricMonitor, FiniteSetTheorems, TLAPS

USE MonitorAssumption

\* What came back for a client decides its place.
Place(a) == IF a = Slow THEN "timeout"
            ELSE IF a = Refused THEN "unreachable"
            ELSE IF a = Erroneous THEN "unknown"
            ELSE IF a = Garbled THEN "invalid" ELSE "result"

LEMMA InitInvariant == Init => IInv
  BY DEF Init, IInv, TypeOK, RoundInv, SortedInv, NoResults, NoLists, Outcomes,
         Answers

\* A client that changes its behaviour adds to what it was in this round.
LEMMA ChangeKeepsIInv ==
  ASSUME IInv, NEW c \in Clients, Change(c)
  PROVE  IInv'
<1> USE DEF IInv
<1>1. PICK a \in Answers : /\ world' = [world EXCEPT ![c] = a]
                           /\ seen' = [seen EXCEPT ![c] = @ \cup {a}]
  BY DEF Change
<1>2. TypeOK'
  BY <1>1 DEF Change, TypeOK, monitorVars
<1>3. \A d \in Clients : seen[d] \subseteq seen'[d]
  BY <1>1 DEF TypeOK
<1>4. \A d \in Clients : world[d] \in seen[d] => world'[d] \in seen'[d]
  BY <1>1 DEF TypeOK
<1>5. RoundInv'
  BY <1>3, <1>4 DEF Change, RoundInv, monitorVars
<1>6. SortedInv'
  BY DEF Change, SortedInv, monitorVars, ClientsThatGot
<1> QED
  BY <1>2, <1>5, <1>6

\* An attempt brings back what the client is at that moment, or is made again
\* while that is allowed.
LEMMA AttemptKeepsIInv ==
  ASSUME IInv, NEW c \in Clients, Attempt(c)
  PROVE  IInv'
<1>1. at = "query" /\ at' = "query" /\ TypeOK /\ RoundInv
      /\ UNCHANGED <<monitor, round, results, lists, world, seen, calls, changes>>
  BY DEF Attempt, InFlight, IInv
<1>2. \/ got' = [got EXCEPT ![c] = world[c]] /\ tries' = tries
      \/ /\ tries[c] < MaxTries - 1 /\ tries' = [tries EXCEPT ![c] = @ + 1]
         /\ got' = got
  BY DEF Attempt
<1>3. tries' \in [Clients -> 0 .. MaxTries - 1]
  BY <1>1, <1>2 DEF TypeOK
<1>4. got' \in [Clients -> Outcomes]
  BY <1>1, <1>2 DEF TypeOK, Outcomes
<1>5. TypeOK'
  BY <1>1, <1>3, <1>4 DEF TypeOK
<1>6. RoundInv'
  BY <1>1, <1>2 DEF RoundInv, TypeOK
<1> QED
  BY <1>1, <1>5, <1>6 DEF IInv, SortedInv

LEMMA RunKeepsIInv ==
  ASSUME IInv, Run
  PROVE  IInv'
<1>1. TypeOK'
  BY DEF Run, IInv, TypeOK
<1> QED
  BY <1>1 DEF Run, IInv, RoundInv, SortedInv

LEMMA StartRoundKeepsIInv ==
  ASSUME IInv, StartRound
  PROVE  IInv'
<1>1. at = "clear" /\ at' = "query" /\ TypeOK /\ round < MaxRounds
  BY DEF StartRound, Submit, IInv, RoundInv
<1>2. TypeOK'
  BY <1>1 DEF StartRound, Submit, TypeOK, NoResults, NoLists, Outcomes
<1>3. RoundInv'
  BY <1>1 DEF StartRound, Submit, RoundInv, NoResults, NoLists, TypeOK
<1> QED
  BY <1>1, <1>2, <1>3 DEF IInv, SortedInv

\* Sorting the futures puts every client into one place, on top of nothing.
LEMMA FinishRoundKeepsIInv ==
  ASSUME IInv, FinishRound
  PROVE  IInv'
<1>1. /\ at = "query" /\ TypeOK /\ results = NoResults /\ lists = NoLists
      /\ \A c \in Clients : got[c] # Pending /\ got[c] \in seen[c]
      /\ UNCHANGED <<monitor, round, tries, got, world, seen, calls, changes>>
      /\ at' = "report" \/ (at' = "clear" /\ round # MaxRounds)
  BY DEF FinishRound, IInv, RoundInv
<1>2. \A S : ClientsThatGot(S) \subseteq Clients
             /\ ClientsThatGot(S)' = ClientsThatGot(S)
  BY <1>1 DEF ClientsThatGot
<1>3. /\ results' = [c \in Clients |-> IF got[c] \in Values THEN got[c] ELSE Pending]
      /\ lists'["timeout"] = ClientsThatGot({Slow})
      /\ lists'["unreachable"] = ClientsThatGot({Refused})
      /\ lists'["unknown"] = ClientsThatGot({Erroneous})
      /\ lists'["invalid"] = ClientsThatGot({Garbled})
      /\ lists' \in [ListNames -> SUBSET Clients]
  <2>1. results' = [c \in Clients |-> IF got[c] \in Values THEN got[c] ELSE results[c]]
    BY DEF FinishRound
  <2>2. \A c \in Clients : results[c] = Pending
    BY <1>1 DEF NoResults
  <2>3. lists' = [lists EXCEPT
       !["timeout"]     = @ \cup ClientsThatGot({Slow}),
       !["unreachable"] = @ \cup ClientsThatGot({Refused}),
       !["unknown"]     = @ \cup ClientsThatGot({Erroneous}),
       !["invalid"]     = @ \cup ClientsThatGot({Garbled})]
    BY DEF FinishRound
  <2>4. \A l \in ListNames : lists[l] = {}
    BY <1>1 DEF NoLists
  <2>5. DOMAIN lists = ListNames
    BY <1>1 DEF NoLists
  <2> QED
    BY <1>2, <2>1, <2>2, <2>3, <2>4, <2>5 DEF ListNames
<1>4. TypeOK'
  BY <1>1, <1>3 DEF TypeOK
<1>5. RoundInv'
  BY <1>1 DEF RoundInv, TypeOK
<1>6. SortedInv'
  BY <1>1, <1>2, <1>3 DEF SortedInv
<1> QED
  BY <1>4, <1>5, <1>6 DEF IInv

\* The inductive invariant of the monitors: a round starts empty, and what is
\* reported is how the last round sorted the clients.
THEOREM InductiveInvariant == Spec => []IInv
<1>1. ASSUME IInv, [Next]_vars PROVE IInv'
  <2>1. CASE UNCHANGED vars
    BY <1>1, <2>1 DEF vars, IInv, TypeOK, RoundInv, SortedInv, ClientsThatGot
  <2> QED
    BY <1>1, <2>1, RunKeepsIInv, StartRoundKeepsIInv, FinishRoundKeepsIInv,
       AttemptKeepsIInv, ChangeKeepsIInv
    DEF Next, MonitorStep
<1> QED
  BY <1>1, InitInvariant, PTL DEF Spec

\* The types, which bound the retries of a request and the rounds of a run.
THEOREM TypeCorrect == Spec => []TypeOK
<1>1. IInv => TypeOK
  BY DEF IInv
<1> QED
  BY <1>1, InductiveInvariant, PTL

\* In a report a client is in the place of what came back for it, and in no
\* other.
LEMMA OnePlace ==
  ASSUME IInv, at = "report", NEW c \in Clients
  PROVE  Entries(c) = {Place(got[c])} /\ got[c] \in seen[c]
<1>1. /\ got[c] \in Answers /\ got[c] \in seen[c]
      /\ results[c] = IF got[c] \in Values THEN got[c] ELSE Pending
      /\ c \in lists["timeout"] <=> got[c] = Slow
      /\ c \in lists["unreachable"] <=> got[c] = Refused
      /\ c \in lists["unknown"] <=> got[c] = Erroneous
      /\ c \in lists["invalid"] <=> got[c] = Garbled
  BY DEF IInv, TypeOK, RoundInv, SortedInv, ClientsThatGot, Outcomes
<1>2. \/ got[c] \in Values \/ got[c] = Slow \/ got[c] = Refused
      \/ got[c] = Erroneous \/ got[c] = Garbled
  BY <1>1 DEF Answers, Failures
<1> QED
  BY <1>1, <1>2 DEF Entries, Place, ListNames

\* Every run of a monitor ends with each client in exactly one place, and what
\* a report leaves out was slow or failed in the last round.
THEOREM EachReportedOnce == Spec => []ReportedOnce
<1>1. ASSUME IInv, at = "report", NEW c \in Clients
      PROVE  /\ Cardinality(Entries(c)) = 1
             /\ monitor.prints = FullReport => Printed(c) # {}
             /\ monitor.prints = ShortReport =>
                  Printed(c) # {} \/ seen[c] \cap {Slow, Erroneous} # {}
  <2>1. Entries(c) = {Place(got[c])} /\ got[c] \in seen[c]
    BY <1>1, OnePlace
  <2>2. Cardinality(Entries(c)) = 1
    BY <2>1, FS_Singleton
  <2>3. Place(got[c]) \in FullReport
    BY DEF Place, FullReport, ListNames
  <2>4. Place(got[c]) \in ShortReport \/ got[c] \in {Slow, Erroneous}
    BY DEF Place, ShortReport
  <2> QED
    BY <2>1, <2>2, <2>3, <2>4 DEF Printed
<1>2. IInv => ReportedOnce
  BY <1>1 DEF ReportedOnce
<1> QED
  BY <1>2, InductiveInvariant, PTL

\* What a report says of a client was true of it in the last round.
THEOREM ReportsAreFresh == Spec => []ReportIsFresh
<1>1. IInv => ReportIsFresh
  BY DEF IInv, TypeOK, RoundInv, SortedInv, ReportIsFresh, ClientsThatGot,
         Outcomes
<1> QED
  BY <1>1, InductiveInvariant, PTL
=============================================================================
