--------------------------- MODULE ElPairing_proofs ---------------------------
(***************************************************************************)
(* What a successful pairing means, for any number of execution clients,   *)
(* attempts, tries, restarts and losses.                                   *)
(*                                                                         *)
(* KnowsAll is not inductive: it says nothing of an attempt under way. The *)
(* invariant adds what the attempt has achieved so far, and that an        *)
(* attempt that has not begun to tell has all requests before it.          *)
(***************************************************************************)
EXTENDS ElPairing, TLAPS

\* What each client knows are other clients.
KnowsOthers ==
  /\ knows \in [Els -> SUBSET Els]
  /\ \A c \in Els : c \notin knows[c]
  /\ left \subseteq Pairs

\* Whoever stayed up since the attempt began knows the peers it was told of.
ToldKnow ==
  \A c \in Els \ restarted : \A p \in Els \ {c} :
    <<p, c>> \notin left => p \in knows[c]

\* An attempt starts with all requests and succeeds with none.
Progress ==
  /\ pc \in {"info", "sleep", "terminated"} => left = Pairs
  /\ pc = "paired" => left = {}

PairingInv == KnowsOthers /\ ToldKnow /\ Progress

\* It holds when the execution checkpoint was just written.
THEOREM InvInit == Init => PairingInv
BY DEF Init, PairingInv, KnowsOthers, ToldKnow, Progress, Pairs

\* A failed attempt leaves all requests for the next one.
LEMMA FailAttemptRestoresAll == FailAttempt => left' = Pairs /\ pc' \in {"sleep", "terminated"}
BY DEF FailAttempt

\* Every step of the pairing and of the clients keeps it: a client that restarts
\* in an attempt is in restarted until the next one, which begins with all
\* requests to make.
THEOREM InvStep == PairingInv /\ [Next]_vars => PairingInv'
<1> SUFFICES ASSUME PairingInv, [Next]_vars PROVE PairingInv'
  OBVIOUS
<1> USE DEF PairingInv
<1>1. ASSUME NEW c \in Els, Launch(c) PROVE PairingInv'
  BY <1>1 DEF Launch, KnowsOthers, ToldKnow, Progress, Pairs
<1>2. ASSUME NEW c \in Els, Stop(c) PROVE PairingInv'
  <2>1. \A d \in Els \ {c} : knows'[d] = knows[d]
    BY <1>2 DEF Stop, KnowsOthers
  <2>2. KnowsOthers'
    BY <1>2 DEF Stop, KnowsOthers, Pairs
  <2>3. ToldKnow'
    BY <1>2, <2>1 DEF Stop, ToldKnow, Pairs
  <2>4. Progress'
    BY <1>2 DEF Stop, Progress, Pairs
  <2> QED BY <2>2, <2>3, <2>4
<1>3. ASSUME NEW c \in Els, InfoTry(c) PROVE PairingInv'
  BY <1>3 DEF InfoTry, KnowsOthers, ToldKnow, Progress, Pairs
<1>4. CASE InfoDone
  <2>1. CASE FailAttempt
    BY <1>4, <2>1, FailAttemptRestoresAll
      DEF InfoDone, KnowsOthers, ToldKnow, Progress, Pairs
  <2>2. CASE pc' = "peer" /\ UNCHANGED left
    BY <1>4, <2>2 DEF InfoDone, KnowsOthers, ToldKnow, Progress, Pairs
  <2> QED BY <1>4, <2>1, <2>2 DEF InfoDone
<1>5. ASSUME NEW p \in Els, NEW c \in Els, PeerTry(p, c) PROVE PairingInv'
  <2>1. <<p, c>> \in left /\ p # c /\ pc = "peer"
    BY <1>5 DEF PeerTry, IsNext, KnowsOthers, Pairs
  <2>2. \/ knows' = Told(p, c) /\ left' = left \ {<<p, c>>} /\ UNCHANGED pc
        \/ knows' \in {knows, Told(p, c)} /\ UNCHANGED <<left, pc>>
        \/ knows' \in {knows, Told(p, c)} /\ FailAttempt
    BY <1>5 DEF PeerTry
  <2>3. restarted' = restarted
    BY <1>5 DEF PeerTry
  <2>4. /\ knows' \in [Els -> SUBSET Els]
        /\ \A d \in Els : knows[d] \subseteq knows'[d]
        /\ \A d \in Els : knows'[d] \subseteq IF d = c THEN knows[d] \cup {p} ELSE knows[d]
    <3>1. CASE knows' = knows
      BY <3>1 DEF KnowsOthers
    <3>2. CASE knows' = Told(p, c)
      BY <2>1, <3>2 DEF KnowsOthers, Told
    <3> QED BY <2>2, <3>1, <3>2
  <2>5. left' \subseteq Pairs
    BY <2>2, FailAttemptRestoresAll DEF KnowsOthers
  <2>6. KnowsOthers'
    BY <2>1, <2>4, <2>5 DEF KnowsOthers
  <2>7. ToldKnow'
    <3> SUFFICES ASSUME NEW d \in Els \ restarted, NEW q \in Els \ {d}, <<q, d>> \notin left'
                 PROVE  q \in knows'[d]
      BY <2>3 DEF ToldKnow
    <3>1. CASE <<q, d>> \notin left
      BY <2>4, <3>1 DEF ToldKnow
    <3>2. CASE <<q, d>> \in left
      <4>1. <<q, d>> \in Pairs
        BY DEF Pairs
      <4>2. knows' = Told(p, c) /\ <<q, d>> = <<p, c>>
        BY <2>2, <3>2, <4>1, FailAttemptRestoresAll
      <4> QED BY <4>2 DEF KnowsOthers, Told
    <3> QED BY <3>1, <3>2
  <2>8. Progress'
    BY <2>1, <2>2, FailAttemptRestoresAll DEF Progress
  <2> QED BY <2>6, <2>7, <2>8
<1>6. CASE Paired
  BY <1>6 DEF Paired, KnowsOthers, ToldKnow, Progress, Pairs
<1>7. CASE Retry
  BY <1>7 DEF Retry, KnowsOthers, ToldKnow, Progress, Pairs
<1>8. CASE UNCHANGED vars
  BY <1>8 DEF vars, KnowsOthers, ToldKnow, Progress, Pairs
<1> QED
  BY <1>1, <1>2, <1>3, <1>4, <1>5, <1>6, <1>7, <1>8 DEF Next, BootstrapperStep

\* The invariant holds in every state a pairing can reach.
THEOREM PairingInvariant == Spec => []PairingInv
BY InvInit, InvStep, PTL DEF Spec

\* When bootstrap_testnet goes on, every client that stayed up through the
\* last attempt was told of every other one.
THEOREM PairedKnowAll == Spec => []KnowsAll
<1>1. PairingInv => KnowsAll
  <2> SUFFICES ASSUME PairingInv, pc = "paired", NEW c \in Els \ restarted
               PROVE  knows[c] = Els \ {c}
    BY DEF KnowsAll
  <2>1. left = {}
    BY DEF PairingInv, Progress
  <2>2. \A p \in Els \ {c} : p \in knows[c]
    BY <2>1 DEF PairingInv, ToldKnow
  <2>3. knows[c] \subseteq Els \ {c}
    BY DEF PairingInv, KnowsOthers
  <2> QED BY <2>2, <2>3
<1> QED BY <1>1, PairingInvariant, PTL
(***************************************************************************)
(* Types. The attempts that failed are counted up to the last one, after   *)
(* which nothing is asked any more, and every attempt starts from nothing. *)
(***************************************************************************)
AttemptInv ==
  /\ pc \in {"info", "peer", "sleep"} => attempt < Attempts
  /\ pc = "sleep" => info = Pending /\ tries = Clean
  /\ pc \in {"peer", "paired"} => \A c \in Els : info[c] = "enode"
  /\ pc = "terminated" => info = Pending

TypeInv == TypeOK /\ AttemptInv

LEMMA FailAttemptTypes ==
  ASSUME TypeInv, FailAttempt, pc \in {"info", "peer"}
  PROVE  /\ pc' \in {"sleep", "terminated"} /\ attempt' = attempt + 1
         /\ attempt' \in 0 .. Attempts /\ (pc' = "sleep" => attempt' < Attempts)
         /\ info' = Pending /\ tries' = Clean /\ left' = Pairs
         /\ info' \in [Els -> {"pending", "enode", "failed"}]
         /\ tries' \in [Els -> Nat]
<1>1. attempt \in 0 .. Attempts /\ attempt < Attempts
  BY DEF TypeInv, TypeOK, AttemptInv
<1> QED
  BY <1>1, PairingAssumption DEF FailAttempt, Pending, Clean

LEMMA NoAnswerTypes ==
  ASSUME TypeInv, NEW c \in Els, NoAnswer(c)
  PROVE  lost' \in 0 .. MaxLost
BY PairingAssumption DEF TypeInv, TypeOK, NoAnswer

LEMMA TypeInit == Init => TypeInv
BY PairingAssumption DEF Init, TypeInv, TypeOK, AttemptInv, Pending, Clean, Pairs

LEMMA TypeStep == TypeInv /\ [Next]_vars => TypeInv'
<1> SUFFICES ASSUME TypeInv, [Next]_vars PROVE TypeInv'
  OBVIOUS
<1> USE PairingAssumption DEF TypeInv, TypeOK, AttemptInv
<1>1. ASSUME NEW c \in Els, Launch(c) PROVE TypeInv'
  BY <1>1 DEF Launch
<1>2. ASSUME NEW c \in Els, Stop(c) PROVE TypeInv'
  BY <1>2 DEF Stop
<1>3. ASSUME NEW c \in Els, InfoTry(c) PROVE TypeInv'
  <2>1. /\ pc = "info" /\ info[c] = "pending"
        /\ UNCHANGED <<pc, attempt, left, up, knows, restarted, stops>>
    BY <1>3 DEF InfoTry
  <2>2. CASE info' = [info EXCEPT ![c] = "enode"] /\ UNCHANGED <<tries, lost>>
    BY <2>1, <2>2
  <2>3. CASE /\ NoAnswer(c)
             /\ tries' = [tries EXCEPT ![c] = @ + 1]
             /\ info' = IF tries'[c] = InfoTries
                          THEN [info EXCEPT ![c] = "failed"] ELSE info
    <3>1. lost' \in 0 .. MaxLost
      BY <2>3, NoAnswerTypes
    <3>2. \A d \in Els : tries'[d] = IF d = c THEN tries[c] + 1 ELSE tries[d]
      BY <2>3
    <3>3. tries[c] \in Nat /\ tries[c] < InfoTries /\ tries' \in [Els -> Nat]
      BY <2>1, <2>3
    <3>4. CASE tries[c] + 1 = InfoTries
      <4>1. info' = [info EXCEPT ![c] = "failed"]
        BY <2>3, <3>2, <3>4
      <4>2. \A d \in Els : info'[d] = "pending" => d # c /\ info[d] = "pending"
        BY <4>1
      <4> QED
        BY <2>1, <3>1, <3>2, <3>3, <4>1, <4>2
    <3>5. CASE tries[c] + 1 # InfoTries
      <4>1. info' = info /\ tries[c] + 1 < InfoTries
        BY <2>3, <3>2, <3>3, <3>5
      <4> QED
        BY <2>1, <3>1, <3>2, <3>3, <4>1
    <3> QED
      BY <3>4, <3>5
  <2> QED
    BY <1>3, <2>2, <2>3 DEF InfoTry
<1>4. CASE InfoDone
  <2>1. /\ pc = "info" /\ \A c \in Els : info[c] # "pending"
        /\ UNCHANGED <<up, knows, restarted, stops, lost>>
    BY <1>4 DEF InfoDone
  <2>2. CASE FailAttempt
    BY <2>1, <2>2, FailAttemptTypes
  <2>3. CASE /\ pc' = "peer" /\ tries' = Clean /\ UNCHANGED <<attempt, info, left>>
             /\ \A c \in Els : info[c] # "failed"
    BY <2>1, <2>3 DEF Clean
  <2> QED
    BY <1>4, <2>2, <2>3 DEF InfoDone
<1>5. ASSUME NEW p \in Els, NEW c \in Els, PeerTry(p, c) PROVE TypeInv'
  <2>1. pc = "peer" /\ UNCHANGED <<up, restarted, stops>>
    BY <1>5 DEF PeerTry
  <2>2. knows' \in [Els -> SUBSET Els]
    BY <1>5 DEF PeerTry, Told
  <2>3. CASE /\ left' = left \ {<<p, c>>} /\ tries' = [tries EXCEPT ![c] = 0]
             /\ UNCHANGED <<pc, attempt, info, lost>>
    BY <2>1, <2>2, <2>3
  <2>4. CASE NoAnswer(c) /\ FailAttempt
    BY <2>1, <2>2, <2>4, FailAttemptTypes, NoAnswerTypes
  <2>5. CASE /\ NoAnswer(c) /\ tries[c] + 1 # PeerTries
             /\ tries' = [tries EXCEPT ![c] = @ + 1]
             /\ UNCHANGED <<pc, attempt, info, left>>
    <3>1. lost' \in 0 .. MaxLost
      BY <2>5, NoAnswerTypes
    <3>2. tries' \in [Els -> Nat] /\ \A d \in Els : tries'[d] < PeerTries
      BY <2>1, <2>5
    <3> QED
      BY <2>1, <2>2, <2>5, <3>1, <3>2
  <2> QED
    BY <1>5, <2>3, <2>4, <2>5 DEF PeerTry
<1>6. CASE Paired
  BY <1>6 DEF Paired
<1>7. CASE Retry
  BY <1>7 DEF Retry, Clean, Pending
<1>8. CASE UNCHANGED vars
  BY <1>8 DEF vars
<1> QED
  BY <1>1, <1>2, <1>3, <1>4, <1>5, <1>6, <1>7, <1>8 DEF Next, BootstrapperStep

\* The variables always have values of their types, and a request that is out
\* has tries left.
THEOREM TypeCorrect == Spec => []TypeOK
<1>1. TypeInv => TypeOK
  BY DEF TypeInv
<1>2. Spec => []TypeInv
  BY TypeInit, TypeStep, PTL DEF Spec
<1> QED
  BY <1>1, <1>2, PTL
(***************************************************************************)
(* The refinement: what TestnetBootstrap sees of the pairing, and which of *)
(* its steps each step is.                                                 *)
(***************************************************************************)
At == IF Trying THEN "pair" ELSE IF pc = "paired" THEN "deposit_rpc" ELSE "down"
Sub == IF Trying THEN attempt ELSE 0
Answered == {c \in Els : info[c] = "enode" /\ \A p \in Els : <<p, c>> \notin left}
El == [c \in Els |-> IF up[c] THEN 1 ELSE Absent]

LEMMA StutterMaps ==
  ASSUME At' = At, Sub' = Sub, Answered' = Answered, El' = El,
         UNCHANGED <<attempt, stops>>
  PROVE  UNCHANGED TB!vars
BY DEF TB!vars, At, Sub, Answered, El

LEMMA ElAnswersMaps ==
  ASSUME NEW c \in Els, At = "pair", At' = "pair", Sub' = Sub, El' = El, up[c],
         c \notin Answered, Answered' = Answered \cup {c},
         UNCHANGED <<attempt, stops>>
  PROVE  TB!ElAnswers(c)
BY PairingAssumption DEF TB!ElAnswers, TB!nodeVars, At, Sub, Answered, El

LEMMA PairSucceedsMaps ==
  ASSUME At = "pair", At' = "deposit_rpc", Sub' = 0, El' = El,
         Answered = Els, Answered' = Els, UNCHANGED <<attempt, stops>>
  PROVE  TB!PairSucceeds
BY DEF TB!PairSucceeds, TB!Goto, TB!nodeVars, At, Sub, Answered, El

LEMMA PairFailsMaps ==
  ASSUME TypeInv, FailAttempt, pc \in {"info", "peer"}, El' = El,
         Answered' = {}, UNCHANGED stops
  PROVE  TB!PairFails
<1>1. attempt \in Nat /\ attempt < Attempts /\ stops \in Nat /\ stops <= MaxStops
      /\ attempt' = attempt + 1
  BY PairingAssumption DEF TypeInv, TypeOK, AttemptInv, FailAttempt
<1>2. At = "pair" /\ Sub = attempt
  BY DEF At, Sub, Trying
<1>3. CASE attempt = Attempts - 1
  <2>1. At' = "down" /\ Sub' = 0
    BY <1>1, <1>3, PairingAssumption DEF FailAttempt, At, Sub, Trying
  <2> QED
    BY <1>1, <1>2, <1>3, <2>1, PairingAssumption
    DEF TB!PairFails, TB!Fault, TB!Goto, TB!nodeVars, At, Sub, Answered, El
<1>4. CASE attempt # Attempts - 1
  <2>1. At' = "pair" /\ Sub' = attempt + 1
    BY <1>1, <1>4, PairingAssumption DEF FailAttempt, At, Sub, Trying
  <2> QED
    BY <1>1, <1>2, <1>4, <2>1, PairingAssumption
    DEF TB!PairFails, TB!Fault, TB!Goto, TB!nodeVars, At, Sub, Answered, El
<1> QED
  BY <1>3, <1>4

LEMMA LaunchMaps ==
  ASSUME TypeInv, NEW c \in Els, Launch(c)
  PROVE  TB!LaunchEl(c)
<1>1. ~up[c] /\ up' = [up EXCEPT ![c] = TRUE]
      /\ UNCHANGED <<pc, attempt, info, left, stops>>
  BY DEF Launch
<1>2. El[c] = Absent /\ El' = [El EXCEPT ![c] = 1]
  BY <1>1 DEF El, TypeInv, TypeOK
<1>3. TrialFiles["execution_checkpoint"] = Empty /\ TrialFiles["geth_genesis"] = 1
  BY DEF TrialFiles
<1> QED
  BY <1>1, <1>2, <1>3, PairingAssumption
  DEF TB!LaunchEl, TB!Exists, TB!bootVars, El, Trying

LEMMA StopMaps ==
  ASSUME TypeInv, NEW c \in Els, Stop(c)
  PROVE  TB!RestartClient(c)
<1>1. up[c] /\ stops < MaxStops /\ up' = [up EXCEPT ![c] = FALSE] /\ stops' = stops + 1
      /\ UNCHANGED <<pc, attempt, info, left>>
  BY DEF Stop
<1>2. El[c] # Absent
  BY <1>1, PairingAssumption DEF El
<1>4. El' = [El EXCEPT ![c] = Absent]
  <2>1. \A d \in Els : up'[d] = IF d = c THEN FALSE ELSE up[d]
    BY <1>1 DEF TypeInv, TypeOK
  <2> QED
    BY <2>1 DEF El
<1>3. attempt + stops < Attempts + MaxStops /\ attempt' + stops' = (attempt + stops) + 1
  BY <1>1, PairingAssumption DEF TypeInv, TypeOK
<1> QED
  BY <1>1, <1>2, <1>3, <1>4
  DEF TB!RestartClient, TB!Fault, TB!bootVars, TB!Nothing, El, Trying
\* An admin_nodeInfo is the answer of its client if that is the only one: there
\* are no peers to tell it of.
LEMMA InfoTryMaps ==
  ASSUME TypeInv, PairingInv, NEW c \in Els, InfoTry(c)
  PROVE  TB!ElAnswers(c) \/ UNCHANGED TB!vars
<1>1. /\ pc = "info" /\ info[c] = "pending" /\ left = Pairs
      /\ UNCHANGED <<pc, attempt, left, up, stops>>
  BY DEF InfoTry, PairingInv, Progress
<1>2. At = "pair" /\ At' = At /\ Sub' = Sub /\ El' = El /\ c \notin Answered
  BY <1>1 DEF At, Sub, El, Trying, Answered
<1>3. CASE up[c] /\ info' = [info EXCEPT ![c] = "enode"]
  <2>1. \A d \in Els : info'[d] = IF d = c THEN "enode" ELSE info[d]
    BY <1>3 DEF TypeInv, TypeOK
  <2>2. CASE \A p \in Els : <<p, c>> \notin left
    <3>1. Answered' = Answered \cup {c}
      BY <1>1, <2>1, <2>2 DEF Answered
    <3> QED
      BY <1>1, <1>2, <1>3, <3>1, ElAnswersMaps
  <2>3. CASE ~ \A p \in Els : <<p, c>> \notin left
    <3>1. Answered' = Answered
      BY <1>1, <2>1, <2>3 DEF Answered
    <3> QED
      BY <1>1, <1>2, <3>1, StutterMaps
  <2> QED
    BY <2>2, <2>3
<1>4. CASE info' = info \/ info' = [info EXCEPT ![c] = "failed"]
  <2>1. \A d \in Els : info'[d] = "enode" <=> info[d] = "enode"
    BY <1>1, <1>4 DEF TypeInv, TypeOK
  <2>2. Answered' = Answered
    BY <1>1, <2>1 DEF Answered
  <2> QED
    BY <1>1, <1>2, <2>2, StutterMaps
<1> QED
  BY <1>3, <1>4 DEF InfoTry

\* An attempt that failed left no answers.
LEMMA FailAttemptForgets ==
  ASSUME FailAttempt
  PROVE  Answered' = {}
BY DEF FailAttempt, Answered, Pending

LEMMA InfoDoneMaps ==
  ASSUME TypeInv, InfoDone
  PROVE  TB!PairFails \/ UNCHANGED TB!vars
<1>1. pc = "info" /\ UNCHANGED <<up, stops>>
  BY DEF InfoDone
<1>2. El' = El
  BY <1>1 DEF El
<1>3. CASE FailAttempt
  BY <1>1, <1>2, <1>3, FailAttemptForgets, PairFailsMaps
<1>4. CASE pc' = "peer" /\ UNCHANGED <<attempt, info, left>>
  BY <1>1, <1>2, <1>4, StutterMaps DEF At, Sub, Trying, Answered
<1> QED
  BY <1>3, <1>4 DEF InfoDone

\* The last of the requests to a client is its answer.
LEMMA PeerTryMaps ==
  ASSUME TypeInv, NEW p \in Els, NEW c \in Els, PeerTry(p, c)
  PROVE  TB!ElAnswers(c) \/ TB!PairFails \/ UNCHANGED TB!vars
<1>1. pc = "peer" /\ <<p, c>> \in left /\ UNCHANGED <<up, stops>>
      /\ \A d \in Els : info[d] = "enode"
  BY DEF PeerTry, IsNext, TypeInv, AttemptInv
<1>2. El' = El /\ At = "pair" /\ c \notin Answered
  BY <1>1 DEF El, At, Trying, Answered
<1>3. CASE up[c] /\ left' = left \ {<<p, c>>} /\ UNCHANGED <<pc, attempt, info>>
  <2>1. At' = At /\ Sub' = Sub
    BY <1>3 DEF At, Sub, Trying
  <2>2. \A q, d \in Els : <<q, d>> \in left' <=> <<q, d>> \in left /\ ~(q = p /\ d = c)
    BY <1>3
  <2>3. \A d \in Els : d # c => (d \in Answered' <=> d \in Answered)
    BY <1>3, <2>2 DEF Answered
  <2>4. CASE c \in Answered'
    <3>1. Answered' = Answered \cup {c}
      BY <2>3, <2>4 DEF Answered
    <3> QED
      BY <1>1, <1>2, <1>3, <2>1, <3>1, ElAnswersMaps
  <2>5. CASE c \notin Answered'
    <3>1. Answered' = Answered
      BY <1>2, <2>3, <2>5 DEF Answered
    <3> QED
      BY <1>1, <1>2, <1>3, <2>1, <3>1, StutterMaps
  <2> QED
    BY <2>4, <2>5
<1>4. CASE FailAttempt
  BY <1>1, <1>2, <1>4, FailAttemptForgets, PairFailsMaps
<1>5. CASE UNCHANGED <<pc, attempt, info, left>>
  BY <1>1, <1>2, <1>5, StutterMaps DEF At, Sub, Trying, Answered
<1> QED
  BY <1>3, <1>4, <1>5 DEF PeerTry

LEMMA PairedMaps ==
  ASSUME TypeInv, Paired
  PROVE  TB!PairSucceeds
<1>1. pc = "peer" /\ left = {} /\ pc' = "paired"
      /\ UNCHANGED <<attempt, info, left, up, stops>>
  BY DEF Paired
<1>2. \A c \in Els : info[c] = "enode"
  BY <1>1 DEF TypeInv, AttemptInv
<1>3. Answered = Els /\ Answered' = Els
  BY <1>1, <1>2 DEF Answered
<1>4. At = "pair" /\ At' = "deposit_rpc" /\ Sub' = 0 /\ El' = El
  BY <1>1 DEF At, Sub, El, Trying
<1> QED
  BY <1>1, <1>3, <1>4, PairSucceedsMaps

LEMMA RetryMaps ==
  ASSUME TypeInv, Retry
  PROVE  UNCHANGED TB!vars
BY StutterMaps DEF Retry, At, Sub, El, Trying, Answered

\* Every step of the pairing is the step of TestnetBootstrap that stands for it,
\* or none, for any number of execution clients.
THEOREM PairingRefines == Spec => ImplementsPairing
<1> DEFINE Mapped ==
      \/ \E c \in Els :
           TB!ElAnswers(c) \/ TB!LaunchEl(c) \/ TB!RestartClient(c)
      \/ TB!PairSucceeds \/ TB!PairFails
<1>1. TypeInv /\ PairingInv /\ [Next]_vars => Mapped \/ UNCHANGED TB!vars
  <2> SUFFICES ASSUME TypeInv, PairingInv, [Next]_vars
               PROVE  Mapped \/ UNCHANGED TB!vars
    OBVIOUS
  <2>1. CASE \E c \in Els : Launch(c) \/ Stop(c)
    BY <2>1, LaunchMaps, StopMaps
  <2>2. CASE \E c \in Els : InfoTry(c)
    BY <2>2, InfoTryMaps
  <2>3. CASE \E p, c \in Els : PeerTry(p, c)
    BY <2>3, PeerTryMaps
  <2>4. CASE InfoDone \/ Paired \/ Retry
    BY <2>4, InfoDoneMaps, PairedMaps, RetryMaps
  <2>5. CASE UNCHANGED vars
    BY <2>5, StutterMaps DEF vars, At, Sub, El, Trying, Answered
  <2> QED
    BY <2>1, <2>2, <2>3, <2>4, <2>5 DEF Next, BootstrapperStep
<1>2. Spec => []TypeInv
  BY TypeInit, TypeStep, PTL DEF Spec
<1>3. Spec => [][Mapped]_(TB!vars)
  BY <1>1, <1>2, PairingInvariant, PTL DEF Spec
<1> QED
  BY <1>3 DEF ImplementsPairing
=============================================================================
