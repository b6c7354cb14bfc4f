---------------------------- MODULE MetricMonitor -----------------------------
(***************************************************************************)
(* The metric monitors of consensus_monitors.py on top of the retrying     *)
(* requests of client_request.py.                                          *)
(*                                                                         *)
(* A monitor object is run again and again by node-watch. One run is a     *)
(* number of rounds; a round sends one request per client from a thread of *)
(* its own, waits for all of them, and sorts the clients by what came      *)
(* back. Clients move on, fail and recover while the requests are in       *)
(* flight, so the answers of one round are from different moments.         *)
(***************************************************************************)
EXTENDS Naturals, FiniteSets

CONSTANTS
  Clients,        \* clients_to_monitor
  Values,         \* what a parsed response can say: a head, checkpoints, ...
  MaxTries,       \* max_retries of the request
  MaxRounds,      \* max_retries, or max_retries_for_consensus, of the monitor
  MaxRuns,        \* bound: how often the monitor is run
  MaxChanges,     \* bound: how often a client changes its behaviour
  Refused,        \* ConnectionError, also for a timeout while connecting
  Slow,           \* ReadTimeout
  Erroneous,      \* any other exception: an HTTP status, an error response
  Garbled,        \* status 200 with a body the response parser rejects
  Pending         \* no outcome yet

Failures == {Refused, Slow, Erroneous}
Answers == Values \cup Failures \cup {Garbled}
Outcomes == Answers \cup {Pending}
ASSUME MonitorAssumption ==
  /\ Clients # {} /\ IsFiniteSet(Clients)
  /\ MaxTries \in Nat \ {0} /\ MaxRounds \in Nat \ {0}
  /\ Refused \notin {Slow, Erroneous, Garbled, Pending}
  /\ Slow \notin {Erroneous, Garbled, Pending}
  /\ Erroneous \notin {Garbled, Pending} /\ Garbled # Pending
  /\ Values \cap {Refused, Slow, Erroneous, Garbled, Pending} = {}

ListNames == {"timeout", "unreachable", "unknown", "invalid"}

(***************************************************************************)
(* The monitors: whether they are a ClientMetricMonitor or a               *)
(* ConsensusMetricMonitor, and which of the results and lists their        *)
(* reports print.                                                          *)
(***************************************************************************)
FullReport == ListNames \cup {"result"}
ShortReport == {"result", "unreachable", "invalid"}

ExecutionAvailability == [kind |-> "client", prints |-> FullReport]
ConsensusAvailability == [kind |-> "consensus", prints |-> FullReport]
CheckpointsMonitor == [kind |-> "consensus", prints |-> FullReport]
HeadsMonitor == [kind |-> "consensus", prints |-> ShortReport]
BlobMonitor == [kind |-> "consensus", prints |-> ShortReport]

\* The peering summary is made from the results of two monitors, of peers and
\* of identities, and names the clients that gave peers.
PeeringSummary == [kind |-> "client", prints |-> {"result"}]

Monitors ==
  {ExecutionAvailability, ConsensusAvailability, CheckpointsMonitor,
   HeadsMonitor, BlobMonitor, PeeringSummary}

VARIABLES
  monitor,    \* which of them this is
  at,         \* where run() is
  round,      \* rounds of this run that have begun
  tries,      \* attempts of each client's request that have failed
  got,        \* the result of each client's future
  results,    \* results: {client: parsed response}, Pending for no entry
  lists,      \* the four lists of clients that gave no result
  world,      \* what each client answers at the moment
  seen,       \* history: what each client answered since the round began
  calls, changes

vars == <<monitor, at, round, tries, got, results, lists, world, seen, calls, changes>>
monitorVars == <<monitor, at, round, tries, got, results, lists, calls>>

NoLists == [l \in ListNames |-> {}]
NoResults == [c \in Clients |-> Pending]

Init ==
  /\ monitor \in Monitors
  /\ at = "idle" /\ round = 0 /\ calls = 0 /\ changes = 0
  /\ tries = [c \in Clients |-> 0]
  /\ got = NoResults /\ results = NoResults /\ lists = NoLists
  /\ world \in [Clients -> Answers]
  /\ seen = [c \in Clients |-> {}]
-----------------------------------------------------------------------------
(***************************************************************************)
(* The clients.                                                            *)
(***************************************************************************)
Change(c) ==
  /\ changes < MaxChanges
  /\ changes' = changes + 1
  /\ \E a \in Answers \ {world[c]} :
       /\ world' = [world EXCEPT ![c] = a]
       /\ seen' = [seen EXCEPT ![c] = @ \cup {a}]
  /\ UNCHANGED monitorVars
-----------------------------------------------------------------------------
(***************************************************************************)
(* The threads: perform_request.                                           *)
(***************************************************************************)
InFlight(c) == at = "query" /\ got[c] = Pending

\* Mutation: range(max_retries + 1).
AttemptOnceMore(c) ==
  /\ InFlight(c)
  /\ IF world[c] \in Failures /\ tries[c] < MaxTries
       THEN tries' = [tries EXCEPT ![c] = @ + 1] /\ UNCHANGED got
       ELSE got' = [got EXCEPT ![c] = world[c]] /\ UNCHANGED tries
  /\ UNCHANGED <<monitor, at, round, results, lists, world, seen, calls, changes>>

\* Mutation: the attempts are not counted.
AttemptForever(c) ==
  /\ InFlight(c)
  /\ IF world[c] \in Failures
       THEN UNCHANGED <<tries, got>>
       ELSE got' = [got EXCEPT ![c] = world[c]] /\ UNCHANGED tries
  /\ UNCHANGED <<monitor, at, round, results, lists, world, seen, calls, changes>>

\* One attempt: any response is returned, an exception only by the last one.
Attempt(c) ==
  /\ InFlight(c)
  /\ IF world[c] \in Failures /\ tries[c] < MaxTries - 1
       THEN tries' = [tries EXCEPT ![c] = @ + 1] /\ UNCHANGED got
       ELSE got' = [got EXCEPT ![c] = world[c]] /\ UNCHANGED tries
  /\ UNCHANGED <<monitor, at, round, results, lists, world, seen, calls, changes>>
-----------------------------------------------------------------------------
(***************************************************************************)
(* The monitor: collect_metrics and query_clients_for_metric.              *)
(***************************************************************************)
Run ==
  /\ at \in {"idle", "report"}
  /\ calls < MaxRuns
  /\ calls' = calls + 1
  /\ at' = "clear" /\ round' = 0
  /\ UNCHANGED <<monitor, tries, got, results, lists, world, seen, changes>>

Submit ==
  /\ tries' = [c \in Clients |-> 0]
  /\ got' = NoResults
  /\ seen' = [c \in Clients |-> {world[c]}]
  /\ round' = round + 1
  /\ at' = "query"
  /\ UNCHANGED <<monitor, world, calls, changes>>

\* Mutation: only the results are cleared.
StartRoundKeepingLists ==
  /\ at = "clear"
  /\ results' = NoResults
  /\ UNCHANGED lists
  /\ Submit

\* _clear_results, then one future per client.
StartRound ==
  /\ at = "clear"
  /\ results' = NoResults
  /\ lists' = NoLists
  /\ Submit

Failed(l) == lists[l] # {}

\* What decides whether there is another round; the timeouts and the unknown
\* errors do not.
Complete ==
  /\ ~Failed("unreachable")' /\ ~Failed("invalid")'
  /\ monitor.kind = "consensus" =>
       Cardinality({c \in Clients : results'[c] # Pending}) = 1

ClientsThatGot(S) == {c \in Clients : got[c] \in S}

\* Mutation: no continue after the connection error.
FinishRoundFallingThrough ==
  /\ at = "query" /\ \A c \in Clients : got[c] # Pending
  /\ results' = [c \in Clients |-> IF got[c] \in Values THEN got[c] ELSE results[c]]
  /\ lists' = [lists EXCEPT
       !["timeout"]     = @ \cup ClientsThatGot({Slow}),
       !["unreachable"] = @ \cup ClientsThatGot({Refused}),
       !["unknown"]     = @ \cup ClientsThatGot({Refused, Erroneous}),
       !["invalid"]     = @ \cup ClientsThatGot({Garbled})]
  /\ at' = IF Complete \/ round = MaxRounds THEN "report" ELSE "clear"
  /\ UNCHANGED <<monitor, round, tries, got, world, seen, calls, changes>>

\* The with block ends when every future is done; then they are sorted.
FinishRound ==
  /\ at = "query" /\ \A c \in Clients : got[c] # Pending
  /\ results' = [c \in Clients |-> IF got[c] \in Values THEN got[c] ELSE results[c]]
  /\ lists' = [lists EXCEPT
       !["timeout"]     = @ \cup ClientsThatGot({Slow}),
       !["unreachable"] = @ \cup ClientsThatGot({Refused}),
       !["unknown"]     = @ \cup ClientsThatGot({Erroneous}),
       !["invalid"]     = @ \cup ClientsThatGot({Garbled})]
  /\ at' = IF Complete \/ round = MaxRounds THEN "report" ELSE "clear"
  /\ UNCHANGED <<monitor, round, tries, got, world, seen, calls, changes>>

MonitorStep == Run \/ StartRound \/ FinishRound

Next ==
  \/ MonitorStep
  \/ \E c \in Clients : Attempt(c) \/ Change(c)

Spec == Init /\ [][Next]_vars

\* Every attempt ends: it has a timeout. node-watch keeps running.
FairSpec ==
  Spec /\ WF_vars(StartRound) /\ WF_vars(FinishRound)
       /\ \A c \in Clients : WF_vars(Attempt(c))
-----------------------------------------------------------------------------
\* The values the variables take; no request is retried beyond its limit.
TypeOK ==
  /\ monitor \in Monitors /\ at \in {"idle", "clear", "query", "report"}
  /\ round \in 0 .. MaxRounds /\ calls \in Nat /\ changes \in Nat
  /\ tries \in [Clients -> 0 .. MaxTries - 1]
  /\ got \in [Clients -> Outcomes]
  /\ results \in [Clients -> Values \cup {Pending}]
  /\ lists \in [ListNames -> SUBSET Clients]
  /\ world \in [Clients -> Answers] /\ seen \in [Clients -> SUBSET Answers]

\* Where a client is when a run is over, and where the report shows it.
Entries(c) ==
  {l \in ListNames : c \in lists[l]} \cup
  (IF results[c] = Pending THEN {} ELSE {"result"})
Printed(c) == Entries(c) \cap monitor.prints

\* The monitor object is used for every slot of the experiment, for several
\* rounds each time: still every run ends with every client in exactly one
\* place, as available or as failed in one way. The reports of availability
\* and of checkpoints account for all of them; one of heads or blobs leaves
\* out only clients that were slow or failed in its last round.
ReportedOnce ==
  at = "report" => \A c \in Clients :
    /\ Cardinality(Entries(c)) = 1
    /\ monitor.prints = FullReport => Printed(c) # {}
    /\ monitor.prints = ShortReport =>
         Printed(c) # {} \/ seen[c] \cap {Slow, Erroneous} # {}

\* What a client is reported as is what it was at some moment of the last
\* round, never of an earlier round or of the run before: a client reported
\* unreachable did refuse, a head that is reported was its head.
ReportIsFresh ==
  at = "report" => \A c \in Clients :
    /\ results[c] # Pending => results[c] \in seen[c]
    /\ c \in lists["timeout"] => Slow \in seen[c]
    /\ c \in lists["unreachable"] => Refused \in seen[c]
    /\ c \in lists["unknown"] => Erroneous \in seen[c]
    /\ c \in lists["invalid"] => Garbled \in seen[c]

\* Whatever the clients do, a run ends: no request and no round is retried
\* for ever.
RunReturns == at = "clear" ~> at = "report"

\* "we retry until we get consensus or we reach max_retries_for_consensus":
\* a round in which every client gave the same result is the last one.
ConsensusEndsRetries ==
  [][monitor.kind = "consensus" /\ at = "query" /\ at' # "query"
       /\ (\E v \in Values : \A c \in Clients : results'[c] = v)
     => at' = "report"]_vars
-----------------------------------------------------------------------------
(***************************************************************************)
(* Why the reports can be trusted: the inductive invariant.                *)
(***************************************************************************)
\* A round starts with nothing of the one before, and what a thread brought
\* back is from this round.
RoundInv ==
  /\ at = "clear" => round < MaxRounds
  /\ at = "query" => /\ results = NoResults /\ lists = NoLists
                     /\ \A c \in Clients : world[c] \in seen[c]
  /\ at \in {"query", "report"} =>
       \A c \in Clients : got[c] # Pending => got[c] \in seen[c]

\* After the last round the results and the lists divide the clients by what
\* came back for them in that round.
SortedInv ==
  at = "report" =>
    /\ \A c \in Clients :
         /\ got[c] # Pending
         /\ results[c] = IF got[c] \in Values THEN got[c] ELSE Pending
    /\ lists["timeout"] = ClientsThatGot({Slow})
    /\ lists["unreachable"] = ClientsThatGot({Refused})
    /\ lists["unknown"] = ClientsThatGot({Erroneous})
    /\ lists["invalid"] = ClientsThatGot({Garbled})

\* What every state of every monitor satisfies: types, clean rounds, and lists that
\* divide the clients. It implies ReportedOnce and ReportIsFresh.
IInv == TypeOK /\ RoundInv /\ SortedInv
=============================================================================
