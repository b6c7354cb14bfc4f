------------------------------- MODULE ElPairing -------------------------------
(***************************************************************************)
(* _pair_execution_clients of testnet_bootstrapper.py and the attempts     *)
(* bootstrap_testnet makes at it: the requests of client_request.py to     *)
(* every execution client (EL), each with retries of its own, while the    *)
(* clients come up, go down and come back. TestnetBootstrap has the whole  *)
(* of it as ElAnswers, PairSucceeds and PairFails.                         *)
(*                                                                         *)
(* A client is told the enodes of the others with admin_addPeer. It        *)
(* forgets them when it restarts, and a request whose answer is lost may   *)
(* have been executed.                                                     *)
(***************************************************************************)
EXTENDS Naturals

CONSTANTS
  NumEls,      \* execution clients with the admin API; the others are skipped
  Attempts,    \* pair_el_clients_attempts, 10 in the code
  InfoTries,   \* max_retries of admin_nodeInfo, 40 in the code
  PeerTries,   \* max_retries of admin_addPeer, 3 in the code
  MaxStops,    \* bound: how often a client goes down
  MaxLost,     \* bound: requests or answers lost, and answers with an error
  Absent, Empty

ASSUME PairingAssumption ==
  /\ NumEls \in Nat \ {0} /\ Attempts \in Nat \ {0}
  /\ InfoTries \in Nat \ {0} /\ PeerTries \in Nat \ {0}
  /\ MaxStops \in Nat /\ MaxLost \in Nat
  /\ Absent \notin Nat /\ Empty \notin Nat /\ Absent # Empty

\* el_clients_to_pair, in the order of the list.
Els == 1 .. NumEls

\* <<el_peer, el_client>> of every admin_addPeer of an attempt.
Pairs == {pair \in Els \X Els : pair[1] # pair[2]}

VARIABLES
  pc,         \* batch of admin_nodeInfo, admin_addPeer, sleep, or the end
  attempt,    \* attempts that failed
  info,       \* the future of admin_nodeInfo for each client
  tries,      \* failed tries of the request that is out to each client
  left,       \* admin_addPeer requests of this attempt still to make
  up,         \* which clients run
  knows,      \* peers each client was told of since it started
  restarted,  \* clients that went down since this attempt began
  stops, lost

vars ==
  <<pc, attempt, info, tries, left, up, knows, restarted, stops, lost>>

Clean == [c \in Els |-> 0]
Pending == [c \in Els |-> "pending"]

\* The execution checkpoint was just written: the clients are about to start.
Init ==
  /\ pc = "info" /\ attempt = 0
  /\ info = Pending /\ tries = Clean /\ left = Pairs
  /\ up = [c \in Els |-> FALSE] /\ knows = [c \in Els |-> {}]
  /\ restarted = {} /\ stops = 0 /\ lost = 0
-----------------------------------------------------------------------------
Launch(c) ==
  /\ ~up[c]
  /\ up' = [up EXCEPT ![c] = TRUE]
  /\ UNCHANGED <<pc, attempt, info, tries, left, knows, restarted, stops, lost>>

Stop(c) ==
  /\ up[c] /\ stops < MaxStops
  /\ up' = [up EXCEPT ![c] = FALSE]
  /\ knows' = [knows EXCEPT ![c] = {}]
  /\ restarted' = restarted \cup {c}
  /\ stops' = stops + 1
  /\ UNCHANGED <<pc, attempt, info, tries, left, lost>>

\* requests.post raises, or the answer is an error: the client is down, or
\* the request or its answer gets lost.
NoAnswer(c) ==
  \/ ~up[c] /\ UNCHANGED lost
  \/ up[c] /\ lost < MaxLost /\ lost' = lost + 1

\* Mutation: attempts are not counted, so the last one is never reached.
FailAttemptUncounted ==
  /\ pc' = "sleep" /\ UNCHANGED attempt
  /\ info' = Pending /\ tries' = Clean /\ left' = Pairs

\* Mutation: the next attempt goes on where this one stopped.
FailAttemptResumes ==
  /\ attempt' = attempt + 1
  /\ pc' = IF attempt' = Attempts THEN "terminated" ELSE "sleep"
  /\ info' = Pending /\ tries' = Clean /\ left' = left

\* Mutation: a client that failed this attempt is not asked again.
FailAttemptRemembers ==
  /\ attempt' = attempt + 1
  /\ pc' = IF attempt' = Attempts THEN "terminated" ELSE "sleep"
  /\ info' = [c \in Els |-> IF info[c] = "failed" THEN "failed" ELSE "pending"]
  /\ tries' = Clean /\ left' = Pairs

\* The exception of the attempt reaches bootstrap_testnet, which sleeps or,
\* after the last attempt, prints "terminate" and raises it. Nothing that
\* the attempt found out is kept.
FailAttempt ==
  /\ attempt' = attempt + 1
  /\ pc' = IF attempt' = Attempts THEN "terminated" ELSE "sleep"
  /\ info' = Pending /\ tries' = Clean /\ left' = Pairs

\* One try of the thread that asks c for admin_nodeInfo; all threads of
\* perform_batched_request are at work at once.
InfoTry(c) ==
  /\ pc = "info" /\ info[c] = "pending"
  /\ \/ /\ up[c]
        /\ info' = [info EXCEPT ![c] = "enode"]
        /\ UNCHANGED <<tries, lost>>
     \/ /\ NoAnswer(c)
        /\ tries' = [tries EXCEPT ![c] = @ + 1]
        /\ info' = IF tries'[c] = InfoTries
                     THEN [info EXCEPT ![c] = "failed"] ELSE info
  /\ UNCHANGED <<pc, attempt, left, up, knows, restarted, stops>>

\* Mutation: a client that could not be asked is logged and left out.
InfoDoneSkipsFailed ==
  /\ pc = "info" /\ \A c \in Els : info[c] # "pending"
  /\ pc' = "peer" /\ tries' = Clean
  /\ left' = {pair \in Pairs : info[pair[1]] # "failed" /\ info[pair[2]] # "failed"}
  /\ UNCHANGED <<attempt, info, up, knows, restarted, stops, lost>>

\* Mutation: the tries of admin_nodeInfo count for admin_addPeer as well.
InfoDoneKeepsTries ==
  /\ pc = "info" /\ \A c \in Els : info[c] # "pending"
  /\ IF \E c \in Els : info[c] = "failed"
       THEN FailAttempt
       ELSE pc' = "peer" /\ UNCHANGED <<attempt, info, tries, left>>
  /\ UNCHANGED <<up, knows, restarted, stops, lost>>

\* The executor waits for all of its threads; one client without an enode
\* ends the attempt.
InfoDone ==
  /\ pc = "info" /\ \A c \in Els : info[c] # "pending"
  /\ IF \E c \in Els : info[c] = "failed"
       THEN FailAttempt
       ELSE /\ pc' = "peer" /\ tries' = Clean
            /\ UNCHANGED <<attempt, info, left>>
  /\ UNCHANGED <<up, knows, restarted, stops, lost>>

\* The two loops go through the peers and, for each, the clients in order.
IsNext(p, c) ==
  /\ <<p, c>> \in left
  /\ \A pair \in left : p < pair[1] \/ (p = pair[1] /\ c <= pair[2])

Told(p, c) == [knows EXCEPT ![c] = @ \cup {p}]

\* One try of admin_addPeer(p) at c.
PeerTry(p, c) ==
  /\ pc = "peer" /\ IsNext(p, c)
  /\ \/ /\ up[c]
        /\ knows' = Told(p, c)
        /\ left' = left \ {<<p, c>>}
        /\ tries' = [tries EXCEPT ![c] = 0]
        /\ UNCHANGED <<pc, attempt, info, lost>>
     \/ /\ NoAnswer(c)
        /\ knows' = knows \/ (up[c] /\ knows' = Told(p, c))
        /\ IF tries[c] + 1 = PeerTries
             THEN FailAttempt
             ELSE /\ tries' = [tries EXCEPT ![c] = @ + 1]
                  /\ UNCHANGED <<pc, attempt, info, left>>
  /\ UNCHANGED <<up, restarted, stops>>

Paired ==
  /\ pc = "peer" /\ left = {}
  /\ pc' = "paired"
  /\ UNCHANGED <<attempt, info, tries, left, up, knows, restarted, stops, lost>>

\* The sleep is over: the next attempt starts from nothing.
Retry ==
  /\ pc = "sleep" /\ pc' = "info"
  /\ restarted' = {}
  /\ UNCHANGED <<attempt, info, tries, left, up, knows, stops, lost>>

BootstrapperStep ==
  \/ \E c \in Els : InfoTry(c)
  \/ \E p, c \in Els : PeerTry(p, c)
  \/ InfoDone \/ Paired \/ Retry

Next == BootstrapperStep \/ \E c \in Els : Launch(c) \/ Stop(c)

\* The bootstrapper is scheduled and every try has a timeout; nothing obliges
\* a client to come up.
Spec == Init /\ [][Next]_vars /\ WF_vars(BootstrapperStep)
-----------------------------------------------------------------------------
\* The values the variables take; a request that is out has tries left.
TypeOK ==
  /\ pc \in {"info", "peer", "sleep", "paired", "terminated"}
  /\ attempt \in 0 .. Attempts
  /\ info \in [Els -> {"pending", "enode", "failed"}]
  /\ tries \in [Els -> Nat]
  /\ pc = "info" => \A c \in Els : info[c] = "pending" => tries[c] < InfoTries
  /\ pc = "peer" => \A c \in Els : tries[c] < PeerTries
  /\ left \subseteq Pairs
  /\ up \in [Els -> BOOLEAN]
  /\ knows \in [Els -> SUBSET Els]
  /\ restarted \subseteq Els
  /\ stops \in 0 .. MaxStops /\ lost \in 0 .. MaxLost

\* bootstrap_testnet goes on only when every client that stayed up through
\* the last attempt was told of every other one, whatever the attempts before
\* it had already told it and whoever restarted between two attempts.
KnowsAll ==
  pc = "paired" => \A c \in Els \ restarted : knows[c] = Els \ {c}

\* What a reader of _pair_execution_clients may expect and TLC refutes: a
\* client that restarts during the last attempt or after it is never told
\* again.
RunningKnowAll ==
  pc = "paired" => \A c \in Els : up[c] => knows[c] = Els \ {c}

\* Every run of the pairing ends, whatever the clients do: ten attempts with
\* a bounded number of tries each.
PairingEnds == <>(pc \in {"paired", "terminated"})

\* An attempt is not doomed by the ones before it: when all clients are up at
\* last, nothing disturbs them any more and there is an attempt left, the
\* clients are paired.
RetryRecovers ==
  (pc = "sleep" /\ (\A c \in Els : up[c]) /\ stops = MaxStops /\ lost = MaxLost)
    ~> pc = "paired"
-----------------------------------------------------------------------------
(***************************************************************************)
(* The pairing of TestnetBootstrap: the same attempts with all requests to *)
(* a client as one answer. Only the pairing is refined here, so the files  *)
(* are those of a run that reached it, and the rest does not move.         *)
(***************************************************************************)
TrialFiles ==
  [f \in {"etb_config", "etb_config_checkpoint", "bootnode_checkpoint",
          "geth_genesis", "besu_genesis", "nethermind_genesis",
          "execution_checkpoint", "deposit_block", "consensus_config",
          "genesis_ssz", "consensus_checkpoint", "bootnode_enr"} |->
     CASE f \in {"etb_config", "geth_genesis", "besu_genesis",
                 "nethermind_genesis"} -> 1
       [] f \in {"etb_config_checkpoint", "bootnode_checkpoint",
                 "execution_checkpoint"} -> Empty
       [] OTHER -> Absent]

Trying == pc \in {"info", "peer", "sleep"}

TB == INSTANCE TestnetBootstrap WITH
  Clients <- Els, Readers <- {}, EagerClients <- {}, AdminClients <- Els,
  EthClients <- Els, NumCollections <- 1, CollectionOf <- [c \in Els |-> 1],
  GenesisFile <- [c \in Els |-> "geth_genesis"], PairAttempts <- Attempts,
  ElectraMended <- {TRUE}, MaxRuns <- 1, MaxFaults <- Attempts + MaxStops,
  disk <- TrialFiles,
  collDir <- [k \in {1} |-> [config |-> Absent, ssz |-> Absent]],
  at <- IF Trying THEN "pair" ELSE IF pc = "paired" THEN "deposit_rpc" ELSE "down",
  sub <- IF Trying THEN attempt ELSE 0,
  genesisTime <- 1,
  answered <- {c \in Els : info[c] = "enode" /\ \A p \in Els : <<p, c>> \notin left},
  el <- [c \in Els |-> IF up[c] THEN 1 ELSE Absent],
  clAt <- [c \in Els |-> "wait_enr"], clEnr <- [c \in Els |-> Absent],
  clView <- [c \in Els |-> [config |-> Absent, ssz |-> Absent]],
  rd <- <<>>, bn <- "wait", runs <- 1, faults <- attempt + stops

\* Every step of the pairing, with its threads, retries and restarts, is the
\* one of TestnetBootstrap that stands for it, or none: a client answered
\* when all of its requests were, all of them have when the pairing
\* succeeds, and the attempts fail as they are counted.
ImplementsPairing ==
  [][\/ \E c \in Els :
          TB!ElAnswers(c) \/ TB!LaunchEl(c) \/ TB!RestartClient(c)
     \/ TB!PairSucceeds \/ TB!PairFails]_(TB!vars)
=============================================================================
