------------------------------ MODULE ForkDetector ------------------------------
(***************************************************************************)
(* fork_detector.py: every interval it asks each consensus client for its  *)
(* head and, block by block, for the parents of it, while the clients go   *)
(* on building and changing their chains, and sorts the chains it got into *)
(* unique ones and ones that are merely behind.                            *)
(*                                                                         *)
(* A block is its number; block b has the parent tree[b], and the parent   *)
(* of the genesis block 1 is the zero root 0. What the code calls a chain  *)
(* are the parents it got, latest first: it does not hold the head itself. *)
(***************************************************************************)
EXTENDS Naturals, Sequences, FiniteSets, SequencesExt

CONSTANTS
  NumClients,  \* consensus clients, in the order of get_client_instances
  TekuClients, \* clients of a collection that has teku in its name
  Window,      \* parents that are asked for, 10 in the code
  MaxBlocks    \* bound: blocks in the tree

ASSUME DetectorAssumption ==
  /\ NumClients \in Nat \ {0} /\ TekuClients \subseteq 1 .. NumClients
  /\ Window \in Nat \ {0} /\ MaxBlocks \in Nat \ {0}

Clients == 1 .. NumClients

VARIABLES
  tree, head,  \* the blocks there are, and the head of each client
  pc,          \* waiting for the interval, asking, reported, or dead
  asks,        \* what is asked of each client next: its head, a parent
  chain,       \* parents_and_slots of each client
  unique,      \* the chains reported as UNIQUE CHAIN
  syncing      \* under each chain, the chains reported as SYNCING, in order

vars == <<tree, head, pc, asks, chain, unique, syncing>>
network == <<tree, head>>

NoChain == [c \in Clients |-> <<>>]

Init ==
  /\ tree = <<0>> /\ head = [c \in Clients |-> 1]
  /\ pc = "wait"
  /\ asks = [c \in Clients |-> "nothing"] /\ chain = NoChain
  /\ unique = {} /\ syncing = <<>>
-----------------------------------------------------------------------------
(***************************************************************************)
(* The network: c builds on its head, or takes any block as its head, when *)
(* it syncs or reorganises its chain.                                      *)
(***************************************************************************)
Propose(c) ==
  /\ Len(tree) < MaxBlocks
  /\ tree' = Append(tree, head[c])
  /\ head' = [head EXCEPT ![c] = Len(tree')]
  /\ UNCHANGED <<pc, asks, chain, unique, syncing>>

Follow(c, b) ==
  /\ b # head[c]
  /\ head' = [head EXCEPT ![c] = b]
  /\ UNCHANGED <<tree, pc, asks, chain, unique, syncing>>
-----------------------------------------------------------------------------
\* It sleeps for the rest of the interval, before the first report as well.
Waiting == pc \in {"wait", "reported"}

\* The interval is over: the pool asks all clients but teku.
StartRound ==
  /\ Waiting
  /\ pc' = "ask"
  /\ asks' = [c \in Clients |-> IF c \in TekuClients THEN "nothing" ELSE "head"]
  /\ chain' = NoChain /\ unique' = {} /\ syncing' = <<>>
  /\ UNCHANGED network

\* The clock is read once to see that there is time left to wait and once
\* more for how long: a negative answer makes sleep raise.
SleepRaises ==
  /\ Waiting /\ pc' = "dead"
  /\ UNCHANGED <<network, asks, chain, unique, syncing>>

Asking(c) == pc = "ask" /\ asks[c] # "nothing"

\* The answer to one BeaconAPIgetBlockV2: blocks are asked for by their root
\* except the first, so only that one depends on what c follows now.
GotBlock(c) ==
  /\ Asking(c)
  /\ LET block  == IF asks[c] = "head" THEN head[c] ELSE Last(chain[c])
         parent == tree[block]
     IN /\ chain' = [chain EXCEPT ![c] = Append(@, parent)]
        /\ asks' = [asks EXCEPT ![c] =
             IF parent = 0 \/ Len(chain'[c]) = Window THEN "nothing" ELSE "parent"]
  /\ UNCHANGED <<network, pc, unique, syncing>>

\* Mutation: what was fetched so far is returned.
NoBlockKeepsPart(c) ==
  /\ Asking(c)
  /\ asks' = [asks EXCEPT ![c] = "nothing"]
  /\ UNCHANGED <<network, pc, chain, unique, syncing>>

\* Both tries failed, or the answer holds no block: the client has no chain.
NoBlock(c) ==
  /\ Asking(c)
  /\ asks' = [asks EXCEPT ![c] = "nothing"]
  /\ chain' = [chain EXCEPT ![c] = <<>>]
  /\ UNCHANGED <<network, pc, unique, syncing>>
-----------------------------------------------------------------------------
(***************************************************************************)
(* print_all_data_for_every_client. Chains are compared as strings of the  *)
(* numbers rehash_parent_hash gives the hashes, with a blank around each.  *)
(***************************************************************************)
Fetched == {c \in Clients : chain[c] # <<>>}

\* The keys of group_together_clients_with_similar_slots_or_chains.
Chains == {chain[c] : c \in Fetched}
ClientsOf(ch) == {c \in Fetched : chain[c] = ch}

\* Mutation: a common hash anywhere makes a chain the child of another.
SharesHash(ch1, ch2) == ch1 # ch2 /\ ToSet(ch1) \cap ToSet(ch2) # {}

\* Mutation: the chains are compared by their oldest hash.
HasOldest(ch1, ch2) == ch1 # ch2 /\ Last(ch1) \in ToSet(ch2)

\* c1 != c2 and c1[start:end] in c2: ch2 has the latest hash of ch1.
IsChild(ch1, ch2) == ch1 # ch2 /\ Head(ch1) \in ToSet(ch2)

\* The client whose answer made the group of a chain.
First(ch) == CHOOSE c \in ClientsOf(ch) : \A d \in ClientsOf(ch) : c <= d

Before(ch1, ch2) ==
  \/ Len(ch1) < Len(ch2)
  \/ Len(ch1) = Len(ch2) /\ First(ch1) < First(ch2)

\* sorted(..., key=len) is stable. The length of a string is that of the
\* chain while the numbers of the hashes have one digit, as they have here.
Sorted ==
  CHOOSE s \in [1 .. Cardinality(Chains) -> Chains] :
    \A i, j \in DOMAIN s : i < j => Before(s[i], s[j])

\* What hangs below a chain is one path: the last assignment wins over the
\* ones before it.
Link(forks, ch1, ch2) ==
  IF IsChild(ch1, ch2) THEN [forks EXCEPT ![ch2] = <<ch1>> \o forks[ch1]] ELSE forks

\* The two nested loops compare every chain of s with every chain, in order.
LinkAll(s) ==
  LET forks[n \in 0 .. Len(s) * Len(s)] ==
        IF n = 0 THEN [ch \in Chains |-> <<>>]
        ELSE Link(forks[n - 1], s[1 + ((n - 1) \div Len(s))], s[1 + ((n - 1) % Len(s))])
  IN  forks[Len(s) * Len(s)]

RealForks == LinkAll(Sorted)

UniqueChains == {ch1 \in Chains : \A ch2 \in Chains : ~IsChild(ch1, ch2)}

Report ==
  /\ pc = "ask" /\ \A c \in Clients : asks[c] = "nothing"
  /\ pc' = "reported"
  /\ unique' = UniqueChains
  /\ syncing' = RealForks
  /\ UNCHANGED <<network, asks, chain>>

Next ==
  \/ \E c \in Clients :
       \/ Propose(c) \/ (\E b \in 1 .. Len(tree) : Follow(c, b))
       \/ GotBlock(c) \/ NoBlock(c)
  \/ StartRound \/ SleepRaises \/ Report

Spec == Init /\ [][Next]_vars
-----------------------------------------------------------------------------
\* A block and its ancestors, the zero root included: what is in every set that
\* has the block and the parent of each of its members.
Line(b) ==
  {x \in 0 .. Len(tree) : \A S \in SUBSET (0 .. Len(tree)) :
     b \in S /\ (\A y \in S \ {0} : tree[y] \in S) => x \in S}

\* How far a is behind its descendant b.
Distance(a, b) == Cardinality(Line(b)) - Cardinality(Line(a))

\* A verdict of the detector is about the latest parents it was told of.
Latest(c) == Head(chain[c])
Forked(c, d) == Latest(c) \notin Line(Latest(d)) /\ Latest(d) \notin Line(Latest(c))

\* The values the variables take; every chain that was got is a line of the
\* tree, as long as it should be once all of it was asked for.
TypeOK ==
  /\ \A b \in 1 .. Len(tree) : tree[b] \in 0 .. b - 1
  /\ head \in [Clients -> 1 .. Len(tree)]
  /\ pc \in {"wait", "ask", "reported", "dead"}
  /\ asks \in [Clients -> {"nothing", "head", "parent"}]
  /\ \A c \in Clients : chain[c] # <<>> =>
       /\ \A i \in 1 .. Len(chain[c]) - 1 : chain[c][i + 1] = tree[chain[c][i]]
       /\ asks[c] = "nothing" => Len(chain[c]) = Window \/ Last(chain[c]) = 0
  /\ unique \subseteq Chains
  /\ pc = "reported" => DOMAIN syncing = Chains

\* Two clients that are on different branches are never reported on one chain
\* or one as syncing to the other, however long ago the branches parted and
\* whatever the other clients answered; and who answered is on some chain.
ForksReported ==
  pc = "reported" =>
    /\ Fetched # {} => unique # {}
    /\ \A c, d \in Fetched : Forked(c, d) =>
         /\ Cardinality(unique) > 1
         /\ \A ch \in Chains : ~({chain[c], chain[d]} \subseteq
                                   ({ch} \cup ToSet(syncing[ch])))

\* MULTIPLE_UNIQUE_CHAINS is not said of clients on one branch that were only
\* asked at different moments, or of which one failed half way through: there
\* is a fork, or a client is a whole window behind another.
NoFalseForks ==
  pc = "reported" /\ Cardinality(unique) > 1 =>
    \E c, d \in Fetched :
      Forked(c, d) \/ (/\ Latest(c) \in Line(Latest(d))
                       /\ Distance(Latest(c), Latest(d)) >= Window)

\* A chain that is reported as SYNCING is behind the one it is listed under,
\* on the same branch, and each level is behind the level above.
SyncingIsBehind ==
  pc = "reported" =>
    \A ch \in unique :
      LET path == <<ch>> \o syncing[ch]
      IN  \A i \in 1 .. Len(path) - 1 :
            /\ Head(path[i + 1]) # Head(path[i])
            /\ Head(path[i + 1]) \in Line(Head(path[i]))

\* TLC refutes this: MULTIPLE_UNIQUE_CHAINS is only said when clients forked. One
\* that is a window behind is a chain of its own.
OnlyRealForks ==
  pc = "reported" /\ Cardinality(unique) > 1 => \E c, d \in Fetched : Forked(c, d)

\* TLC refutes this: every client that answered is on a unique chain or syncing.
\* Of two chains behind the same one only the one that was linked last is kept.
EveryClientReported ==
  pc = "reported" =>
    Chains = unique \cup UNION {ToSet(syncing[ch]) : ch \in unique}
-----------------------------------------------------------------------------
(***************************************************************************)
(* Why the reports are right: the inductive invariant.                     *)
(***************************************************************************)
\* A client is only asked on while its chain is short and has not ended; nothing
\* is asked outside of a round, and nothing reported within.
FetchInv ==
  /\ tree \in Seq(Nat)
  /\ chain \in [Clients -> Seq(0 .. Len(tree))]
  /\ pc # "ask" => \A c \in Clients : asks[c] = "nothing"
  /\ pc = "ask" => unique = {}
  /\ \A c \in Clients :
       /\ Len(chain[c]) <= Window
       /\ \A i \in 1 .. Len(chain[c]) - 1 : chain[c][i] # 0
       /\ asks[c] = "head" => chain[c] = <<>>
       /\ asks[c] = "parent" =>
            /\ chain[c] # <<>> /\ Last(chain[c]) # 0
            /\ Len(chain[c]) < Window

\* Each chain of s is the child of the one before it, the first one of ch.
IsPath(ch, s) ==
  LET path == <<ch>> \o s
  IN  \A i \in 1 .. Len(path) - 1 : IsChild(path[i + 1], path[i])

\* What is reported was computed from the chains, not from the tree, which goes
\* on growing.
ReportInv ==
  pc = "reported" =>
    /\ unique = UniqueChains
    /\ syncing \in [Chains -> Seq(Chains)]
    /\ \A ch \in Chains : IsPath(ch, syncing[ch])

\* What every state of the detector satisfies: it implies ForksReported,
\* NoFalseForks and SyncingIsBehind.
IInv == TypeOK /\ FetchInv /\ ReportInv
=============================================================================
