--------------------------- MODULE ConfigAllocation ---------------------------
(***************************************************************************)
(* The addresses and validators of a testnet: what ETBConfig gives the     *)
(* collections of a configuration file that leaves some of them out        *)
(* (etb_config.py, _populate_config_with_defaults).                        *)
(*                                                                         *)
(* One pass over the file, and one step per collection: each takes what    *)
(* those before it left, in the order of the file.                         *)
(***************************************************************************)
EXTENDS Integers, FiniteSets

CONSTANTS
  N,             \* number of collections
  Generic,       \* the first ones: generic-instances; the rest are clients
  Presets,       \* the first of these: DEFAULT_GENERIC_INSTANCES, which has two
  FirstPreset,   \* start-ip-address of the first of them, 201; they count up
  MaxNodes, MaxValidators, Suffixes, Offsets,  \* bounds: what the file says
  Absent         \* the file does not say

ASSUME FileAssumption ==
  /\ N \in Nat /\ Generic \in 0 .. N /\ Presets \in 0 .. Generic
  /\ FirstPreset \in Nat
  /\ MaxNodes \in Nat \ {0} /\ MaxValidators \in Nat \ {0}
  /\ Suffixes \subseteq Nat \ {0} /\ Offsets \subseteq Nat /\ Absent \notin Nat

VARIABLES
  file,      \* what the file says of each collection
  at,        \* the step of _populate_config_with_defaults
  i,         \* the collection it is at
  start,     \* start-ip-address, the last byte of it
  offset,    \* validator-offset-start
  reserved_ips, curr_ip,
  curr_validator_ndx,
  genesis    \* min-genesis-active-validator-count

vars == <<file, at, i, start, offset, reserved_ips, curr_ip,
          curr_validator_ndx, genesis>>

Collections == 1 .. N
Clients == Generic + 1 .. N
Described == [ip : Suffixes \cup {Absent}, nodes : (1 .. MaxNodes) \cup {Absent},
              offset : Offsets \cup {Absent}, validators : 1 .. MaxValidators]

\* num-nodes, by default one.
Nodes(c) == IF file[c].nodes = Absent THEN 1 ELSE file[c].nodes
Run(first, length) == {n \in first .. first + length : n < first + length}
Addresses(c) == Run(start[c], Nodes(c))
Validators(c) == Run(offset[c], Nodes(c) * file[c].validators)

\* min_ndx .. max_ndx of the keystores of the n-th node, counted from zero.
Keystores(c, n) == Run(offset[c] + n * file[c].validators, file[c].validators)
Disjoint(Range(_), S) == \A c, d \in S : c # d => Range(c) \cap Range(d) = {}

\* The bootstrapper and the bootnode. Their defaults are merged with what the file
\* says of them, so they have an address even if it says none.
Preset == 1 .. Presets
Written(c) ==
  IF file[c].ip = Absent /\ c \in Preset THEN FirstPreset + c - 1 ELSE file[c].ip

Init ==
  /\ file \in [Collections -> Described]
  /\ \A c \in 1 .. Generic : file[c].offset = Absent /\ file[c].validators = 1
  /\ at = "find" /\ i = 1
  /\ start = [c \in Collections |-> Written(c)]
  /\ offset = [c \in Collections |-> file[c].offset]
  /\ reserved_ips = {} /\ curr_ip = 2 /\ curr_validator_ndx = 0 /\ genesis = 0

\* Collections whose address the file says.
Given == {c \in Collections : file[c].ip # Absent}

\* _find_used_ip_addresses raises for two collections of the file that overlap. It
\* looks at the file before the defaults are merged in.
FindUsed ==
  /\ at = "find"
  /\ IF Disjoint(Addresses, Given)
       THEN /\ at' = "generic"
            /\ reserved_ips' = UNION {Addresses(c) : c \in Given}
       ELSE at' = "raised" /\ UNCHANGED reserved_ips
  /\ UNCHANGED <<file, i, start, offset, curr_ip, curr_validator_ndx, genesis>>

\* Mutation: reserved addresses are not skipped.
NextFreeUnchecked == curr_ip

\* _get_next_available_ip_suffix
NextFree ==
  CHOOSE n \in curr_ip .. curr_ip + Cardinality(reserved_ips) :
    n \notin reserved_ips /\ \A m \in curr_ip .. n : m # n => m \in reserved_ips

\* Mutation: only the first address is reserved.
TakeOneAddress(c) ==
  IF start[c] = Absent
    THEN /\ start' = [start EXCEPT ![c] = NextFree]
         /\ curr_ip' = NextFree + 1
         /\ reserved_ips' = reserved_ips \cup {NextFree}
    ELSE UNCHANGED <<start, curr_ip, reserved_ips>>

\* The first free address; those of the other nodes follow it, free or not.
TakeAddresses(c) ==
  IF start[c] = Absent
    THEN /\ start' = [start EXCEPT ![c] = NextFree]
         /\ curr_ip' = NextFree + 1
         /\ reserved_ips' = reserved_ips \cup Run(NextFree, Nodes(c))
    ELSE UNCHANGED <<start, curr_ip, reserved_ips>>

PopulateGeneric ==
  /\ at = "generic" /\ i <= Generic
  /\ TakeAddresses(i)
  /\ i' = i + 1
  /\ UNCHANGED <<file, at, offset, curr_validator_ndx, genesis>>

UserDefined == {c \in Clients : file[c].offset # Absent}

\* Mutation: only the first validator of each client counts.
UsedOffsets == {file[c].offset : c \in UserDefined}

Used == UNION {Validators(c) : c \in UserDefined}

\* _get_user_defined_validator_indexes: the file must give num-nodes along with
\* an offset. The defaults go on from the last index that is used.
ReserveValidators ==
  /\ at = "generic" /\ i = Generic + 1
  /\ IF \E c \in UserDefined : file[c].nodes = Absent
       THEN at' = "raised" /\ UNCHANGED curr_validator_ndx
       ELSE /\ at' = "clients"
            /\ curr_validator_ndx' =
                 IF Used = {} THEN 0 ELSE CHOOSE n \in Used : \A m \in Used : m <= n
  /\ UNCHANGED <<file, i, start, offset, reserved_ips, curr_ip, genesis>>

\* Mutation: the validators of one node are counted.
TakeValidatorsOfOneNode(c) ==
  IF offset[c] = Absent
    THEN /\ offset' = [offset EXCEPT ![c] = curr_validator_ndx]
         /\ curr_validator_ndx' = curr_validator_ndx + file[c].validators
    ELSE UNCHANGED <<offset, curr_validator_ndx>>

TakeValidators(c) ==
  IF offset[c] = Absent
    THEN /\ offset' = [offset EXCEPT ![c] = curr_validator_ndx]
         /\ curr_validator_ndx' = curr_validator_ndx + Nodes(c) * file[c].validators
    ELSE UNCHANGED <<offset, curr_validator_ndx>>

PopulateClient ==
  /\ at = "clients" /\ i <= N
  /\ TakeValidators(i) /\ TakeAddresses(i)
  /\ i' = i + 1
  /\ UNCHANGED <<file, at, genesis>>

\* min-genesis-active-validator-count, when the file does not say.
PopulateTestnet ==
  /\ at = "clients" /\ i = N + 1
  /\ at' = "done" /\ genesis' = curr_validator_ndx
  /\ UNCHANGED <<file, i, start, offset, reserved_ips, curr_ip, curr_validator_ndx>>

Next ==
  FindUsed \/ PopulateGeneric \/ ReserveValidators \/ PopulateClient
    \/ PopulateTestnet

Spec == Init /\ [][Next]_vars
-----------------------------------------------------------------------------
Steps == {"find", "generic", "clients", "done", "raised"}
Assigned == {c \in Collections : Written(c) = Absent /\ start[c] # Absent}
AssignedValidators == {c \in Clients : file[c].offset = Absent /\ offset[c] # Absent}

\* The values the variables take; what is assigned lies below the counters.
TypeOK ==
  /\ file \in [Collections -> Described]
  /\ at \in Steps /\ i \in 1 .. N + 1
  /\ start \in [Collections -> Nat \cup {Absent}]
  /\ offset \in [Collections -> Nat \cup {Absent}]
  /\ reserved_ips \in SUBSET Nat /\ IsFiniteSet(reserved_ips)
  /\ curr_ip \in Nat /\ curr_validator_ndx \in Nat /\ genesis \in Nat
  /\ \A c \in Assigned : start[c] < curr_ip
  /\ \A c \in AssignedValidators :
       offset[c] + Nodes(c) * file[c].validators <= curr_validator_ndx

\* Collections of any size, with reserved addresses in between: two collections
\* that leave their addresses to the program never share one.
AssignedAddressesDisjoint == Disjoint(Addresses, Assigned)

\* The default address of a collection that the file does not place: nothing
\* reserves it, and nothing looks at it.
Unreserved == {c \in Preset : file[c].ip = Absent}

\* The addresses of an assigned collection of several nodes go on into those of a
\* collection that the file places above it.
RunsInto(c, d) == c \in Assigned /\ d \in Given /\ start[c] < start[d]

\* Two collections have an address in common only in the two ways that the pass
\* does not guard against: a bootstrapper or bootnode at its default address is
\* one of them, or an assigned one runs into one of the file. So a collection of
\* one node gets an address that nobody else in the file has or is given.
NoOtherOverlap ==
  at = "done" =>
    \A c, d \in Collections \ Unreserved :
      c # d => \/ Addresses(c) \cap Addresses(d) = {}
               \/ RunsInto(c, d) \/ RunsInto(d, c)

\* No key is in the keystores of two nodes, of one collection or of two, among
\* the clients that leave their validators to the program: nobody is slashed.
\* The genesis has all of these validators, unless the file gives its size.
AssignedValidatorsDisjoint ==
  \A c, d \in AssignedValidators :
    \A n \in 0 .. Nodes(c) - 1, m \in 0 .. Nodes(d) - 1 :
      /\ <<c, n>> # <<d, m>> => Keystores(c, n) \cap Keystores(d, m) = {}
      /\ at = "done" => Keystores(c, n) \subseteq 0 .. genesis - 1

\* An assigned client runs no more than one validator that the file gives to
\* another client. One it may: the defaults begin with the last index used and not
\* after it, see ValidatorsReserved.
AtMostOneShared ==
  \A c \in AssignedValidators, d \in UserDefined :
    Cardinality(Validators(c) \cap Validators(d)) <= 1

\* "Overlapping ip-range": no two containers get one address, the bootstrapper and
\* the bootnode among them.
IpRangesDisjoint == at = "done" => Disjoint(Addresses, Collections)

\* "get the reserved ips and validator ndxs": validators the file gives to one
\* client are not given to another, and they are in the genesis.
ValidatorsReserved ==
  at = "done" =>
    /\ \A c \in AssignedValidators, d \in UserDefined :
         Validators(c) \cap Validators(d) = {}
    /\ Used \subseteq 0 .. genesis - 1
-----------------------------------------------------------------------------
(***************************************************************************)
(* Why these properties hold: the inductive invariant.                     *)
(***************************************************************************)
\* The pass goes over the collections in their order, and keeps what the file
\* says.
ProgressInv ==
  /\ at = "find" => i = 1
  /\ at \in {"generic", "raised"} => i <= Generic + 1
  /\ at = "clients" => i >= Generic + 1
  /\ at = "done" => i = N + 1
  /\ \A c \in Collections :
       /\ Written(c) # Absent \/ c >= i => start[c] = Written(c)
       /\ c < i => start[c] # Absent
  /\ \A c \in Clients : file[c].offset # Absent \/ c >= i => offset[c] = file[c].offset

\* Everything given or assigned is reserved, and the first address of an
\* assigned collection was free; later ones are above all earlier ones.
AddressInv ==
  /\ at \in {"generic", "clients", "done"} =>
       Disjoint(Addresses, Given) /\ \A c \in Given : Addresses(c) \subseteq reserved_ips
  /\ \A c \in Assigned :
       /\ Addresses(c) \subseteq reserved_ips
       /\ \A d \in Assigned : c < d => start[c] + Nodes(c) <= start[d]
       /\ \A d \in Given : start[c] \notin Addresses(d)

\* Assigned validators begin no lower than the last one the file uses, and
\* follow each other.
ValidatorInv ==
  /\ at \in {"clients", "done"} => \A v \in Used : v <= curr_validator_ndx
  /\ \A c \in AssignedValidators :
       /\ \A v \in Used : v <= offset[c]
       /\ \A d \in AssignedValidators :
            c < d => offset[c] + Nodes(c) * file[c].validators <= offset[d]
  /\ at = "done" => genesis = curr_validator_ndx

\* What every state of the pass satisfies: assigned addresses and validators ascend
\* with the collections, above what the file uses.
IInv == TypeOK /\ ProgressInv /\ AddressInv /\ ValidatorInv
=============================================================================
