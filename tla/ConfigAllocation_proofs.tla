------------------------ MODULE ConfigAllocation_proofs ------------------------
(***************************************************************************)
(* TLAPS proofs about ConfigAllocation: for configuration files with any   *)
(* number of collections of any size, any start addresses and any offsets. *)
(***************************************************************************)
EXTENDS ConfigAllocation, FiniteSetTheorems, WellFoundedInduction, TLAPS

USE FileAssumption

(***************************************************************************)
(* Numbers and ranges.                                                     *)
(***************************************************************************)
LEMMA NatMinimum ==
  ASSUME NEW T \in SUBSET Nat, T # {}
  PROVE  \E x \in T : \A y \in T : x <= y
<1>1. IsWellFoundedOn(OpToRel(<, Nat), Nat)
  BY NatLessThanWellFounded
<1>2. PICK x \in T : \A y \in T : ~ (<<y, x>> \in OpToRel(<, Nat))
  BY <1>1, WFMin
<1>3. \A y \in T : ~ (y < x)
  BY <1>2 DEF OpToRel
<1> QED
  BY <1>3

\* A non-empty finite set of numbers has a greatest element: the smallest of
\* its subsets without one would have one more element than a set that has.
LEMMA NatMaximum ==
  ASSUME NEW S \in SUBSET Nat, S # {}, IsFiniteSet(S)
  PROVE  \E n \in S : \A m \in S : m <= n
<1> DEFINE HasMax(T) == \E n \in T : \A m \in T : m <= n
<1> DEFINE Bad == {T \in SUBSET S : T # {} /\ ~HasMax(T)}
<1> DEFINE Sizes == {k \in Nat : \E T \in Bad : Cardinality(T) = k}
<1>1. ASSUME ~HasMax(S) PROVE FALSE
  <2>1. S \in Bad /\ Cardinality(S) \in Sizes
    BY <1>1, FS_CardinalityType
  <2>2. PICK k \in Sizes : \A l \in Sizes : k <= l
    <3>1. Sizes \in SUBSET Nat /\ Sizes # {}
      BY <2>1
    <3> HIDE DEF Sizes
    <3> QED
      BY <3>1, NatMinimum
  <2>3. PICK T \in Bad : Cardinality(T) = k
    BY <2>2
  <2>4. IsFiniteSet(T)
    BY <2>3, FS_Subset
  <2>5. PICK x \in T : TRUE
    BY <2>3
  <2> DEFINE U == T \ {x}
  <2>6. IsFiniteSet(U) /\ Cardinality(U) = k - 1
    BY <2>3, <2>4, <2>5, FS_RemoveElement
  <2>7. U \in SUBSET S
    BY <2>3
  <2>10. U \notin Bad
    <3>1. k \in Nat /\ Cardinality(U) \in Nat
      BY <2>2, <2>6, FS_CardinalityType
    <3>2. U \in Bad => Cardinality(U) \in Sizes
      BY <3>1
    <3>3. ~(k <= Cardinality(U))
      BY <2>6, <3>1
    <3> HIDE DEF Bad, Sizes, U
    <3> QED
      BY <2>2, <3>2, <3>3
  <2>11. U # {} => HasMax(U)
    BY <2>7, <2>10
  <2>8. CASE U = {}
    <3>1. \A m \in T : m <= x
      BY <2>3, <2>5, <2>8
    <3> QED
      BY <2>3, <2>5, <3>1
  <2>9. CASE U # {}
    <3>1. PICK y \in U : \A m \in U : m <= y
      BY <2>9, <2>11
    <3>2. \A m \in T : m = x \/ m <= y
      BY <3>1
    <3>3. x \in Nat /\ y \in Nat /\ T \in SUBSET Nat /\ y \in T
      BY <2>3, <2>5, <3>1
    <3>4. CASE x <= y
      <4>1. \A m \in T : m <= y
        BY <3>2, <3>3, <3>4
      <4> QED
        BY <2>3, <3>3, <4>1
    <3>5. CASE ~(x <= y)
      <4>1. \A m \in T : m <= x
        BY <3>2, <3>3, <3>5
      <4> QED
        BY <2>3, <2>5, <4>1
    <3> QED
      BY <3>4, <3>5
  <2> QED
    BY <2>8, <2>9
<1> QED
  BY <1>1

LEMMA ProductType ==
  ASSUME NEW a \in Nat, NEW b \in Nat
  PROVE  a * b \in Nat
  OBVIOUS

\* The a-th node's block of v ends before the b-th begins.
LEMMA BlockBelow ==
  ASSUME NEW a \in Nat, NEW b \in Nat, NEW v \in Nat, a < b
  PROVE  a * v + v <= b * v
<1>1. PICK k \in Nat : b = a + 1 + k
  <2>1. b - a - 1 \in Nat /\ b = a + 1 + (b - a - 1)
    OBVIOUS
  <2> QED
    BY <2>1
<1>2. k * v \in Nat /\ a * v \in Nat
  BY ProductType
<1>3. (a + 1 + k) * v = a * v + v + k * v
  OBVIOUS
<1> QED
  BY <1>1, <1>2, <1>3

\* What is in a range.
LEMMA RunMembers ==
  ASSUME NEW f \in Nat, NEW l \in Nat
  PROVE  /\ \A n : n \in Run(f, l) <=> n \in Nat /\ f <= n /\ n < f + l
         /\ IsFiniteSet(Run(f, l))
<1>1. \A n : n \in Run(f, l) <=> n \in Nat /\ f <= n /\ n < f + l
  BY DEF Run
<1>2. Run(f, l) \in SUBSET (f .. f + l) /\ IsFiniteSet(f .. f + l)
  BY FS_Interval DEF Run
<1> QED
  BY <1>1, <1>2, FS_Subset

\* Some address from curr_ip on is free: there are more of them than reserved
\* ones. _get_next_available_ip_suffix finds the first.
LEMMA NextFreeFound ==
  ASSUME curr_ip \in Nat, reserved_ips \in SUBSET Nat, IsFiniteSet(reserved_ips)
  PROVE  NextFree \in Nat /\ curr_ip <= NextFree /\ NextFree \notin reserved_ips
<1> DEFINE k == Cardinality(reserved_ips)
<1> DEFINE Window == curr_ip .. curr_ip + k
<1> DEFINE Free == {n \in Window : n \notin reserved_ips}
<1>1. k \in Nat
  BY FS_CardinalityType
<1>2. Cardinality(Window) = k + 1
  BY <1>1, FS_Interval
<1>3. Free # {}
  <2>1. ~(Window \in SUBSET reserved_ips)
    <3>1. ASSUME Window \in SUBSET reserved_ips PROVE FALSE
      <4>1. Cardinality(Window) <= k
        BY <3>1, FS_Subset
      <4> QED
        BY <1>1, <1>2, <4>1
    <3> QED
      BY <3>1
  <2> QED
    BY <2>1
<1>4. PICK n \in Free : \A m \in Free : n <= m
  <2>1. Free \in SUBSET Nat
    BY <1>1
  <2> QED
    BY <1>3, <2>1, NatMinimum
<1>5. \A m \in curr_ip .. n : m # n => m \in reserved_ips
  BY <1>1, <1>4
<1>6. \E x \in Window : x \notin reserved_ips
        /\ \A m \in curr_ip .. x : m # x => m \in reserved_ips
  BY <1>4, <1>5
<1>7. NextFree \in Window /\ NextFree \notin reserved_ips
  BY <1>6 DEF NextFree
<1> QED
  BY <1>1, <1>7
\* The union of finite sets, one for each collection of a set, is finite.
LEMMA FiniteUnion ==
  ASSUME NEW S \in SUBSET Collections, NEW f, \A c \in S : IsFiniteSet(f[c])
  PROVE  IsFiniteSet(UNION {f[c] : c \in S})
<1> DEFINE g == [c \in S |-> f[c]]
<1> DEFINE T == {f[c] : c \in S}
<1>1. IsFiniteSet(S)
  <2>1. IsFiniteSet(1 .. N)
    BY FS_Interval
  <2> QED
    BY <2>1, FS_Subset DEF Collections
<1>2. g \in Surjection(S, T)
  BY DEF Surjection
<1>3. IsFiniteSet(T)
  BY <1>1, <1>2, FS_Surjection
<1>4. \A x \in T : IsFiniteSet(x)
  OBVIOUS
<1> QED
  BY <1>3, <1>4, FS_UNION

(***************************************************************************)
(* Collections.                                                            *)
(***************************************************************************)
LEMMA DescribedTypes ==
  ASSUME file \in [Collections -> Described], NEW c \in Collections
  PROVE  /\ Nodes(c) \in Nat \ {0} /\ file[c].validators \in Nat \ {0}
         /\ Nodes(c) * file[c].validators \in Nat
         /\ file[c].ip \in Nat \cup {Absent}
         /\ file[c].offset \in Nat \cup {Absent}
         /\ Written(c) \in Nat \cup {Absent}
<1>1. file[c] \in Described
  OBVIOUS
<1>2. /\ file[c].nodes \in (1 .. MaxNodes) \cup {Absent}
      /\ file[c].validators \in 1 .. MaxValidators
      /\ file[c].ip \in Suffixes \cup {Absent}
      /\ file[c].offset \in Offsets \cup {Absent}
  BY <1>1 DEF Described
<1>3. Nodes(c) \in Nat \ {0} /\ file[c].validators \in Nat \ {0}
  BY <1>2 DEF Nodes
<1>4. Written(c) \in Nat \cup {Absent}
  <2>1. FirstPreset + c - 1 \in Nat
    BY DEF Collections
  <2>2. Written(c) = FirstPreset + c - 1 \/ Written(c) = file[c].ip
    BY DEF Written
  <2> QED
    BY <1>2, <2>1, <2>2
<1> QED
  BY <1>2, <1>3, <1>4, ProductType

\* A collection the file places is not moved by the defaults.
LEMMA GivenIsWritten ==
  \A c \in Given : Written(c) = file[c].ip /\ Written(c) # Absent
BY DEF Written, Given

\* What the file says does not change, so neither does what the defaults make of it.
LEMMA WrittenStays ==
  ASSUME file' = file
  PROVE  \A c : Written(c)' = Written(c)
BY DEF Written, Preset

LEMMA ClientTypes ==
  /\ Clients \subseteq Collections /\ UserDefined \subseteq Clients
  /\ Given \subseteq Collections /\ Assigned \subseteq Collections
  /\ AssignedValidators \subseteq Clients
  /\ \A c \in Clients : c \in Nat /\ c >= Generic + 1
  /\ \A c \in Collections : c \in Nat /\ c >= 1 /\ c <= N
BY DEF Clients, Collections, UserDefined, Given, Assigned, AssignedValidators

\* What the pass has not come to yet is as the file says, so it is not assigned.
LEMMA AssignedBefore ==
  ASSUME IInv
  PROVE  /\ \A c \in Assigned : c < i /\ start[c] \in Nat
         /\ \A c \in AssignedValidators : c < i /\ offset[c] \in Nat
         /\ \A c \in Given : start[c] = file[c].ip /\ start[c] \in Nat
         /\ \A c \in UserDefined : offset[c] = file[c].offset /\ offset[c] \in Nat
<1>1. i \in Nat /\ start \in [Collections -> Nat \cup {Absent}]
      /\ offset \in [Collections -> Nat \cup {Absent}]
  BY DEF IInv, TypeOK
<1>2. \A c \in Collections : Written(c) # Absent \/ c >= i => start[c] = Written(c)
  BY DEF IInv, ProgressInv
<1>3. \A c \in Clients : file[c].offset # Absent \/ c >= i => offset[c] = file[c].offset
  BY DEF IInv, ProgressInv
<1>4. \A c \in Assigned : c < i /\ start[c] \in Nat
  BY <1>1, <1>2, ClientTypes DEF Assigned
<1>5. \A c \in AssignedValidators : c < i /\ offset[c] \in Nat
  BY <1>1, <1>3, ClientTypes DEF AssignedValidators
<1>6. \A c \in Given : start[c] = file[c].ip /\ start[c] \in Nat
  BY <1>1, <1>2, ClientTypes, GivenIsWritten
<1>7. \A c \in UserDefined : offset[c] = file[c].offset /\ offset[c] \in Nat
  BY <1>1, <1>3, ClientTypes DEF UserDefined
<1> QED
  BY <1>4, <1>5, <1>6, <1>7
(***************************************************************************)
(* The initial states and the steps.                                       *)
(***************************************************************************)
LEMMA InitStep == Init => IInv
<1> SUFFICES ASSUME Init PROVE IInv
  OBVIOUS
<1>1. file \in [Collections -> Described] /\ at = "find" /\ i = 1
  BY DEF Init
<1>2. \A c \in Collections : start[c] = Written(c) /\ offset[c] = file[c].offset
  BY DEF Init
<1>3. Assigned = {} /\ AssignedValidators = {}
  BY <1>2, ClientTypes DEF Assigned, AssignedValidators
<1>4. /\ start \in [Collections -> Nat \cup {Absent}]
      /\ offset \in [Collections -> Nat \cup {Absent}]
  BY <1>1, DescribedTypes DEF Init
<1>5. TypeOK
  BY <1>1, <1>3, <1>4, FS_EmptySet DEF Init, TypeOK, Steps
<1>6. ProgressInv
  BY <1>1, <1>2, ClientTypes DEF ProgressInv
<1>7. AddressInv /\ ValidatorInv
  BY <1>1, <1>3 DEF AddressInv, ValidatorInv
<1> QED
  BY <1>5, <1>6, <1>7 DEF IInv

\* What TakeAddresses(i) does to the addresses of all collections.
LEMMA AddressesStep ==
  ASSUME IInv, i \in Collections, at \in {"generic", "clients"},
         TakeAddresses(i), file' = file, at' = at, i' = i + 1
  PROVE  /\ start' \in [Collections -> Nat \cup {Absent}]
         /\ reserved_ips' \in SUBSET Nat /\ IsFiniteSet(reserved_ips')
         /\ curr_ip' \in Nat
         /\ \A c \in Assigned' : start'[c] < curr_ip'
         /\ \A c \in Collections :
              /\ Written(c) # Absent \/ c >= i' => start'[c] = Written(c)
              /\ c < i' => start'[c] # Absent
         /\ AddressInv'
<1>1. /\ file \in [Collections -> Described] /\ i \in Nat
      /\ start \in [Collections -> Nat \cup {Absent}]
      /\ reserved_ips \in SUBSET Nat /\ IsFiniteSet(reserved_ips)
      /\ curr_ip \in Nat
      /\ \A c \in Assigned : start[c] < curr_ip
  BY DEF IInv, TypeOK
<1>2. \A c \in Collections :
        /\ Written(c) # Absent \/ c >= i => start[c] = Written(c)
        /\ c < i => start[c] # Absent
  BY DEF IInv, ProgressInv
<1>3. /\ Disjoint(Addresses, Given) /\ \A c \in Given : Addresses(c) \subseteq reserved_ips
      /\ \A c \in Assigned :
           /\ Addresses(c) \subseteq reserved_ips
           /\ \A d \in Assigned : c < d => start[c] + Nodes(c) <= start[d]
           /\ \A d \in Given : start[c] \notin Addresses(d)
  BY DEF IInv, AddressInv
<1>4. CASE start[i] # Absent
  <2>1. UNCHANGED <<start, curr_ip, reserved_ips>>
    BY <1>4 DEF TakeAddresses
  <2>2. Assigned' = Assigned /\ AddressInv'
    BY <2>1, WrittenStays DEF IInv, AddressInv, Assigned, Given, Disjoint,
                              Addresses, Run, Nodes
  <2>3. \A c \in Collections :
          /\ Written(c) # Absent \/ c >= i' => start'[c] = Written(c)
          /\ c < i' => start'[c] # Absent
    BY <1>1, <1>2, <1>4, <2>1, ClientTypes
  <2> QED
    BY <1>1, <2>1, <2>2, <2>3
<1>5. CASE start[i] = Absent
  <2> DEFINE f == NextFree
  <2>1. f \in Nat /\ curr_ip <= f /\ f \notin reserved_ips
    BY <1>1, NextFreeFound
  <2>2. /\ start' = [start EXCEPT ![i] = f] /\ curr_ip' = f + 1
        /\ reserved_ips' = reserved_ips \cup Run(f, Nodes(i))
    BY <1>5 DEF TakeAddresses
  <2> HIDE DEF f
  <2>3. \A c \in Collections : start'[c] = IF c = i THEN f ELSE start[c]
    BY <1>1, <2>2
  <2>4. Written(i) = Absent
    BY <1>1, <1>2, <1>5
  <2>5. Nodes(i) \in Nat \ {0} /\ \A c \in Collections : Nodes(c) \in Nat
    BY <1>1, DescribedTypes
  <2>6. Assigned' = Assigned \cup {i} /\ Given' = Given /\ i \notin Given
    BY <2>1, <2>3, <2>4, GivenIsWritten, WrittenStays DEF Assigned, Given
  <2>7. \A c \in Assigned : c \in Collections /\ c < i /\ c # i /\ start[c] \in Nat
    <3>1. \A c \in Assigned : c \in Collections /\ c < i /\ start[c] \in Nat
      BY AssignedBefore, ClientTypes
    <3> QED
      BY <1>1, <3>1
  <2>8. \A c \in Given : c \in Collections /\ c # i /\ start[c] \in Nat
    BY <2>6, AssignedBefore, ClientTypes
  <2>9. /\ \A c \in Assigned \cup Given : Addresses(c)' = Addresses(c)
        /\ \A c \in Collections : c = i => Addresses(c)' = Run(f, Nodes(c))
    <3>1. \A c \in Collections : Nodes(c)' = Nodes(c)
      BY DEF Nodes
    <3>2. \A c \in Assigned \cup Given : c \in Collections /\ start'[c] = start[c]
      BY <2>3, <2>7, <2>8
    <3>4. \A c \in Collections : Addresses(c)' = Run(start'[c], Nodes(c))
      BY <3>1 DEF Addresses, Run
    <3>5. \A c \in Assigned \cup Given : Addresses(c)' = Addresses(c)
      <4> SUFFICES ASSUME NEW c \in Assigned \cup Given
                   PROVE  Addresses(c)' = Addresses(c)
        OBVIOUS
      <4>1. Addresses(c)' = Run(start[c], Nodes(c))
        BY <3>2, <3>4
      <4> QED
        BY <4>1 DEF Addresses
    <3>6. \A c \in Collections : c = i => Addresses(c)' = Run(f, Nodes(c))
      BY <2>3, <3>4
    <3> QED
      BY <3>5, <3>6
  <2>10. Run(f, Nodes(i)) \in SUBSET Nat /\ IsFiniteSet(Run(f, Nodes(i)))
    BY <2>1, <2>5, RunMembers
  <2>11. /\ start' \in [Collections -> Nat \cup {Absent}]
         /\ reserved_ips' \in SUBSET Nat /\ IsFiniteSet(reserved_ips')
         /\ curr_ip' \in Nat
    <3>1. start' \in [Collections -> Nat \cup {Absent}]
      BY <1>1, <2>1, <2>2
    <3>2. IsFiniteSet(reserved_ips')
      BY <1>1, <2>2, <2>10, FS_Union
    <3>3. reserved_ips' \in SUBSET Nat /\ curr_ip' \in Nat
      <4>1. reserved_ips' \in SUBSET Nat
        BY <1>1, <2>2, <2>10
      <4> QED
        BY <2>1, <2>2, <4>1
    <3> QED
      BY <3>1, <3>2, <3>3
  <2>12. \A c \in Assigned' : start'[c] < curr_ip'
    BY <1>1, <2>1, <2>2, <2>3, <2>6, <2>7
  <2>13. \A c \in Collections :
           /\ Written(c) # Absent \/ c >= i' => start'[c] = Written(c)
           /\ c < i' => start'[c] # Absent
    BY <1>1, <1>2, <2>1, <2>3, <2>4, ClientTypes
  <2>14. Disjoint(Addresses, Given)'
    BY <1>3, <2>6, <2>9 DEF Disjoint
  <2>15. \A c \in Assigned : start[c] + Nodes(c) <= f
    <3> SUFFICES ASSUME NEW c \in Assigned PROVE start[c] + Nodes(c) <= f
      OBVIOUS
    <3>1. start[c] \in Nat /\ start[c] < f /\ Nodes(c) \in Nat
      <4>1. start[c] \in Nat /\ start[c] < curr_ip /\ curr_ip \in Nat
        BY <1>1, <2>7
      <4>2. Nodes(c) \in Nat
        BY <2>5, <2>7
      <4> QED
        BY <2>1, <4>1, <4>2
    <3>2. f \notin Run(start[c], Nodes(c))
      BY <1>3, <2>1 DEF Addresses
    <3>3. f \in Run(start[c], Nodes(c)) <=> f \in Nat /\ start[c] <= f /\ f < start[c] + Nodes(c)
      BY <3>1, RunMembers
    <3> QED
      BY <2>1, <3>1, <3>2, <3>3
  <2>16. \A d \in Given : f \notin Addresses(d)
    BY <1>3, <2>1
  <2>17. \A c \in Assigned' \cup Given' : Addresses(c)' \subseteq reserved_ips'
    <3>1. \A c \in Assigned \cup Given : Addresses(c) \subseteq reserved_ips
      BY <1>3
    <3>2. \A c \in Assigned \cup Given : Addresses(c)' \subseteq reserved_ips'
      BY <2>2, <2>9, <3>1
    <3>3. \A c \in Collections : c = i => Addresses(c)' \subseteq reserved_ips'
      BY <2>2, <2>9
    <3> SUFFICES ASSUME NEW c \in Assigned' \cup Given'
                 PROVE  Addresses(c)' \subseteq reserved_ips'
      OBVIOUS
    <3>4. CASE c = i
      BY <3>3, <3>4
    <3>5. CASE c # i
      BY <2>6, <3>2, <3>5
    <3> QED
      BY <3>4, <3>5
  <2>18. \A c, d \in Assigned' : c < d => start'[c] + Nodes(c)' <= start'[d]
    <3> SUFFICES ASSUME NEW c \in Assigned', NEW d \in Assigned', c < d
                 PROVE  start'[c] + Nodes(c)' <= start'[d]
      OBVIOUS
    <3>1. c \in Assigned
      BY <1>1, <2>6, <2>7, ClientTypes
    <3>2. start'[c] = start[c] /\ Nodes(c)' = Nodes(c)
      <4>1. c \in Collections /\ c # i
        BY <1>1, <2>7, <3>1
      <4> QED
        BY <2>3, <4>1 DEF Nodes
    <3>3. CASE d = i
      BY <2>3, <2>15, <3>1, <3>2, <3>3
    <3>4. CASE d # i
      BY <1>3, <2>3, <2>6, <2>7, <3>1, <3>2, <3>4
    <3> QED
      BY <3>3, <3>4
  <2>19. \A c \in Assigned', d \in Given' : start'[c] \notin Addresses(d)'
    <3>1. \A c \in Assigned : start'[c] = start[c]
      BY <2>3, <2>7
    <3>2. \A c \in Assigned' : \A d \in Given : start'[c] \notin Addresses(d)
      BY <1>3, <2>3, <2>6, <2>16, <3>1
    <3> QED
      BY <2>6, <2>9, <3>2
  <2>20. AddressInv'
    BY <2>14, <2>17, <2>18, <2>19 DEF AddressInv
  <2> QED
    BY <2>11, <2>12, <2>13, <2>20
<1> QED
  BY <1>4, <1>5
\* The validators the file uses are finitely many numbers.
LEMMA UsedNumbers ==
  ASSUME IInv
  PROVE  Used \in SUBSET Nat /\ IsFiniteSet(Used)
<1>1. \A c \in UserDefined : Validators(c) \in SUBSET Nat /\ IsFiniteSet(Validators(c))
  <2> SUFFICES ASSUME NEW c \in UserDefined
               PROVE  Validators(c) \in SUBSET Nat /\ IsFiniteSet(Validators(c))
    OBVIOUS
  <2>1. c \in Collections /\ offset[c] \in Nat
    BY ClientTypes, AssignedBefore
  <2>2. Nodes(c) * file[c].validators \in Nat
    BY <2>1, DescribedTypes DEF IInv, TypeOK
  <2> QED
    BY <2>1, <2>2, RunMembers DEF Validators
<1> DEFINE f == [c \in UserDefined |-> Validators(c)]
<1>2. Used = UNION {f[c] : c \in UserDefined}
  BY DEF Used
<1>3. UserDefined \in SUBSET Collections /\ \A c \in UserDefined : IsFiniteSet(f[c])
  BY <1>1, ClientTypes
<1>4. IsFiniteSet(UNION {f[c] : c \in UserDefined})
  BY <1>3, FiniteUnion
<1> QED
  BY <1>1, <1>2, <1>4 DEF Used

\* What TakeValidators(i) does to the validators of all clients.
LEMMA ValidatorsStep ==
  ASSUME IInv, i \in Clients, at = "clients",
         TakeValidators(i), file' = file, at' = at, i' = i + 1
  PROVE  /\ offset' \in [Collections -> Nat \cup {Absent}]
         /\ curr_validator_ndx' \in Nat
         /\ \A c \in AssignedValidators' :
              offset'[c] + (Nodes(c) * file[c].validators)' <= curr_validator_ndx'
         /\ \A c \in Clients :
              file[c].offset # Absent \/ c >= i' => offset'[c] = file[c].offset
         /\ ValidatorInv'
<1>1. /\ file \in [Collections -> Described] /\ i \in Nat
      /\ offset \in [Collections -> Nat \cup {Absent}]
      /\ curr_validator_ndx \in Nat
      /\ \A c \in AssignedValidators :
           offset[c] + Nodes(c) * file[c].validators <= curr_validator_ndx
  BY DEF IInv, TypeOK
<1>2. \A c \in Clients :
        file[c].offset # Absent \/ c >= i => offset[c] = file[c].offset
  BY DEF IInv, ProgressInv
<1>3. /\ \A v \in Used : v <= curr_validator_ndx
      /\ \A c \in AssignedValidators :
           /\ \A v \in Used : v <= offset[c]
           /\ \A d \in AssignedValidators :
                c < d => offset[c] + Nodes(c) * file[c].validators <= offset[d]
  BY DEF IInv, ValidatorInv
<1>4. \A c \in Collections : /\ Nodes(c)' = Nodes(c)
                             /\ file'[c].validators = file[c].validators
  BY DEF Nodes
<1>5. CASE offset[i] # Absent
  <2>1. UNCHANGED <<offset, curr_validator_ndx>>
    BY <1>5 DEF TakeValidators
  <2>2. AssignedValidators' = AssignedValidators /\ ValidatorInv'
    BY <2>1 DEF IInv, ValidatorInv, AssignedValidators, Used, UserDefined,
                Validators, Run, Nodes
  <2>3. \A c \in Clients :
          file[c].offset # Absent \/ c >= i' => offset'[c] = file[c].offset
    BY <1>1, <1>2, <2>1, ClientTypes
  <2>4. \A c \in AssignedValidators' :
          offset'[c] + (Nodes(c) * file[c].validators)' <= curr_validator_ndx'
    BY <1>1, <1>4, <2>1, <2>2, ClientTypes
  <2> QED
    BY <1>1, <2>1, <2>2, <2>3, <2>4
<1>6. CASE offset[i] = Absent
  <2> DEFINE size(c) == Nodes(c) * file[c].validators
  <2>1. /\ offset' = [offset EXCEPT ![i] = curr_validator_ndx]
        /\ curr_validator_ndx' = curr_validator_ndx + size(i)
    BY <1>6 DEF TakeValidators
  <2>2. \A c \in Clients : c \in Collections /\ c \in Nat
    BY ClientTypes
  <2>3. \A c \in Clients :
          offset'[c] = IF c = i THEN curr_validator_ndx ELSE offset[c]
    BY <1>1, <2>1, <2>2
  <2>4. file[i].offset = Absent
    BY <1>1, <1>2, <1>6
  <2>5. \A c \in Clients : size(c) \in Nat /\ size(c)' = size(c)
    <3>1. \A c \in Clients : size(c) \in Nat
      BY <1>1, <2>2, DescribedTypes
    <3> QED
      BY <1>4, <2>2, <3>1
  <2> HIDE DEF size
  <2>6. \A c \in AssignedValidators : c \in Clients /\ c < i /\ c # i /\ offset[c] \in Nat
    <3>1. \A c \in AssignedValidators : c \in Clients /\ c < i /\ offset[c] \in Nat
      BY AssignedBefore, ClientTypes
    <3> QED
      BY <1>1, <3>1
  <2>7. AssignedValidators' = AssignedValidators \cup {i}
    BY <1>1, <2>3, <2>4 DEF AssignedValidators
  <2>8. UserDefined' = UserDefined /\ \A c \in UserDefined : c # i /\ c \in Clients
    BY <2>4 DEF UserDefined
  <2>9. Used' = Used
    <3>1. \A c \in UserDefined : Validators(c)' = Validators(c)
      BY <1>4, <2>2, <2>3, <2>8 DEF Validators, Run
    <3> QED
      BY <2>8, <3>1 DEF Used
  <2>10. \A c \in AssignedValidators : offset[c] + size(c) <= curr_validator_ndx
    BY <1>1 DEF size
  <2>11. \A c, d \in AssignedValidators : c < d => offset[c] + size(c) <= offset[d]
    BY <1>3 DEF size
  <2>12. offset' \in [Collections -> Nat \cup {Absent}]
    BY <1>1, <2>1
  <2>13. curr_validator_ndx' \in Nat /\ curr_validator_ndx <= curr_validator_ndx'
    BY <1>1, <2>1, <2>5
  <2>14. \A c \in AssignedValidators' : offset'[c] + size(c)' <= curr_validator_ndx'
    <3> SUFFICES ASSUME NEW c \in AssignedValidators'
                 PROVE  offset'[c] + size(c)' <= curr_validator_ndx'
      OBVIOUS
    <3>1. CASE c = i
      BY <1>1, <2>1, <2>3, <2>5, <3>1
    <3>2. CASE c # i
      <4>1. c \in AssignedValidators /\ c \in Clients
        BY <2>6, <2>7, <3>2
      <4>2. offset'[c] = offset[c] /\ offset[c] \in Nat /\ size(c) \in Nat /\ size(c)' = size(c)
        BY <2>3, <2>5, <2>6, <4>1
      <4> QED
        BY <1>1, <2>10, <2>13, <4>1, <4>2
    <3> QED
      BY <3>1, <3>2
  <2>15. \A c \in Clients :
           file[c].offset # Absent \/ c >= i' => offset'[c] = file[c].offset
    BY <1>1, <1>2, <2>2, <2>3, <2>4
  <2>16. \A v \in Used' : v <= curr_validator_ndx'
    <3> SUFFICES ASSUME NEW v \in Used PROVE v <= curr_validator_ndx'
      BY <2>9
    <3>1. v \in Nat /\ v <= curr_validator_ndx
      BY <1>3, UsedNumbers
    <3> QED
      BY <1>1, <2>13, <3>1
  <2>17. \A c \in AssignedValidators' : \A v \in Used' : v <= offset'[c]
    BY <1>3, <2>3, <2>6, <2>7, <2>9
  <2>18. \A c, d \in AssignedValidators' : c < d => offset'[c] + size(c)' <= offset'[d]
    <3> SUFFICES ASSUME NEW c \in AssignedValidators', NEW d \in AssignedValidators', c < d
                 PROVE  offset'[c] + size(c)' <= offset'[d]
      OBVIOUS
    <3>1. c \in AssignedValidators /\ c \in Clients
      <4>1. d \in Nat /\ (d = i \/ d < i)
        BY <1>1, <2>2, <2>6, <2>7
      <4>2. c # i
        BY <1>1, <4>1
      <4> QED
        BY <2>6, <2>7, <4>2
    <3>2. offset'[c] = offset[c] /\ size(c)' = size(c)
      BY <2>3, <2>5, <2>6, <3>1
    <3>3. CASE d = i
      BY <2>3, <2>10, <3>1, <3>2, <3>3
    <3>4. CASE d # i
      BY <2>3, <2>6, <2>7, <2>11, <3>1, <3>2, <3>4
    <3> QED
      BY <3>3, <3>4
  <2>19. ValidatorInv'
    BY <2>16, <2>17, <2>18 DEF ValidatorInv, size
  <2> QED
    BY <2>12, <2>13, <2>14, <2>15, <2>19 DEF size
<1> QED
  BY <1>5, <1>6
LEMMA FindUsedStep ==
  ASSUME IInv, FindUsed
  PROVE  IInv'
<1>1. /\ at = "find" /\ i = 1 /\ at' \in {"generic", "raised"}
      /\ UNCHANGED <<file, i, start, offset, curr_ip, curr_validator_ndx, genesis>>
  BY DEF FindUsed, IInv, ProgressInv
<1>2. Assigned = {} /\ AssignedValidators = {}
  BY <1>1, AssignedBefore, ClientTypes
<1>3. /\ Assigned' = {} /\ AssignedValidators' = {} /\ Given' = Given
      /\ Disjoint(Addresses, Given)' <=> Disjoint(Addresses, Given)
      /\ \A c \in Given : Addresses(c)' = Addresses(c)
  BY <1>1, <1>2, WrittenStays DEF Assigned, AssignedValidators, Given, Disjoint,
                    Addresses, Run, Nodes
<1>4. \A c \in Given : Addresses(c) \in SUBSET Nat /\ IsFiniteSet(Addresses(c))
  <2> SUFFICES ASSUME NEW c \in Given
               PROVE  Addresses(c) \in SUBSET Nat /\ IsFiniteSet(Addresses(c))
    OBVIOUS
  <2>1. c \in Collections /\ start[c] \in Nat
    BY ClientTypes, AssignedBefore
  <2>2. Nodes(c) \in Nat
    BY <2>1, DescribedTypes DEF IInv, TypeOK
  <2> QED
    BY <2>1, <2>2, RunMembers DEF Addresses
<1> DEFINE f == [c \in Given |-> Addresses(c)]
<1> DEFINE All == UNION {Addresses(c) : c \in Given}
<1>5. All \in SUBSET Nat /\ IsFiniteSet(All)
  <2>1. All = UNION {f[c] : c \in Given}
    OBVIOUS
  <2>2. Given \in SUBSET Collections /\ \A c \in Given : IsFiniteSet(f[c])
    BY <1>4, ClientTypes
  <2>3. IsFiniteSet(UNION {f[c] : c \in Given})
    BY <2>2, FiniteUnion
  <2> QED
    BY <1>4, <2>1, <2>3
<1>6. reserved_ips' \in SUBSET Nat /\ IsFiniteSet(reserved_ips')
  <2>1. reserved_ips' = All \/ reserved_ips' = reserved_ips
    BY DEF FindUsed
  <2> QED
    BY <1>5, <2>1 DEF IInv, TypeOK
<1>7. TypeOK'
  BY <1>1, <1>3, <1>6 DEF IInv, TypeOK, Steps
<1>8. ProgressInv'
  BY <1>1, ClientTypes, WrittenStays DEF IInv, ProgressInv
<1>9. AddressInv'
  <2>1. at' = "generic" =>
          Disjoint(Addresses, Given) /\ \A c \in Given : Addresses(c) \subseteq reserved_ips'
    BY DEF FindUsed
  <2> QED
    BY <1>1, <1>3, <2>1 DEF AddressInv
<1>10. ValidatorInv'
  BY <1>1, <1>3 DEF ValidatorInv
<1> QED
  BY <1>7, <1>8, <1>9, <1>10 DEF IInv

LEMMA PopulateGenericStep ==
  ASSUME IInv, PopulateGeneric
  PROVE  IInv'
<1>1. /\ at = "generic" /\ i <= Generic /\ TakeAddresses(i) /\ i' = i + 1
      /\ UNCHANGED <<file, at, offset, curr_validator_ndx, genesis>>
  BY DEF PopulateGeneric
<1>2. i \in 1 .. N + 1 /\ i \in Collections
  BY <1>1 DEF IInv, TypeOK, Collections
<1>3. /\ start' \in [Collections -> Nat \cup {Absent}]
      /\ reserved_ips' \in SUBSET Nat /\ IsFiniteSet(reserved_ips')
      /\ curr_ip' \in Nat
      /\ \A c \in Assigned' : start'[c] < curr_ip'
      /\ \A c \in Collections :
           /\ Written(c) # Absent \/ c >= i' => start'[c] = Written(c)
           /\ c < i' => start'[c] # Absent
      /\ AddressInv'
  BY <1>1, <1>2, AddressesStep
<1>4. AssignedValidators' = AssignedValidators /\ ValidatorInv'
  BY <1>1 DEF IInv, ValidatorInv, AssignedValidators, Used, UserDefined,
              Validators, Run, Nodes
<1>5. \A c \in AssignedValidators' :
        offset'[c] + (Nodes(c) * file[c].validators)' <= curr_validator_ndx'
  BY <1>1, <1>4 DEF IInv, TypeOK, Nodes
<1>6. i' \in 1 .. N + 1
  BY <1>1, <1>2
<1>7. TypeOK'
  BY <1>1, <1>3, <1>5, <1>6 DEF IInv, TypeOK
<1>8. \A c \in Clients :
        file[c].offset # Absent \/ c >= i' => offset'[c] = file[c].offset
  BY <1>1, <1>2, ClientTypes DEF IInv, ProgressInv
<1>9. ProgressInv'
  BY <1>1, <1>2, <1>3, <1>8, WrittenStays DEF ProgressInv
<1> QED
  BY <1>3, <1>4, <1>7, <1>9 DEF IInv

LEMMA ReserveValidatorsStep ==
  ASSUME IInv, ReserveValidators
  PROVE  IInv'
<1>1. /\ at = "generic" /\ i = Generic + 1 /\ at' \in {"raised", "clients"}
      /\ UNCHANGED <<file, i, start, offset, reserved_ips, curr_ip, genesis>>
  BY DEF ReserveValidators
<1>2. AssignedValidators = {}
  BY <1>1, AssignedBefore, ClientTypes
<1>3. AssignedValidators' = {} /\ Assigned' = Assigned /\ Used' = Used /\ AddressInv'
  BY <1>1, <1>2, WrittenStays
     DEF IInv, AddressInv, Assigned, AssignedValidators, Given, Disjoint, Addresses,
         Used, UserDefined, Validators, Run, Nodes
<1>4. /\ curr_validator_ndx' \in Nat
      /\ at' = "clients" => \A v \in Used : v <= curr_validator_ndx'
  <2>1. CASE at' = "raised"
    <3>1. curr_validator_ndx' = curr_validator_ndx
      BY <2>1 DEF ReserveValidators
    <3> QED
      BY <2>1, <3>1 DEF IInv, TypeOK
  <2>2. CASE at' = "clients"
    <3>1. curr_validator_ndx' =
            IF Used = {} THEN 0 ELSE CHOOSE n \in Used : \A m \in Used : m <= n
      BY <2>2 DEF ReserveValidators
    <3>2. CASE Used = {}
      BY <3>1, <3>2
    <3>3. CASE Used # {}
      <4>1. \E n \in Used : \A m \in Used : m <= n
        BY <3>3, UsedNumbers, NatMaximum
      <4>2. curr_validator_ndx' \in Used /\ \A m \in Used : m <= curr_validator_ndx'
        BY <3>1, <3>3, <4>1
      <4> QED
        BY <4>2, UsedNumbers
    <3> QED
      BY <3>2, <3>3
  <2> QED
    BY <1>1, <2>1, <2>2
<1>5. TypeOK'
  BY <1>1, <1>3, <1>4 DEF IInv, TypeOK, Steps
<1>6. ProgressInv'
  BY <1>1, WrittenStays DEF IInv, TypeOK, ProgressInv
<1>7. ValidatorInv'
  BY <1>1, <1>3, <1>4 DEF ValidatorInv
<1> QED
  BY <1>3, <1>5, <1>6, <1>7 DEF IInv

LEMMA PopulateClientStep ==
  ASSUME IInv, PopulateClient
  PROVE  IInv'
<1>1. /\ at = "clients" /\ i <= N /\ TakeValidators(i) /\ TakeAddresses(i)
      /\ i' = i + 1 /\ UNCHANGED <<file, at, genesis>>
  BY DEF PopulateClient
<1>2. i \in 1 .. N + 1 /\ i \in Clients /\ i \in Collections
  BY <1>1 DEF IInv, TypeOK, ProgressInv, Collections, Clients
<1>3. /\ start' \in [Collections -> Nat \cup {Absent}]
      /\ reserved_ips' \in SUBSET Nat /\ IsFiniteSet(reserved_ips')
      /\ curr_ip' \in Nat
      /\ \A c \in Assigned' : start'[c] < curr_ip'
      /\ \A c \in Collections :
           /\ Written(c) # Absent \/ c >= i' => start'[c] = Written(c)
           /\ c < i' => start'[c] # Absent
      /\ AddressInv'
  BY <1>1, <1>2, AddressesStep
<1>4. /\ offset' \in [Collections -> Nat \cup {Absent}]
      /\ curr_validator_ndx' \in Nat
      /\ \A c \in AssignedValidators' :
           offset'[c] + (Nodes(c) * file[c].validators)' <= curr_validator_ndx'
      /\ \A c \in Clients :
           file[c].offset # Absent \/ c >= i' => offset'[c] = file[c].offset
      /\ ValidatorInv'
  BY <1>1, <1>2, ValidatorsStep
<1>5. i' \in 1 .. N + 1 /\ i' >= Generic + 1
  BY <1>1, <1>2, ClientTypes
<1>6. TypeOK'
  BY <1>1, <1>3, <1>4, <1>5 DEF IInv, TypeOK
<1>7. ProgressInv'
  BY <1>1, <1>3, <1>4, <1>5, WrittenStays DEF ProgressInv
<1> QED
  BY <1>3, <1>4, <1>6, <1>7 DEF IInv

LEMMA PopulateTestnetStep ==
  ASSUME IInv, PopulateTestnet
  PROVE  IInv'
<1>1. /\ at = "clients" /\ i = N + 1 /\ at' = "done"
      /\ genesis' = curr_validator_ndx
      /\ UNCHANGED <<file, i, start, offset, reserved_ips, curr_ip, curr_validator_ndx>>
  BY DEF PopulateTestnet
<1>2. /\ Assigned' = Assigned /\ AssignedValidators' = AssignedValidators
      /\ Given' = Given /\ Used' = Used
      /\ \A c \in Collections : Addresses(c)' = Addresses(c) /\ Nodes(c)' = Nodes(c)
      /\ Disjoint(Addresses, Given)' <=> Disjoint(Addresses, Given)
  BY <1>1, WrittenStays
     DEF Assigned, AssignedValidators, Given, Disjoint, Addresses, Used,
         UserDefined, Validators, Run, Nodes
<1>3. TypeOK'
  BY <1>1, <1>2, ClientTypes DEF IInv, TypeOK, Steps
<1>4. ProgressInv'
  BY <1>1, WrittenStays DEF IInv, ProgressInv
<1>5. AddressInv'
  BY <1>1, <1>2, ClientTypes DEF IInv, AddressInv
<1>6. ValidatorInv'
  BY <1>1, <1>2, ClientTypes DEF IInv, ValidatorInv
<1> QED
  BY <1>3, <1>4, <1>5, <1>6 DEF IInv

LEMMA InductiveStep == IInv /\ [Next]_vars => IInv'
<1> SUFFICES ASSUME IInv, [Next]_vars PROVE IInv'
  OBVIOUS
<1>1. CASE UNCHANGED vars
  BY <1>1, WrittenStays
     DEF vars, IInv, TypeOK, ProgressInv, AddressInv, ValidatorInv, Assigned,
         AssignedValidators, Given, Disjoint, Addresses, Used, UserDefined,
         Validators, Run, Nodes
<1>2. CASE Next
  BY <1>2, FindUsedStep, PopulateGenericStep, ReserveValidatorsStep,
     PopulateClientStep, PopulateTestnetStep DEF Next
<1> QED
  BY <1>1, <1>2
(***************************************************************************)
(* The theorems.                                                           *)
(***************************************************************************)
\* _populate_config_with_defaults keeps what the file says, and hands out
\* addresses and validators in growing order, none of them reserved.
THEOREM InductiveInvariant == Spec => []IInv
<1> QED
  BY InitStep, InductiveStep, PTL DEF Spec

\* The variables of the pass always have values of their types, and what is
\* assigned lies below the counters.
THEOREM TypeCorrect == Spec => []TypeOK
<1>1. IInv => TypeOK
  BY DEF IInv
<1> QED
  BY <1>1, InductiveInvariant, PTL

\* Two collections without a start-ip-address never share an address, whatever
\* the sizes and wherever the reserved addresses lie.
THEOREM AddressesAssignedOnce == Spec => []AssignedAddressesDisjoint
<1>1. IInv => AssignedAddressesDisjoint
  <2> SUFFICES ASSUME IInv, NEW c \in Assigned, NEW d \in Assigned, c # d
               PROVE  Addresses(c) \cap Addresses(d) = {}
    BY DEF AssignedAddressesDisjoint, Disjoint
  <2>1. \A x, y \in Assigned : x < y => start[x] + Nodes(x) <= start[y]
    BY DEF IInv, AddressInv
  <2>2. \A x \in Assigned : x \in Nat /\ start[x] \in Nat /\ Nodes(x) \in Nat
    BY AssignedBefore, ClientTypes, DescribedTypes DEF IInv, TypeOK
  <2>3. \A x \in Assigned : \A n : n \in Addresses(x) <=>
          n \in Nat /\ start[x] <= n /\ n < start[x] + Nodes(x)
    BY <2>2, RunMembers DEF Addresses
  <2>4. CASE c < d
    BY <2>1, <2>2, <2>3, <2>4
  <2>5. CASE d < c
    BY <2>1, <2>2, <2>3, <2>5
  <2> QED
    BY <2>2, <2>4, <2>5
<1> QED
  BY <1>1, InductiveInvariant, PTL

\* Two ranges meet only where the later one begins within the earlier one.
LEMMA RunsMeet ==
  ASSUME NEW a \in Nat, NEW k \in Nat, NEW b \in Nat, NEW l \in Nat,
         Run(a, k) \cap Run(b, l) # {}, a \notin Run(b, l)
  PROVE  a < b
<1>1. PICK n : n \in Run(a, k) /\ n \in Run(b, l)
  OBVIOUS
<1>2. n \in Nat /\ a <= n /\ n < b + l
  BY <1>1, RunMembers
<1>3. ~(b <= a /\ a < b + l)
  BY RunMembers
<1> QED
  BY <1>2, <1>3

\* When the pass is over two collections have no address in common, except for one
\* of the defaults that nothing reserves, and for an assigned collection of several
\* nodes that runs into one the file places above it.
THEOREM OverlapsAreKnown == Spec => []NoOtherOverlap
<1>1. IInv /\ AssignedAddressesDisjoint => NoOtherOverlap
  <2> DEFINE Reserved == Collections \ Unreserved
  <2> SUFFICES ASSUME IInv, AssignedAddressesDisjoint, at = "done",
                      NEW c \in Reserved, NEW d \in Reserved, c # d
               PROVE  \/ Addresses(c) \cap Addresses(d) = {}
                      \/ RunsInto(c, d) \/ RunsInto(d, c)
    BY DEF NoOtherOverlap
  <2>1. \A x \in Reserved : x \in Given \/ x \in Assigned
    <3> SUFFICES ASSUME NEW x \in Reserved, x \notin Given PROVE x \in Assigned
      OBVIOUS
    <3>1. x \in Collections /\ start[x] # Absent
      BY ClientTypes DEF IInv, TypeOK, ProgressInv
    <3>2. file[x].ip = Absent /\ x \notin Preset
      BY <3>1 DEF Given, Unreserved
    <3>3. Written(x) = Absent
      BY <3>2 DEF Written
    <3> QED
      BY <3>1, <3>3 DEF Assigned
  <2>2. ASSUME NEW x \in Assigned, NEW y \in Given, Addresses(x) \cap Addresses(y) # {}
        PROVE  RunsInto(x, y)
    <3>1. start[x] \in Nat /\ start[y] \in Nat
      BY AssignedBefore
    <3>2. Nodes(x) \in Nat /\ Nodes(y) \in Nat
      BY ClientTypes, DescribedTypes DEF IInv, TypeOK
    <3>3. start[x] \notin Addresses(y)
      BY DEF IInv, AddressInv
    <3>4. start[x] < start[y]
      BY <2>2, <3>1, <3>2, <3>3, RunsMeet DEF Addresses
    <3> QED
      BY <3>4 DEF RunsInto
  <2>3. CASE c \in Given /\ d \in Given
    BY <2>3 DEF IInv, AddressInv, Disjoint
  <2>4. CASE c \in Assigned /\ d \in Assigned
    BY <2>4 DEF AssignedAddressesDisjoint, Disjoint
  <2>5. CASE c \in Assigned /\ d \in Given
    BY <2>2, <2>5
  <2>6. CASE c \in Given /\ d \in Assigned
    BY <2>2, <2>6
  <2> QED
    BY <2>1, <2>3, <2>4, <2>5, <2>6
<1> QED
  BY <1>1, InductiveInvariant, AddressesAssignedOnce, PTL

\* The validators of a client that gives none to itself, as numbers.
LEMMA AssignedRange ==
  ASSUME IInv, NEW c \in AssignedValidators
  PROVE  /\ offset[c] \in Nat /\ Nodes(c) * file[c].validators \in Nat
         /\ \A v : v \in Validators(c) <=>
              v \in Nat /\ offset[c] <= v /\ v < offset[c] + Nodes(c) * file[c].validators
<1>1. c \in Collections /\ offset[c] \in Nat
  BY AssignedBefore, ClientTypes
<1>2. Nodes(c) * file[c].validators \in Nat
  BY <1>1, DescribedTypes DEF IInv, TypeOK
<1> QED
  BY <1>1, <1>2, RunMembers DEF Validators

\* The keystores of a node are some of its client's validators, and those of
\* two nodes are different ones.
LEMMA KeystoresSplit ==
  ASSUME IInv, NEW c \in AssignedValidators, NEW n \in 0 .. Nodes(c) - 1
  PROVE  /\ Keystores(c, n) \subseteq Validators(c)
         /\ \A m \in 0 .. Nodes(c) - 1 :
              n # m => Keystores(c, n) \cap Keystores(c, m) = {}
<1> DEFINE s == file[c].validators
<1>1. c \in Collections /\ offset[c] \in Nat
  BY AssignedBefore, ClientTypes
<1>2. Nodes(c) \in Nat /\ s \in Nat
  BY <1>1, DescribedTypes DEF IInv, TypeOK
<1>3. n \in Nat /\ n < Nodes(c)
  BY <1>2
<1>4. \A m \in Nat : m * s \in Nat
  BY <1>2, ProductType
<1> DEFINE In(m) == \A v : v \in Keystores(c, m) <=>
             v \in Nat /\ offset[c] + m * s <= v /\ v < offset[c] + m * s + s
<1>5. \A m \in Nat : In(m)
  <2> SUFFICES ASSUME NEW m \in Nat PROVE In(m)
    OBVIOUS
  <2>1. offset[c] + m * s \in Nat
    BY <1>1, <1>4
  <2> QED
    BY <1>2, <2>1, RunMembers DEF Keystores
<1>6. Keystores(c, n) \subseteq Validators(c)
  <2>1. n * s + s <= Nodes(c) * s
    BY <1>2, <1>3, BlockBelow
  <2>2. SUFFICES ASSUME NEW v \in Keystores(c, n) PROVE v \in Validators(c)
    OBVIOUS
  <2>3. n * s \in Nat /\ Nodes(c) * s \in Nat
    BY <1>2, <1>3, <1>4
  <2>4. v \in Nat /\ offset[c] + n * s <= v /\ v < offset[c] + n * s + s
    BY <1>3, <1>5
  <2>5. offset[c] <= v /\ v < offset[c] + Nodes(c) * s
    <3> HIDE DEF s
    <3> DEFINE a == n * s
    <3> DEFINE b == Nodes(c) * s
    <3>1. a \in Nat /\ b \in Nat /\ a + s <= b /\ offset[c] + a <= v /\ v < offset[c] + a + s
      BY <2>1, <2>3, <2>4
    <3> HIDE DEF a, b
    <3>2. offset[c] <= v /\ v < offset[c] + b
      BY <1>1, <1>2, <2>4, <3>1
    <3> QED
      BY <3>2 DEF b
  <2> QED
    BY <2>4, <2>5, AssignedRange
<1>7. ASSUME NEW a \in Nat, NEW b \in Nat, a < b
      PROVE  Keystores(c, a) \cap Keystores(c, b) = {}
  <2>1. a * s + s <= b * s
    BY <1>2, <1>7, BlockBelow
  <2>2. SUFFICES ASSUME NEW v \in Keystores(c, a), v \in Keystores(c, b) PROVE FALSE
    OBVIOUS
  <2>3. v \in Nat /\ v < offset[c] + a * s + s /\ offset[c] + b * s <= v
    BY <1>5, <2>2
  <2>4. a * s \in Nat /\ b * s \in Nat
    BY <1>4
  <2> DEFINE x == a * s
  <2> DEFINE y == b * s
  <2>5. x \in Nat /\ y \in Nat /\ x + s <= y /\ v < offset[c] + x + s /\ offset[c] + y <= v
    BY <2>1, <2>3, <2>4
  <2> HIDE DEF x, y, s
  <2> QED
    BY <1>1, <1>2, <2>3, <2>5
<1>8. \A m \in 0 .. Nodes(c) - 1 :
        n # m => Keystores(c, n) \cap Keystores(c, m) = {}
  <2> SUFFICES ASSUME NEW m \in 0 .. Nodes(c) - 1, n # m
               PROVE  Keystores(c, n) \cap Keystores(c, m) = {}
    OBVIOUS
  <2>1. m \in Nat /\ (n < m \/ m < n)
    BY <1>2, <1>3
  <2> QED
    BY <1>3, <1>7, <2>1
<1> QED
  BY <1>6, <1>8

LEMMA AssignedApart ==
  ASSUME IInv, NEW c \in AssignedValidators, NEW d \in AssignedValidators, c < d
  PROVE  Validators(c) \cap Validators(d) = {}
<1>1. offset[c] + Nodes(c) * file[c].validators <= offset[d]
  BY DEF IInv, ValidatorInv
<1>2. /\ offset[c] \in Nat /\ offset[d] \in Nat
      /\ Nodes(c) * file[c].validators \in Nat
      /\ \A v \in Validators(c) : v \in Nat /\ v < offset[c] + Nodes(c) * file[c].validators
      /\ \A v \in Validators(d) : v \in Nat /\ offset[d] <= v
  BY AssignedRange
<1> QED
  BY <1>1, <1>2

\* No key is in the keystores of two nodes, and the genesis has all validators
\* that are assigned.
THEOREM NobodyIsSlashed == Spec => []AssignedValidatorsDisjoint
<1>1. IInv => AssignedValidatorsDisjoint
  <2> SUFFICES ASSUME IInv, NEW c \in AssignedValidators, NEW d \in AssignedValidators,
                      NEW n \in 0 .. Nodes(c) - 1, NEW m \in 0 .. Nodes(d) - 1
               PROVE  /\ <<c, n>> # <<d, m>> => Keystores(c, n) \cap Keystores(d, m) = {}
                      /\ at = "done" => Keystores(c, n) \subseteq 0 .. genesis - 1
    BY DEF AssignedValidatorsDisjoint
  <2>1. /\ Keystores(c, n) \subseteq Validators(c)
        /\ Keystores(d, m) \subseteq Validators(d)
    BY KeystoresSplit
  <2>2. ASSUME <<c, n>> # <<d, m>> PROVE Keystores(c, n) \cap Keystores(d, m) = {}
    <3>1. c \in Nat /\ d \in Nat
      BY ClientTypes
    <3>2. CASE c = d
      <4>1. n # m /\ m \in 0 .. Nodes(c) - 1
        BY <2>2, <3>2
      <4> QED
        BY <3>2, <4>1, KeystoresSplit
    <3>3. CASE c # d
      <4>1. c < d \/ d < c
        BY <3>1, <3>3
      <4>2. Validators(c) \cap Validators(d) = {}
        BY <4>1, AssignedApart
      <4> QED
        BY <2>1, <4>2
    <3> QED
      BY <3>2, <3>3
  <2>3. ASSUME at = "done" PROVE Keystores(c, n) \subseteq 0 .. genesis - 1
    <3>1. genesis = curr_validator_ndx /\ genesis \in Nat
      BY <2>3 DEF IInv, TypeOK, ValidatorInv
    <3>2. offset[c] + Nodes(c) * file[c].validators <= genesis
      BY <3>1 DEF IInv, TypeOK
    <3>3. /\ offset[c] \in Nat /\ Nodes(c) * file[c].validators \in Nat
          /\ \A v \in Validators(c) : v \in Nat /\ v < offset[c] + Nodes(c) * file[c].validators
      BY AssignedRange
    <3> QED
      BY <2>1, <3>1, <3>2, <3>3
  <2> QED
    BY <2>2, <2>3
<1> QED
  BY <1>1, InductiveInvariant, PTL

\* A client that leaves its validators to the program shares at most one with
\* any client that does not, however many these have.
THEOREM SharedAtMostOnce == Spec => []AtMostOneShared
<1>1. IInv => AtMostOneShared
  <2> SUFFICES ASSUME IInv, NEW c \in AssignedValidators, NEW d \in UserDefined
               PROVE  Cardinality(Validators(c) \cap Validators(d)) <= 1
    BY DEF AtMostOneShared
  <2> DEFINE Both == Validators(c) \cap Validators(d)
  <2>1. \A v \in Both : v = offset[c]
    <3> SUFFICES ASSUME NEW v \in Both PROVE v = offset[c]
      OBVIOUS
    <3>1. v \in Used
      BY DEF Used
    <3>2. v <= offset[c]
      BY <3>1 DEF IInv, ValidatorInv
    <3>3. v \in Nat /\ offset[c] \in Nat /\ offset[c] <= v
      BY AssignedRange
    <3> QED
      BY <3>2, <3>3
  <2>2. Both \in SUBSET {offset[c]}
    BY <2>1
  <2>3. IsFiniteSet({offset[c]}) /\ Cardinality({offset[c]}) = 1
    BY FS_Singleton
  <2>4. Cardinality(Both) <= Cardinality({offset[c]})
    BY <2>2, <2>3, FS_Subset
  <2> QED
    BY <2>3, <2>4
<1> QED
  BY <1>1, InductiveInvariant, PTL
=============================================================================
