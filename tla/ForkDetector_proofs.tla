-------------------------- MODULE ForkDetector_proofs --------------------------
(***************************************************************************)
(* TLAPS proofs about ForkDetector, for any number of clients, any window  *)
(* and any tree of blocks.                                                 *)
(***************************************************************************)
EXTENDS ForkDetector, FiniteSetTheorems, SequenceTheorems,
        WellFoundedInduction, TLAPS

USE DetectorAssumption

(***************************************************************************)
(* Numbers: the two forms of induction that the proofs use.                *)
(***************************************************************************)
\* A non-empty set of numbers has a least element.
LEMMA NatMinimum ==
  ASSUME NEW T \in SUBSET Nat, T # {}
  PROVE  \E x \in T : \A y \in T : x <= y
<1>1. IsWellFoundedOn(OpToRel(<, Nat), Nat)
  BY NatLessThanWellFounded
<1>2. PICK x \in T : \A y \in T : ~ (<<y, x>> \in OpToRel(<, Nat))
  BY <1>1, WFMin
<1>3. \A y \in T : ~ (y < x)
  BY <1>2 DEF OpToRel
<1> QED
  BY <1>3

\* Induction over the numbers up to m, with a set for the property.
LEMMA UpTo ==
  ASSUME NEW m \in Nat, NEW G, 0 \in G,
         \A n \in 1 .. m : n - 1 \in G => n \in G
  PROVE  0 .. m \subseteq G
<1> DEFINE T == {n \in 0 .. m : n \notin G}
<1>1. ASSUME T # {} PROVE FALSE
  <2>1. T \in SUBSET Nat
    OBVIOUS
  <2>2. PICK x \in T : \A y \in T : x <= y
    BY <1>1, <2>1, NatMinimum
  <2>3. x \in 1 .. m /\ x - 1 \in 0 .. m /\ ~(x <= x - 1)
    BY <2>2
  <2> QED
    BY <2>2, <2>3
<1> QED
  BY <1>1

\* A non-empty set of numbers up to m has a greatest element.
LEMMA MaxUpTo ==
  ASSUME NEW m \in Nat, NEW S \in SUBSET (0 .. m), S # {}
  PROVE  \E x \in S : \A y \in S : y <= x
<1> DEFINE T == {n \in 0 .. m : m - n \in S}
<1>1. T \in SUBSET Nat
  OBVIOUS
<1>2. T # {}
  <2>1. PICK y \in S : TRUE
    OBVIOUS
  <2>2. y \in 0 .. m /\ m - y \in 0 .. m /\ m - (m - y) = y
    BY <2>1
  <2> QED
    BY <2>1, <2>2
<1>3. PICK n \in T : \A k \in T : n <= k
  BY <1>1, <1>2, NatMinimum
<1>4. ASSUME NEW y \in S PROVE y <= m - n
  <2>1. y \in 0 .. m /\ m - y \in 0 .. m /\ m - (m - y) = y
    OBVIOUS
  <2>2. m - y \in T
    BY <2>1
  <2>3. n <= m - y /\ n \in 0 .. m
    BY <1>3, <2>2
  <2> QED
    BY <2>1, <2>3
<1> QED
  BY <1>3, <1>4
-----------------------------------------------------------------------------
(***************************************************************************)
(* The tree: a block's line is closed under parents, and it is the         *)
(* smallest such set.                                                      *)
(***************************************************************************)
Nodes == 0 .. Len(tree)
Closed(S) == \A y \in S \ {0} : tree[y] \in S
Tree == tree \in Seq(Nat) /\ \A b \in 1 .. Len(tree) : tree[b] \in 0 .. b - 1

\* A block and its parent.
LEMMA Parents ==
  ASSUME Tree
  PROVE  /\ Len(tree) \in Nat
         /\ \A x \in Nodes \ {0} : tree[x] \in Nodes /\ tree[x] < x
<1>1. Len(tree) \in Nat
  BY DEF Tree
<1>2. \A x \in Nodes \ {0} : x \in 1 .. Len(tree)
  BY <1>1 DEF Nodes
<1> QED
  BY <1>1, <1>2 DEF Tree, Nodes

\* Every closed set that has a block has its line.
LEMMA LineLeast ==
  ASSUME NEW b, NEW S \in SUBSET Nodes, b \in S, Closed(S)
  PROVE  Line(b) \subseteq S
  BY DEF Line, Nodes, Closed

LEMMA LineClosed ==
  ASSUME Tree, NEW b \in Nodes
  PROVE  Line(b) \in SUBSET Nodes /\ b \in Line(b) /\ Closed(Line(b))
<1>1. Line(b) \in SUBSET Nodes /\ b \in Line(b)
  BY DEF Line, Nodes
<1>2. ASSUME NEW y \in Line(b) \ {0} PROVE tree[y] \in Line(b)
  <2>1. y \in Nodes \ {0}
    BY <1>1
  <2>2. tree[y] \in Nodes
    BY <2>1, Parents
  <2> QED
    BY <2>2 DEF Line, Nodes
<1> QED
  BY <1>1, <1>2 DEF Closed

\* The ancestors of an ancestor are ancestors.
LEMMA LineTransitive ==
  ASSUME Tree, NEW b \in Nodes, NEW a \in Line(b)
  PROVE  Line(a) \subseteq Line(b)
  BY LineClosed, LineLeast

\* Ancestors have smaller numbers.
LEMMA LineBelow ==
  ASSUME Tree, NEW b \in Nodes, NEW a \in Line(b)
  PROVE  a \in Nodes /\ a <= b
<1> DEFINE S == 0 .. b
<1>1. S \in SUBSET Nodes /\ b \in S
  BY Parents DEF Nodes
<1>2. Closed(S)
  <2>1. ASSUME NEW y \in S \ {0} PROVE tree[y] \in S
    <3>1. y \in Nodes \ {0} /\ y <= b /\ b \in Nat
      BY <1>1 DEF Nodes
    <3>2. tree[y] \in Nodes /\ tree[y] < y
      BY <3>1, Parents
    <3> QED
      BY <3>1, <3>2, Parents DEF Nodes
  <2> QED
    BY <2>1 DEF Closed
<1>3. Line(b) \subseteq S
  BY <1>1, <1>2, LineLeast
<1> QED
  BY <1>1, <1>3 DEF Nodes

\* A line has no branches: of two ancestors one is an ancestor of the other.
LEMMA LineLinear ==
  ASSUME Tree, NEW b \in Nodes, NEW x \in Line(b), NEW y \in Line(b)
  PROVE  x \in Line(y) \/ y \in Line(x)
<1> DEFINE S == {z \in Line(b) : y \in Line(z) \/ z \in Line(y)}
<1>1. S \in SUBSET Nodes /\ b \in S
  BY LineClosed
<1>2. y \in Nodes
  BY LineClosed
<1>3. Closed(S)
  <2>1. ASSUME NEW z \in S \ {0} PROVE tree[z] \in S
    <3>1. z \in Line(b) \ {0} /\ z \in Nodes
      BY <1>1
    <3>2. tree[z] \in Line(b) /\ tree[z] \in Nodes
      BY <3>1, LineClosed DEF Closed
    <3>3. CASE z \in Line(y)
      <4>1. tree[z] \in Line(y)
        BY <1>2, <3>1, <3>3, LineClosed DEF Closed
      <4> QED
        BY <3>2, <4>1
    <3>4. CASE y \in Line(z) /\ y # z
      <4> DEFINE U == {z} \cup Line(tree[z])
      <4>1. Line(tree[z]) \in SUBSET Nodes /\ tree[z] \in Line(tree[z])
            /\ Closed(Line(tree[z]))
        BY <3>2, LineClosed
      <4>2. U \in SUBSET Nodes /\ z \in U
        BY <3>1, <4>1
      <4>3. Closed(U)
        BY <4>1 DEF Closed
      <4>4. Line(z) \subseteq U
        BY <4>2, <4>3, LineLeast
      <4>5. y \in Line(tree[z])
        BY <3>4, <4>4
      <4> QED
        BY <3>2, <4>5
    <3>5. CASE y = z
      BY <3>3, <3>5, LineClosed, <1>2
    <3> QED
      BY <3>3, <3>4, <3>5
  <2> QED
    BY <2>1 DEF Closed
<1>4. Line(b) \subseteq S
  BY <1>1, <1>3, LineLeast
<1> QED
  BY <1>4
-----------------------------------------------------------------------------
(***************************************************************************)
(* Chains: what was fetched is a part of a line, latest parent first.      *)
(***************************************************************************)
IsLine(ch) ==
  /\ ch \in Seq(Nodes) /\ Len(ch) \in Nat \ {0}
  /\ \A i \in 1 .. Len(ch) - 1 : ch[i] # 0 /\ ch[i + 1] = tree[ch[i]]

\* Nothing more is asked for a chain that is long enough or ends at genesis.
Complete(ch) == Len(ch) <= Window /\ (Len(ch) = Window \/ Last(ch) = 0)

LEMMA ElementsOf ==
  ASSUME NEW ch, IsLine(ch)
  PROVE  /\ Head(ch) = ch[1] /\ Last(ch) = ch[Len(ch)]
         /\ \A i \in 1 .. Len(ch) : ch[i] \in Nodes
         /\ \A x : x \in ToSet(ch) <=> \E i \in 1 .. Len(ch) : x = ch[i]
<1>1. DOMAIN ch = 1 .. Len(ch) /\ \A i \in 1 .. Len(ch) : ch[i] \in Nodes
  BY DEF IsLine
<1>2. Head(ch) = ch[1]
  BY DEF IsLine
<1> QED
  BY <1>1, <1>2 DEF ToSet, Last

\* All of a chain is on the line of its latest parent.
LEMMA ChainOnLine ==
  ASSUME Tree, NEW ch, IsLine(ch)
  PROVE  ToSet(ch) \subseteq Line(Head(ch))
<1> DEFINE G == {n \in 0 .. Len(ch) - 1 : ch[n + 1] \in Line(ch[1])}
<1>1. Len(ch) - 1 \in Nat /\ ch[1] \in Nodes
  BY ElementsOf DEF IsLine
<1>2. 0 \in G
  BY <1>1, LineClosed
<1>3. ASSUME NEW n \in 1 .. Len(ch) - 1, n - 1 \in G PROVE n \in G
  <2>1. ch[n] \in Line(ch[1]) \ {0} /\ ch[n + 1] = tree[ch[n]]
    <3>1. (n - 1) + 1 = n
      OBVIOUS
    <3> QED
      BY <1>3, <3>1 DEF IsLine
  <2>2. ch[n + 1] \in Line(ch[1])
    BY <1>1, <2>1, LineClosed DEF Closed
  <2> QED
    BY <1>1, <2>2
<1>4. 0 .. Len(ch) - 1 \subseteq G
  <2> HIDE DEF G
  <2> QED
    BY <1>1, <1>2, <1>3, UpTo
<1>5. ASSUME NEW i \in 1 .. Len(ch) PROVE ch[i] \in Line(ch[1])
  <2>1. i - 1 \in 0 .. Len(ch) - 1 /\ (i - 1) + 1 = i
    BY <1>1
  <2> QED
    BY <1>4, <2>1
<1> QED
  BY <1>5, ElementsOf

\* Earlier parents have smaller numbers.
LEMMA ChainDescends ==
  ASSUME Tree, NEW ch, IsLine(ch), NEW i \in 1 .. Len(ch), NEW j \in 1 .. Len(ch), i < j
  PROVE  ch[j] < ch[i]
<1> DEFINE m == Len(ch) - i - 1
<1> DEFINE G == {n \in 0 .. m : ch[i + n + 1] < ch[i]}
<1>1. m \in Nat
  BY DEF IsLine
<1>2. \A k \in 1 .. Len(ch) - 1 : ch[k + 1] < ch[k] /\ ch[k] \in Nat /\ ch[k + 1] \in Nat
  <2>1. \A k \in 1 .. Len(ch) : ch[k] \in Nodes
    BY ElementsOf
  <2>2. ASSUME NEW k \in 1 .. Len(ch) - 1
        PROVE  ch[k + 1] < ch[k] /\ ch[k] \in Nat /\ ch[k + 1] \in Nat
    <3>1. k \in 1 .. Len(ch) /\ k + 1 \in 1 .. Len(ch)
      BY DEF IsLine
    <3>2. ch[k] \in Nodes \ {0} /\ ch[k + 1] = tree[ch[k]] /\ ch[k + 1] \in Nodes
      BY <2>1, <3>1 DEF IsLine
    <3>3. tree[ch[k]] < ch[k]
      BY <3>2, Parents
    <3> QED
      BY <3>2, <3>3 DEF Nodes
  <2> QED
    BY <2>2
<1>3. 0 \in G
  <2>1. i \in 1 .. Len(ch) - 1
    BY DEF IsLine
  <2>2. i + 0 + 1 = i + 1
    OBVIOUS
  <2> QED
    BY <1>1, <1>2, <2>1, <2>2
<1>4. ASSUME NEW n \in 1 .. m, n - 1 \in G PROVE n \in G
  <2>1. i + n \in 1 .. Len(ch) - 1 /\ i + (n - 1) + 1 = i + n /\ i + n + 1 = (i + n) + 1
        /\ i \in 1 .. Len(ch) - 1
    BY DEF IsLine
  <2>2. ch[i + n] < ch[i]
    BY <1>4, <2>1
  <2>3. ch[(i + n) + 1] < ch[i + n] /\ ch[i + n] \in Nat /\ ch[(i + n) + 1] \in Nat
        /\ ch[i] \in Nat
    BY <1>2, <2>1
  <2>4. ch[i + n + 1] < ch[i]
    BY <2>1, <2>2, <2>3
  <2> QED
    BY <1>1, <2>4
<1>5. 0 .. m \subseteq G
  <2> HIDE DEF G, m
  <2> QED
    BY <1>1, <1>3, <1>4, UpTo
<1>6. j - i - 1 \in 0 .. m /\ i + (j - i - 1) + 1 = j
  BY DEF IsLine
<1> QED
  BY <1>5, <1>6

\* What is on the line of the latest parent and not in the chain is further
\* back than its earliest parent.
LEMMA RestOfLine ==
  ASSUME Tree, NEW ch, IsLine(ch), NEW a \in Line(Head(ch))
  PROVE  a \in ToSet(ch) \/ a \in Line(Last(ch))
<1> DEFINE S == ToSet(ch) \cup Line(Last(ch))
<1>1. Last(ch) \in Nodes /\ Head(ch) \in ToSet(ch) /\ ToSet(ch) \in SUBSET Nodes
  BY ElementsOf DEF IsLine
<1>2. Line(Last(ch)) \in SUBSET Nodes /\ Last(ch) \in Line(Last(ch))
      /\ Closed(Line(Last(ch)))
  BY <1>1, LineClosed
<1>3. Closed(S)
  <2>1. ASSUME NEW y \in ToSet(ch) \ {0} PROVE tree[y] \in S
    <3>1. PICK i \in 1 .. Len(ch) : y = ch[i]
      BY ElementsOf
    <3>2. CASE i = Len(ch)
      <4>1. y \in Line(Last(ch)) \ {0}
        BY <1>2, <2>1, <3>1, <3>2, ElementsOf
      <4> QED
        BY <1>2, <4>1 DEF Closed
    <3>3. CASE i # Len(ch)
      <4>1. i \in 1 .. Len(ch) - 1 /\ i + 1 \in 1 .. Len(ch)
        BY <3>3 DEF IsLine
      <4>2. ch[i + 1] = tree[y]
        BY <3>1, <4>1 DEF IsLine
      <4> QED
        BY <4>1, <4>2, ElementsOf
    <3> QED
      BY <3>2, <3>3
  <2> QED
    BY <1>2, <2>1 DEF Closed
<1>4. Line(Head(ch)) \subseteq S
  BY <1>1, <1>2, <1>3, LineLeast
<1> QED
  BY <1>4

\* Two complete chains with one latest parent are the same.
LEMMA SameHead ==
  ASSUME NEW ch, NEW dh, IsLine(ch), IsLine(dh), Complete(ch), Complete(dh),
         Head(ch) = Head(dh)
  PROVE  ch = dh
<1>1. ASSUME NEW c1, NEW d1, IsLine(c1), IsLine(d1), Head(c1) = Head(d1),
             NEW k \in 1 .. Len(c1), k <= Len(d1)
      PROVE  c1[k] = d1[k]
  <2> DEFINE m == k - 1
  <2> DEFINE G == {n \in 0 .. m : c1[n + 1] = d1[n + 1]}
  <2>1. m \in Nat /\ Len(c1) \in Nat /\ Len(d1) \in Nat
    BY <1>1 DEF IsLine
  <2>2. 0 \in G
    BY <1>1, <2>1, ElementsOf
  <2>3. ASSUME NEW n \in 1 .. m, n - 1 \in G PROVE n \in G
    <3>1. (n - 1) + 1 = n /\ n \in 1 .. Len(c1) - 1 /\ n \in 1 .. Len(d1) - 1
      BY <1>1, <2>1
    <3>2. c1[n] = d1[n]
      BY <2>3, <3>1
    <3>3. c1[n + 1] = d1[n + 1]
      BY <1>1, <3>1, <3>2 DEF IsLine
    <3> QED
      BY <2>1, <3>3
  <2>4. 0 .. m \subseteq G
    <3> HIDE DEF G, m
    <3> QED
      BY <2>1, <2>2, <2>3, UpTo
  <2>5. k - 1 \in 0 .. m /\ (k - 1) + 1 = k
    BY <2>1
  <2> QED
    BY <2>4, <2>5
<1>2. ASSUME NEW c1, NEW d1, IsLine(c1), IsLine(d1), Complete(c1), Complete(d1),
             Head(c1) = Head(d1)
      PROVE  ~(Len(c1) < Len(d1))
  <2>1. SUFFICES ASSUME Len(c1) < Len(d1) PROVE FALSE
    OBVIOUS
  <2>2. Last(c1) = 0
    BY <1>2, <2>1 DEF Complete, IsLine
  <2>3. Len(c1) \in 1 .. Len(c1) /\ Len(c1) \in 1 .. Len(d1) - 1 /\ Len(c1) <= Len(d1)
    BY <1>2, <2>1 DEF IsLine
  <2>4. d1[Len(c1)] = c1[Len(c1)]
    BY <1>1, <1>2, <2>3
  <2> QED
    BY <1>2, <2>2, <2>3, <2>4, ElementsOf DEF IsLine
<1>3. Len(ch) = Len(dh)
  BY <1>2 DEF IsLine
<1>4. \A i \in 1 .. Len(ch) : ch[i] = dh[i]
  BY <1>1, <1>3 DEF IsLine
<1> QED
  BY <1>3, <1>4, SeqEqual DEF IsLine
-----------------------------------------------------------------------------
(***************************************************************************)
(* Sorting: the chains can be put in the order of their length.            *)
(***************************************************************************)
LEMMA ChainsFinite ==
  /\ IsFiniteSet(Fetched) /\ IsFiniteSet(Chains)
  /\ Cardinality(Chains) \in Nat
  /\ Chains # {} <=> Fetched # {}
<1>1. IsFiniteSet(Clients)
  BY FS_Interval DEF Clients
<1>2. IsFiniteSet(Fetched)
  BY <1>1, FS_Subset DEF Fetched
<1> DEFINE f == [c \in Fetched |-> chain[c]]
<1>3. f \in Surjection(Fetched, Chains)
  BY DEF Surjection, Chains
<1>4. IsFiniteSet(Chains)
  BY <1>2, <1>3, FS_Surjection
<1> QED
  BY <1>2, <1>4, FS_CardinalityType DEF Chains

LEMMA FirstOf ==
  ASSUME NEW ch \in Chains
  PROVE  First(ch) \in Fetched /\ chain[First(ch)] = ch /\ First(ch) \in Nat
<1>1. ClientsOf(ch) \in SUBSET Nat /\ ClientsOf(ch) # {}
  BY DEF ClientsOf, Chains, Fetched, Clients
<1>2. \E c \in ClientsOf(ch) : \A d \in ClientsOf(ch) : c <= d
  BY <1>1, NatMinimum
<1>3. First(ch) \in ClientsOf(ch)
  BY <1>2 DEF First
<1> QED
  BY <1>1, <1>3 DEF ClientsOf

\* Before is a strict order, and of two chains one is before the other.
LEMMA BeforeOrder ==
  ASSUME \A ch \in Chains : Len(ch) \in Nat
  PROVE  /\ \A a \in Chains : ~Before(a, a)
         /\ \A a, b, d \in Chains : Before(a, b) /\ Before(b, d) => Before(a, d)
         /\ \A a, b \in Chains : a # b => Before(a, b) \/ Before(b, a)
<1>1. \A a \in Chains : First(a) \in Nat /\ Len(a) \in Nat
  BY FirstOf
<1>2. \A a, b \in Chains : a # b => First(a) # First(b)
  BY FirstOf
<1>3. \A a, b \in Chains : a # b => Before(a, b) \/ Before(b, a)
  BY <1>1, <1>2 DEF Before
<1>4. \A a \in Chains : ~Before(a, a)
  BY <1>1 DEF Before
<1>5. \A a, b, d \in Chains : Before(a, b) /\ Before(b, d) => Before(a, d)
  BY <1>1 DEF Before
<1> QED
  BY <1>3, <1>4, <1>5

\* The chain with n others before it is the one at n + 1.
LEMMA SortedChains ==
  ASSUME \A ch \in Chains : Len(ch) \in Nat
  PROVE  Sorted \in [1 .. Cardinality(Chains) -> Chains]
<1> DEFINE n == Cardinality(Chains)
<1> DEFINE Below(a) == {d \in Chains : Before(d, a)}
<1> DEFINE r == [a \in Chains |-> Cardinality(Below(a)) + 1]
<1>1. n \in Nat /\ IsFiniteSet(Chains)
  BY ChainsFinite
<1>2. ASSUME NEW a \in Chains
      PROVE  IsFiniteSet(Below(a)) /\ Cardinality(Below(a)) \in Nat
  <2>1. Below(a) \in SUBSET Chains
    OBVIOUS
  <2> HIDE DEF Below
  <2> QED
    BY <1>1, <2>1, FS_Subset, FS_CardinalityType
<1>3. ASSUME NEW a \in Chains PROVE r[a] \in 1 .. n
  <2>1. Below(a) \in SUBSET Chains /\ a \notin Below(a)
    BY BeforeOrder
  <2>2. Cardinality(Below(a)) <= n /\ Cardinality(Below(a)) # n
    <3> HIDE DEF Below
    <3> QED
      BY <1>1, <2>1, FS_Subset
  <2> HIDE DEF Below, n
  <2> QED
    BY <1>1, <1>2, <2>2
<1>4. ASSUME NEW a \in Chains, NEW b \in Chains, Before(a, b) PROVE r[a] < r[b]
  <2>1. Below(a) \in SUBSET Below(b) /\ a \in Below(b) /\ a \notin Below(a)
    BY <1>4, BeforeOrder
  <2>2. IsFiniteSet(Below(b)) /\ Cardinality(Below(b)) \in Nat /\ Cardinality(Below(a)) \in Nat
    BY <1>2
  <2>3. Cardinality(Below(a)) <= Cardinality(Below(b))
        /\ Cardinality(Below(a)) # Cardinality(Below(b))
    <3> HIDE DEF Below
    <3> QED
      BY <2>1, <2>2, FS_Subset
  <2> HIDE DEF Below
  <2> QED
    BY <2>2, <2>3
<1>5. r \in [Chains -> 1 .. n]
  <2> HIDE DEF Below, n
  <2> QED
    BY <1>3
<1>6. \A a, b \in Chains : r[a] = r[b] => a = b
  <2> SUFFICES ASSUME NEW a \in Chains, NEW b \in Chains, r[a] = r[b], a # b
               PROVE  FALSE
    OBVIOUS
  <2>1. r[a] \in Nat /\ r[b] \in Nat
    BY <1>3
  <2>2. r[a] < r[b] \/ r[b] < r[a]
    BY <1>4, BeforeOrder
  <2> HIDE DEF r
  <2> QED
    BY <2>1, <2>2
<1>7. r \in Surjection(Chains, 1 .. n)
  <2>1. IsFiniteSet(1 .. n) /\ Cardinality(1 .. n) = n
    <3> HIDE DEF n
    <3>1. n \in Int /\ 1 \in Int /\ n - 1 + 1 = n /\ (1 > n => n = 0)
      BY <1>1
    <3> QED
      BY <3>1, FS_Interval
  <2>2. r \in Injection(Chains, 1 .. n)
    <3> HIDE DEF r
    <3> QED
      BY <1>5, <1>6 DEF Injection, IsInjective
  <2> HIDE DEF r
  <2> QED
    BY <2>1, <2>2, FS_Injection
<1>8. \A i \in 1 .. n : \E a \in Chains : r[a] = i
  <2> HIDE DEF r
  <2> QED
    BY <1>7 DEF Surjection
<1> DEFINE s == [i \in 1 .. n |-> CHOOSE a \in Chains : r[a] = i]
<1>9. s \in [1 .. n -> Chains] /\ \A i \in 1 .. n : r[s[i]] = i
  <2> HIDE DEF r
  <2> QED
    BY <1>8
<1>10. ASSUME NEW i \in DOMAIN s, NEW j \in DOMAIN s, i < j
       PROVE  Before(s[i], s[j])
  <2>1. i \in 1 .. n /\ j \in 1 .. n /\ r[s[i]] = i /\ r[s[j]] = j
        /\ s[i] \in Chains /\ s[j] \in Chains
    BY <1>9
  <2>2. s[i] # s[j] /\ ~(r[s[j]] < r[s[i]])
    <3> HIDE DEF s, r, n
    <3> QED
      BY <1>1, <1>10, <2>1
  <2> HIDE DEF s, r
  <2> QED
    BY <1>4, <2>1, <2>2, BeforeOrder
<1>11. \E t \in [1 .. Cardinality(Chains) -> Chains] :
         \A i, j \in DOMAIN t : i < j => Before(t[i], t[j])
  <2> HIDE DEF s
  <2> QED
    BY <1>9, <1>10
<1> QED
  BY <1>11 DEF Sorted
-----------------------------------------------------------------------------
(***************************************************************************)
(* Linking: whatever the order, what hangs below a chain is a path.        *)
(***************************************************************************)
Paths(forks) ==
  /\ forks \in [Chains -> Seq(Chains)]
  /\ \A ch \in Chains : IsPath(ch, forks[ch])

\* The first chain of a path is the child of ch, each other one of the chain
\* before it.
LEMMA PathElements ==
  ASSUME NEW ch \in Chains, NEW s \in Seq(Chains)
  PROVE  IsPath(ch, s) <=>
           /\ s # <<>> => IsChild(s[1], ch)
           /\ \A i \in 1 .. Len(s) - 1 : IsChild(s[i + 1], s[i])
<1> DEFINE path == <<ch>> \o s
<1>1. Len(s) \in Nat /\ (s # <<>> <=> Len(s) # 0)
  BY EmptySeq
<1>2. /\ Len(path) = Len(s) + 1 /\ path[1] = ch
      /\ \A i \in 1 .. Len(s) : path[i + 1] = s[i]
  OBVIOUS
<1>3. ASSUME IsPath(ch, s)
      PROVE  /\ s # <<>> => IsChild(s[1], ch)
             /\ \A i \in 1 .. Len(s) - 1 : IsChild(s[i + 1], s[i])
  <2>1. \A i \in 1 .. Len(s) : IsChild(path[i + 1], path[i])
    BY <1>1, <1>2, <1>3 DEF IsPath
  <2> HIDE DEF path
  <2>2. s # <<>> => IsChild(s[1], ch)
    <3>1. s # <<>> => 1 \in 1 .. Len(s)
      BY <1>1
    <3> QED
      BY <1>2, <2>1, <3>1
  <2>3. ASSUME NEW i \in 1 .. Len(s) - 1 PROVE IsChild(s[i + 1], s[i])
    <3>1. i + 1 \in 1 .. Len(s) /\ i \in 1 .. Len(s)
      BY <1>1
    <3> QED
      BY <1>2, <2>1, <3>1
  <2> QED
    BY <2>2, <2>3
<1>4. ASSUME s # <<>> => IsChild(s[1], ch),
             \A i \in 1 .. Len(s) - 1 : IsChild(s[i + 1], s[i])
      PROVE  IsPath(ch, s)
  <2> HIDE DEF path
  <2>1. ASSUME NEW i \in 1 .. Len(s) PROVE IsChild(path[i + 1], path[i])
    <3>1. CASE i = 1
      <4>1. s # <<>> /\ path[1 + 1] = s[1]
        BY <1>1, <1>2, <3>1
      <4> QED
        BY <1>2, <1>4, <3>1, <4>1
    <3>2. CASE i # 1
      <4>1. i - 1 \in 1 .. Len(s) - 1 /\ (i - 1) + 1 = i /\ i - 1 \in 1 .. Len(s)
        BY <1>1, <3>2
      <4>2. path[i + 1] = s[i] /\ path[i] = s[i - 1]
        BY <1>2, <4>1
      <4> QED
        BY <1>4, <4>1, <4>2
    <3> QED
      BY <3>1, <3>2
  <2>2. \A i \in 1 .. Len(path) - 1 : IsChild(path[i + 1], path[i])
    BY <1>1, <1>2, <2>1
  <2> QED
    BY <2>2 DEF IsPath, path
<1> QED
  BY <1>3, <1>4

LEMMA LinkKeepsPaths ==
  ASSUME NEW forks, Paths(forks), NEW ch1 \in Chains, NEW ch2 \in Chains
  PROVE  Paths(Link(forks, ch1, ch2))
<1>1. CASE ~IsChild(ch1, ch2)
  BY <1>1 DEF Link
<1>2. CASE IsChild(ch1, ch2)
  <2> DEFINE s == forks[ch1]
  <2> DEFINE t == <<ch1>> \o s
  <2>1. s \in Seq(Chains) /\ IsPath(ch1, s)
    BY DEF Paths
  <2>2. t \in Seq(Chains) /\ Len(t) = Len(s) + 1 /\ t[1] = ch1 /\ Len(s) \in Nat
    BY <2>1
  <2>3. \A i \in 1 .. Len(t) - 1 : IsChild(t[i + 1], t[i])
    BY <2>1 DEF IsPath
  <2>4. IsPath(ch2, t)
    <3> HIDE DEF t
    <3> QED
      BY <1>2, <2>2, <2>3, PathElements
  <2>5. Link(forks, ch1, ch2) = [forks EXCEPT ![ch2] = t]
    BY <1>2 DEF Link
  <2> HIDE DEF t, s
  <2> QED
    BY <2>2, <2>4, <2>5 DEF Paths
<1> QED
  BY <1>1, <1>2

\* The loops only compare chains of s.
LEMMA Compared ==
  ASSUME NEW k \in Nat \ {0}, NEW n \in 1 .. k * k
  PROVE  1 + ((n - 1) \div k) \in 1 .. k /\ 1 + ((n - 1) % k) \in 1 .. k
<1> DEFINE x == n - 1
<1> DEFINE q == x \div k
<1>1. x \in Nat /\ x < k * k
  OBVIOUS
<1>2. q \in Nat /\ k * q <= x
  <2> HIDE DEF x
  <2> QED
    BY <1>1
<1>3. x % k \in 0 .. k - 1
  <2> HIDE DEF x
  <2> QED
    BY <1>1
<1>4. q < k
  <2> HIDE DEF q, x
  <2>1. SUFFICES ASSUME k <= q PROVE FALSE
    BY <1>2
  <2>2. k * k <= k * q
    BY <1>2, <2>1
  <2> QED
    BY <1>1, <1>2, <2>2
<1> HIDE DEF q, x
<1>5. 1 + q \in 1 .. k /\ 1 + (x % k) \in 1 .. k
  BY <1>2, <1>3, <1>4
<1> QED
  BY <1>5 DEF q, x

\* The recursion of the loops has a solution, by induction over its length; each
\* of its steps links two chains.
LEMMA LinkedPaths ==
  ASSUME NEW s \in Seq(Chains)
  PROVE  Paths(LinkAll(s))
<1> DEFINE k == Len(s)
<1> DEFINE a(n) == s[1 + ((n - 1) \div k)]
<1> DEFINE b(n) == s[1 + ((n - 1) % k)]
<1> DEFINE base == [ch \in Chains |-> <<>>]
<1> DEFINE Solves(f, m) ==
      f = [n \in 0 .. m |-> IF n = 0 THEN base ELSE Link(f[n - 1], a(n), b(n))]
<1>1. k \in Nat /\ k * k \in Nat /\ \A i \in 1 .. k : s[i] \in Chains
  OBVIOUS
<1>2. ASSUME NEW n \in 1 .. k * k PROVE a(n) \in Chains /\ b(n) \in Chains
  <2>1. k # 0
    BY <1>1
  <2>2. 1 + ((n - 1) \div k) \in 1 .. k /\ 1 + ((n - 1) % k) \in 1 .. k
    <3> HIDE DEF k
    <3> QED
      BY <1>1, <2>1, Compared
  <2> QED
    BY <1>1, <2>2
<1> HIDE DEF k, a, b, base
<1>3. \A m \in 0 .. k * k : \E f : Solves(f, m)
  <2> DEFINE G == {m \in 0 .. k * k : \E f : Solves(f, m)}
  <2>1. 0 \in G
    <3> DEFINE f == [n \in 0 .. 0 |-> base]
    <3>1. Solves(f, 0)
      OBVIOUS
    <3> HIDE DEF Solves
    <3> QED
      BY <1>1, <3>1
  <2>2. ASSUME NEW m \in 1 .. k * k, m - 1 \in G PROVE m \in G
    <3>1. PICK g : Solves(g, m - 1)
      BY <2>2
    <3> DEFINE f == [n \in 0 .. m |-> IF n = m THEN Link(g[m - 1], a(m), b(m)) ELSE g[n]]
    <3>2. ASSUME NEW n \in 0 .. m
          PROVE  f[n] = IF n = 0 THEN base ELSE Link(f[n - 1], a(n), b(n))
      <4>1. CASE n = 0
        <5>1. 0 \in 0 .. m - 1 /\ 0 # m
          BY <2>2
        <5> QED
          BY <3>1, <4>1, <5>1
      <4>2. CASE n # 0 /\ n # m
        <5>1. n \in 0 .. m - 1 /\ n - 1 \in 0 .. m /\ n - 1 # m
          BY <4>2
        <5>2. f[n] = g[n] /\ f[n - 1] = g[n - 1]
          BY <4>2, <5>1
        <5>3. g[n] = Link(g[n - 1], a(n), b(n))
          BY <3>1, <4>2, <5>1
        <5> QED
          BY <4>2, <5>2, <5>3
      <4>3. CASE n # 0 /\ n = m
        <5>1. m - 1 \in 0 .. m /\ m - 1 # m
          BY <2>2
        <5>2. f[m - 1] = g[m - 1] /\ f[m] = Link(g[m - 1], a(m), b(m))
          BY <5>1
        <5> QED
          BY <4>3, <5>2
      <4> QED
        BY <4>1, <4>2, <4>3
    <3>3. f = [n \in 0 .. m |-> f[n]]
      OBVIOUS
    <3>4. Solves(f, m)
      <4> HIDE DEF f
      <4> QED
        BY <3>2, <3>3
    <3> HIDE DEF Solves
    <3> QED
      BY <3>4
  <2>3. 0 .. k * k \subseteq G
    <3> HIDE DEF G
    <3> QED
      BY <1>1, <2>1, <2>2, UpTo
  <2> QED
    BY <2>3
<1> DEFINE forks == CHOOSE f : Solves(f, k * k)
<1>4. Solves(forks, k * k)
  <2> HIDE DEF Solves
  <2>1. \E f : Solves(f, k * k)
    BY <1>1, <1>3
  <2> QED
    BY <2>1
<1>5. LinkAll(s) = forks[k * k]
  BY DEF LinkAll, k, a, b, base
<1> HIDE DEF forks
<1> DEFINE G == {n \in 0 .. k * k : Paths(forks[n])}
<1>6. 0 \in G
  <2>1. forks[0] = base
    BY <1>1, <1>4
  <2>2. base \in [Chains -> Seq(Chains)] /\ \A ch \in Chains : base[ch] = <<>>
    BY DEF base
  <2>3. <<>> \in Seq(Chains) /\ Len(<<>>) = 0
    BY EmptySeq
  <2>4. ASSUME NEW ch \in Chains PROVE IsPath(ch, <<>>)
    <3>1. Len(<<ch>> \o <<>>) = 1
      BY <2>3
    <3> QED
      BY <3>1 DEF IsPath
  <2>5. Paths(base)
    BY <2>2, <2>4 DEF Paths
  <2> QED
    BY <1>1, <2>1, <2>5
<1>7. ASSUME NEW n \in 1 .. k * k, n - 1 \in G PROVE n \in G
  <2>1. n \in 0 .. k * k /\ n # 0
    BY <1>1
  <2>2. forks[n] = Link(forks[n - 1], a(n), b(n))
    BY <1>4, <2>1
  <2>3. Paths(forks[n])
    BY <1>2, <1>7, <2>2, LinkKeepsPaths
  <2> QED
    BY <2>1, <2>3
<1>8. 0 .. k * k \subseteq G
  <2> HIDE DEF G
  <2> QED
    BY <1>1, <1>6, <1>7, UpTo
<1> QED
  BY <1>1, <1>5, <1>8
-----------------------------------------------------------------------------
(***************************************************************************)
(* The invariant.                                                          *)
(***************************************************************************)
\* What is known of the chain of one client while it is fetched.
Fetching(c) ==
  /\ chain[c] \in Seq(Nodes) /\ Len(chain[c]) <= Window
  /\ \A i \in 1 .. Len(chain[c]) - 1 :
       chain[c][i] # 0 /\ chain[c][i + 1] = tree[chain[c][i]]
  /\ asks[c] = "head" => chain[c] = <<>>
  /\ asks[c] = "parent" =>
       chain[c] # <<>> /\ Last(chain[c]) # 0 /\ Len(chain[c]) < Window
  /\ asks[c] = "nothing" /\ chain[c] # <<>> =>
       Len(chain[c]) = Window \/ Last(chain[c]) = 0

\* The types of everything but the report.
Fields ==
  /\ Tree /\ head \in [Clients -> 1 .. Len(tree)]
  /\ pc \in {"wait", "ask", "reported", "dead"}
  /\ asks \in [Clients -> {"nothing", "head", "parent"}]
  /\ chain \in [Clients -> Seq(Nodes)]

\* The parts of the invariant that the report takes no part in.
RoundPart ==
  /\ Fields
  /\ \A c \in Clients : Fetching(c)
  /\ pc # "ask" => \A c \in Clients : asks[c] = "nothing"

\* The invariant in two parts, one about fetching and one about the report.
ReportPart ==
  /\ unique \subseteq Chains
  /\ pc = "ask" => unique = {}
  /\ ReportInv

LEMMA PartsOf ==
  ASSUME IInv
  PROVE  RoundPart /\ ReportPart
<1>1. Fields
  BY DEF IInv, TypeOK, FetchInv, Fields, Tree, Nodes
<1>2. ASSUME NEW c \in Clients PROVE Fetching(c)
  <2>1. chain[c] \in Seq(Nodes)
    BY <1>1 DEF Fields
  <2>2. \A i \in 1 .. Len(chain[c]) - 1 : chain[c][i + 1] = tree[chain[c][i]]
    <3>1. CASE chain[c] # <<>>
      BY <3>1 DEF IInv, TypeOK
    <3>2. CASE chain[c] = <<>>
      BY <3>2
    <3> QED
      BY <3>1, <3>2
  <2> QED
    BY <2>1, <2>2 DEF IInv, TypeOK, FetchInv, Fetching
<1> QED
  BY <1>1, <1>2 DEF IInv, TypeOK, FetchInv, RoundPart, ReportPart

LEMMA FromParts ==
  ASSUME RoundPart', ReportPart'
  PROVE  IInv'
<1>1. FetchInv'
  BY DEF RoundPart, ReportPart, Fields, Fetching, FetchInv, Tree, Nodes
<1>2. TypeOK'
  <2>1. \A b \in 1 .. Len(tree') : tree'[b] \in 0 .. b - 1
    BY DEF RoundPart, Fields, Tree
  <2>2. (head \in [Clients -> 1 .. Len(tree)])'
    BY DEF RoundPart, Fields
  <2>3. (pc = "reported" => DOMAIN syncing = Chains)'
    BY DEF ReportPart, ReportInv
  <2>4. ASSUME NEW c \in Clients, chain'[c] # <<>>
        PROVE  /\ \A i \in 1 .. Len(chain'[c]) - 1 : chain'[c][i + 1] = tree'[chain'[c][i]]
               /\ asks'[c] = "nothing" => Len(chain'[c]) = Window \/ Last(chain'[c]) = 0
    BY <2>4 DEF RoundPart, Fetching
  <2> QED
    BY <2>1, <2>2, <2>3, <2>4 DEF TypeOK, RoundPart, ReportPart, Fields
<1> QED
  BY <1>1, <1>2 DEF IInv, ReportPart

\* A state without chains and questions.
LEMMA InitStep == Init => IInv
<1> SUFFICES ASSUME Init PROVE IInv
  OBVIOUS
<1>1. tree = <<0>> /\ Len(tree) = 1 /\ tree[1] = 0 /\ tree \in Seq(Nat)
  BY DEF Init
<1>2. \A c \in Clients : chain[c] = <<>> /\ asks[c] = "nothing"
  BY DEF Init, NoChain
<1>3. chain \in [Clients -> Seq(0 .. Len(tree))]
  BY DEF Init, NoChain
<1>4. Chains = {}
  BY <1>2 DEF Chains, Fetched
<1>5. TypeOK
  BY <1>1, <1>2, <1>4 DEF Init, TypeOK
<1>6. FetchInv
  <2>1. Len(<<>>) = 0
    OBVIOUS
  <2> QED
    BY <1>1, <1>2, <1>3, <2>1 DEF Init, FetchInv
<1> QED
  BY <1>5, <1>6 DEF Init, IInv, ReportInv

\* What the tree has does not change when it grows.
LEMMA NetworkKeepsRound ==
  ASSUME RoundPart, UNCHANGED <<pc, asks, chain>>,
         \/ UNCHANGED network
         \/ \E c \in Clients : Propose(c) \/ \E b \in 1 .. Len(tree) : Follow(c, b)
  PROVE  RoundPart'
<1>1. Fields
  BY DEF RoundPart
<1> DEFINE Grown == /\ tree' \in Seq(Nat) /\ Len(tree') \in Nat /\ Len(tree) \in Nat
                    /\ Len(tree) <= Len(tree')
                    /\ \A b \in 1 .. Len(tree) : tree'[b] = tree[b]
                    /\ \A b \in 1 .. Len(tree') : tree'[b] \in 0 .. b - 1
                    /\ head' \in [Clients -> 1 .. Len(tree')]
<1>2. Grown
  <2>0. tree \in Seq(Nat) /\ Len(tree) \in Nat /\ head \in [Clients -> 1 .. Len(tree)]
        /\ \A b \in 1 .. Len(tree) : tree[b] \in 0 .. b - 1
    BY <1>1 DEF Fields, Tree
  <2>1. CASE UNCHANGED tree
    <3>1. head' = head \/ \E c \in Clients, b \in 1 .. Len(tree) : head' = [head EXCEPT ![c] = b]
      <4>1. ASSUME NEW c \in Clients, Propose(c) PROVE FALSE
        BY <2>0, <2>1, <4>1 DEF Propose
      <4> QED
        BY <4>1 DEF Follow, network
    <3>2. head' \in [Clients -> 1 .. Len(tree)]
      BY <2>0, <3>1
    <3> QED
      BY <2>0, <2>1, <3>2
  <2>2. ASSUME NEW c \in Clients, Propose(c)
        PROVE  Grown
    <3>1. tree' = Append(tree, head[c]) /\ head[c] \in 1 .. Len(tree)
          /\ head' = [head EXCEPT ![c] = Len(tree')]
      BY <2>0, <2>2 DEF Propose
    <3>2. /\ tree' \in Seq(Nat) /\ Len(tree') = Len(tree) + 1
          /\ tree'[Len(tree) + 1] = head[c]
          /\ \A b \in 1 .. Len(tree) : tree'[b] = tree[b]
      BY <2>0, <3>1
    <3>3. \A b \in 1 .. Len(tree') : tree'[b] \in 0 .. b - 1
      <4> SUFFICES ASSUME NEW b \in 1 .. Len(tree') PROVE tree'[b] \in 0 .. b - 1
        OBVIOUS
      <4>1. CASE b = Len(tree) + 1
        BY <2>0, <3>1, <3>2, <4>1
      <4>2. CASE b \in 1 .. Len(tree)
        BY <2>0, <3>2, <4>2
      <4> QED
        BY <2>0, <3>2, <4>1, <4>2
    <3>4. head' \in [Clients -> 1 .. Len(tree')]
      BY <2>0, <3>1, <3>2
    <3> QED
      BY <2>0, <3>2, <3>3, <3>4
  <2>3. UNCHANGED tree \/ \E c \in Clients : Propose(c)
    BY DEF Follow, network
  <2> HIDE DEF Grown
  <2> QED
    BY <2>1, <2>2, <2>3
<1>3. Nodes \subseteq Nodes' /\ \A b \in Nodes \ {0} : tree'[b] = tree[b]
  BY <1>2 DEF Nodes
<1>4. ASSUME NEW c \in Clients PROVE Fetching(c)' /\ chain[c] \in Seq(Nodes')
  <2>1. chain[c] \in Seq(Nodes) /\ Fetching(c) /\ Len(chain[c]) \in Nat
    BY <1>1 DEF RoundPart, Fields
  <2>2. chain[c] \in Seq(Nodes')
    BY <1>3, <2>1, SeqMonotonic
  <2>3. \A i \in 1 .. Len(chain[c]) - 1 :
          chain[c][i] # 0 /\ chain[c][i + 1] = tree'[chain[c][i]]
    <3> SUFFICES ASSUME NEW i \in 1 .. Len(chain[c]) - 1
                 PROVE  chain[c][i] # 0 /\ chain[c][i + 1] = tree'[chain[c][i]]
      OBVIOUS
    <3>1. chain[c][i] \in Nodes \ {0} /\ chain[c][i + 1] = tree[chain[c][i]]
      <4>1. i \in 1 .. Len(chain[c])
        BY <2>1
      <4> QED
        BY <2>1, <4>1, ElementOfSeq DEF Fetching
    <3> QED
      BY <1>3, <3>1
  <2> QED
    BY <2>1, <2>2, <2>3 DEF Fetching
<1>5. Fields'
  <2>1. (chain \in [Clients -> Seq(Nodes)])'
    BY <1>1, <1>4 DEF Fields
  <2> QED
    BY <1>1, <1>2, <2>1 DEF Fields, Tree
<1> QED
  BY <1>4, <1>5 DEF RoundPart

\* One answer makes the chain of one client longer, along its line.
LEMMA GotBlockKeepsRound ==
  ASSUME RoundPart, NEW c \in Clients, GotBlock(c)
  PROVE  RoundPart'
<1> DEFINE block == IF asks[c] = "head" THEN head[c] ELSE Last(chain[c])
<1> DEFINE parent == tree[block]
<1> DEFINE new == Append(chain[c], parent)
<1>1. Fields /\ Fetching(c) /\ pc = "ask" /\ asks[c] \in {"head", "parent"}
  BY DEF RoundPart, Fields, GotBlock, Asking
<1>2. /\ chain' = [chain EXCEPT ![c] = new]
      /\ asks' = [asks EXCEPT ![c] =
           IF parent = 0 \/ Len(chain'[c]) = Window THEN "nothing" ELSE "parent"]
      /\ UNCHANGED <<tree, head, pc>>
  BY DEF GotBlock, network
<1>3. chain[c] \in Seq(Nodes) /\ Len(chain[c]) \in Nat /\ Len(chain[c]) <= Window
      /\ Window \in Nat \ {0}
  BY <1>1 DEF Fetching
<1>4. block \in Nodes \ {0} /\ (chain[c] # <<>> => block = chain[c][Len(chain[c])])
      /\ Len(chain[c]) < Window
  <2>1. CASE asks[c] = "head"
    <3>1. chain[c] = <<>> /\ Len(chain[c]) = 0 /\ block = head[c]
      BY <1>1, <2>1 DEF Fetching
    <3>2. head[c] \in 1 .. Len(tree) /\ Len(tree) \in Nat
      BY <1>1 DEF Fields, Tree
    <3> QED
      BY <1>3, <3>1, <3>2 DEF Nodes
  <2>2. CASE asks[c] = "parent"
    <3>1. chain[c] # <<>> /\ block = Last(chain[c]) /\ Last(chain[c]) # 0
          /\ Len(chain[c]) < Window
      BY <1>1, <2>2 DEF Fetching
    <3>2. Len(chain[c]) \in 1 .. Len(chain[c])
      BY <1>3, <3>1, EmptySeq
    <3>3. chain[c][Len(chain[c])] \in Nodes
      BY <1>3, <3>2, ElementOfSeq
    <3> QED
      BY <3>1, <3>3 DEF Last
  <2> QED
    BY <1>1, <2>1, <2>2
<1>5. parent \in Nodes
  <2> HIDE DEF block
  <2> QED
    BY <1>1, <1>4, Parents DEF Fields
<1> HIDE DEF parent, block
<1>6. /\ new \in Seq(Nodes) /\ Len(new) = Len(chain[c]) + 1 /\ new # <<>>
      /\ \A i \in 1 .. Len(chain[c]) : new[i] = chain[c][i]
      /\ new[Len(chain[c]) + 1] = parent
  BY <1>3, <1>5, AppendProperties
<1>7. \A i \in 1 .. Len(new) - 1 : new[i] # 0 /\ new[i + 1] = tree[new[i]]
  <2> SUFFICES ASSUME NEW i \in 1 .. Len(new) - 1
               PROVE  new[i] # 0 /\ new[i + 1] = tree[new[i]]
    OBVIOUS
  <2>1. CASE i = Len(chain[c])
    <3>1. chain[c] # <<>> /\ i \in 1 .. Len(chain[c])
      <4>1. i # 0
        BY <1>3, <1>6
      <4> QED
        BY <1>3, <1>6, <2>1, <4>1, EmptySeq
    <3>2. new[i] = block /\ new[i + 1] = parent
      BY <1>4, <1>6, <2>1, <3>1
    <3> QED
      BY <1>4, <3>2 DEF parent
  <2>2. CASE i # Len(chain[c])
    <3>1. i \in 1 .. Len(chain[c]) - 1 /\ i \in 1 .. Len(chain[c])
          /\ i + 1 \in 1 .. Len(chain[c])
      BY <1>3, <1>6, <2>2
    <3>2. new[i] = chain[c][i] /\ new[i + 1] = chain[c][i + 1]
      BY <1>6, <3>1
    <3>3. chain[c][i] # 0 /\ chain[c][i + 1] = tree[chain[c][i]]
      BY <1>1, <3>1 DEF Fetching
    <3> QED
      BY <3>2, <3>3
  <2> QED
    BY <2>1, <2>2
<1>8. chain'[c] = new /\ Last(new) = parent
      /\ asks'[c] = IF parent = 0 \/ Len(new) = Window THEN "nothing" ELSE "parent"
  <2>1. chain'[c] = new
    BY <1>1, <1>2 DEF Fields
  <2>2. Last(new) = parent
    BY <1>6 DEF Last
  <2> HIDE DEF new
  <2> QED
    BY <1>1, <1>2, <2>1, <2>2 DEF Fields
<1> HIDE DEF new
<1>9. Fetching(c)'
  <2>1. Len(new) <= Window
    BY <1>3, <1>4, <1>6
  <2>2. Nodes' = Nodes
    BY <1>2 DEF Nodes
  <2>3. asks'[c] # "head"
    BY <1>8
  <2>4. asks'[c] = "parent" => parent # 0 /\ Len(new) < Window
    BY <1>3, <1>6, <1>8, <2>1
  <2>5. asks'[c] = "nothing" => Len(new) = Window \/ parent = 0
    BY <1>8
  <2> QED
    BY <1>2, <1>6, <1>7, <1>8, <2>1, <2>2, <2>3, <2>4, <2>5 DEF Fetching
<1>10. ASSUME NEW d \in Clients, d # c PROVE Fetching(d)'
  <2>1. Nodes' = Nodes /\ chain'[d] = chain[d] /\ asks'[d] = asks[d] /\ tree' = tree
    BY <1>1, <1>2, <1>10 DEF Fields, Nodes
  <2>2. Fetching(d)
    BY DEF RoundPart
  <2> QED
    BY <2>1, <2>2 DEF Fetching
<1>11. Fields'
  <2>1. Nodes' = Nodes /\ Tree'
    BY <1>1, <1>2 DEF Nodes, Tree, Fields
  <2>2. chain' \in [Clients -> Seq(Nodes)]
    BY <1>1, <1>2, <1>6 DEF Fields
  <2>3. asks' \in [Clients -> {"nothing", "head", "parent"}]
    BY <1>1, <1>2 DEF Fields
  <2> QED
    BY <1>1, <1>2, <2>1, <2>2, <2>3 DEF Fields
<1> QED
  BY <1>1, <1>2, <1>9, <1>10, <1>11 DEF RoundPart

LEMMA NoBlockKeepsRound ==
  ASSUME RoundPart, NEW c \in Clients, NoBlock(c)
  PROVE  RoundPart'
<1>1. Fields /\ pc = "ask" /\ UNCHANGED <<tree, head, pc>>
      /\ chain' = [chain EXCEPT ![c] = <<>>] /\ asks' = [asks EXCEPT ![c] = "nothing"]
  BY DEF RoundPart, NoBlock, Asking, network
<1>2. Nodes' = Nodes /\ Tree'
  BY <1>1 DEF Nodes, Tree, Fields
<1>3. <<>> \in Seq(Nodes) /\ Len(<<>>) = 0
  BY EmptySeq
<1>4. Fields'
  BY <1>1, <1>2, <1>3 DEF Fields
<1>5. chain'[c] = <<>> /\ asks'[c] = "nothing"
  BY <1>1 DEF Fields
<1>6. Fetching(c)'
  BY <1>2, <1>3, <1>5 DEF Fetching
<1>7. ASSUME NEW d \in Clients, d # c PROVE Fetching(d)'
  <2>1. chain'[d] = chain[d] /\ asks'[d] = asks[d] /\ Fetching(d)
    BY <1>1, <1>7 DEF Fields, RoundPart
  <2> QED
    BY <1>1, <1>2, <2>1 DEF Fetching
<1> QED
  BY <1>1, <1>4, <1>6, <1>7 DEF RoundPart

LEMMA StartRoundKeepsRound ==
  ASSUME RoundPart, StartRound
  PROVE  RoundPart'
<1>1. UNCHANGED <<tree, head>> /\ pc' = "ask" /\ chain' = NoChain
      /\ asks' = [c \in Clients |-> IF c \in TekuClients THEN "nothing" ELSE "head"]
  BY DEF StartRound, network
<1>2. Nodes' = Nodes /\ Tree' /\ Fields
  BY <1>1 DEF Nodes, Tree, Fields, RoundPart
<1>3. <<>> \in Seq(Nodes) /\ Len(<<>>) = 0
  BY EmptySeq
<1>4. \A c \in Clients : chain'[c] = <<>> /\ asks'[c] \in {"nothing", "head"}
  BY <1>1 DEF NoChain
<1>5. Fields'
  BY <1>1, <1>2, <1>3 DEF Fields, NoChain
<1>6. ASSUME NEW c \in Clients PROVE Fetching(c)'
  <2>1. chain'[c] = <<>> /\ asks'[c] # "parent"
    BY <1>4
  <2>2. chain'[c] \in Seq(Nodes') /\ Len(chain'[c]) = 0
    BY <1>2, <1>3, <2>1
  <2> QED
    BY <2>1, <2>2 DEF Fetching
<1> QED
  BY <1>1, <1>5, <1>6 DEF RoundPart

LEMMA RoundStep ==
  ASSUME RoundPart, [Next]_vars
  PROVE  RoundPart'
<1>1. CASE UNCHANGED vars
  BY <1>1, NetworkKeepsRound DEF vars, network
<1>2. ASSUME NEW c \in Clients,
             Propose(c) \/ \E b \in 1 .. Len(tree) : Follow(c, b)
      PROVE  RoundPart'
  <2>1. UNCHANGED <<pc, asks, chain>>
    BY <1>2 DEF Propose, Follow
  <2> QED
    BY <1>2, <2>1, NetworkKeepsRound
<1>3. CASE SleepRaises \/ Report
  <2>1. UNCHANGED <<tree, head, asks, chain>> /\ pc' \in {"dead", "reported"}
        /\ \A c \in Clients : asks[c] = "nothing"
    BY <1>3 DEF SleepRaises, Waiting, Report, network, RoundPart
  <2> QED
    BY <2>1 DEF RoundPart, Fields, Fetching, Tree, Nodes
<1> QED
  BY <1>1, <1>2, <1>3, GotBlockKeepsRound, NoBlockKeepsRound, StartRoundKeepsRound
  DEF Next

\* The report is the one the chains give.
LEMMA ReportStep ==
  ASSUME RoundPart, ReportPart, [Next]_vars
  PROVE  ReportPart'
<1>1. CASE UNCHANGED <<pc, chain, unique, syncing>>
  <2>1. Chains' = Chains /\ UniqueChains' = UniqueChains
    BY <1>1 DEF Chains, Fetched, UniqueChains
  <2> QED
    BY <1>1, <2>1 DEF ReportPart, ReportInv
<1>2. CASE SleepRaises
  <2>1. UNCHANGED <<chain, unique>> /\ pc' = "dead"
    BY <1>2 DEF SleepRaises
  <2> QED
    BY <2>1 DEF ReportPart, ReportInv, Chains, Fetched
<1>3. CASE StartRound \/ \E c \in Clients : GotBlock(c) \/ NoBlock(c)
  <2>1. pc' = "ask" /\ unique' = {}
    BY <1>3 DEF StartRound, GotBlock, NoBlock, Asking, ReportPart
  <2> QED
    BY <2>1 DEF ReportPart, ReportInv
<1>4. CASE Report
  <2>1. pc' = "reported" /\ UNCHANGED chain /\ unique' = UniqueChains
        /\ syncing' = RealForks
    BY <1>4 DEF Report
  <2>2. Chains' = Chains /\ UniqueChains' = UniqueChains /\ UniqueChains \subseteq Chains
    BY <2>1 DEF Chains, Fetched, UniqueChains
  <2>3. \A ch \in Chains : Len(ch) \in Nat
    BY DEF Chains, Fetched, RoundPart, Fields
  <2>4. Sorted \in Seq(Chains)
    BY <2>3, SortedChains, ChainsFinite
  <2>5. Paths(RealForks)
    BY <2>4, LinkedPaths DEF RealForks
  <2> QED
    BY <2>1, <2>2, <2>5 DEF ReportPart, ReportInv, Paths
<1> QED
  BY <1>1, <1>2, <1>3, <1>4 DEF Next, vars, Propose, Follow

\* What is fetched is a part of a line of the tree, and what is reported is what
\* the chains give.
THEOREM InductiveInvariant == Spec => []IInv
<1>1. IInv /\ [Next]_vars => IInv'
  BY PartsOf, RoundStep, ReportStep, FromParts
<1> QED
  BY <1>1, InitStep, PTL DEF Spec

\* The types, and chains that are lines of the tree.
THEOREM TypeCorrect == Spec => []TypeOK
<1>1. IInv => TypeOK
  BY DEF IInv
<1> QED
  BY <1>1, InductiveInvariant, PTL
-----------------------------------------------------------------------------
(***************************************************************************)
(* What a report says.                                                     *)
(***************************************************************************)
\* Who answered has a chain that is complete when it is reported.
LEMMA ReportedChains ==
  ASSUME RoundPart, pc = "reported"
  PROVE  /\ Tree
         /\ \A ch \in Chains : IsLine(ch) /\ Complete(ch) /\ Head(ch) \in Nodes
         /\ \A c \in Fetched : chain[c] \in Chains
<1>1. Tree
  BY DEF RoundPart, Fields
<1>2. ASSUME NEW ch \in Chains PROVE IsLine(ch) /\ Complete(ch) /\ Head(ch) \in Nodes
  <2>1. PICK c \in Clients : ch = chain[c] /\ chain[c] # <<>>
    BY DEF Chains, Fetched
  <2>2. Fetching(c) /\ asks[c] = "nothing"
    BY DEF RoundPart
  <2>3. IsLine(ch)
    BY <2>1, <2>2, EmptySeq DEF Fetching, IsLine
  <2>4. Complete(ch)
    BY <2>1, <2>2 DEF Fetching, Complete
  <2>5. Head(ch) \in Nodes
    BY <2>3, ElementsOf DEF IsLine
  <2> QED
    BY <2>3, <2>4, <2>5
<1> QED
  BY <1>1, <1>2 DEF Chains

\* The child of a chain begins on the other's line, further back.
LEMMA ChildIsBehind ==
  ASSUME RoundPart, pc = "reported", NEW ch1 \in Chains, NEW ch2 \in Chains,
         IsChild(ch1, ch2)
  PROVE  Head(ch1) \in Line(Head(ch2)) /\ Head(ch1) # Head(ch2)
<1>1. Tree /\ IsLine(ch1) /\ IsLine(ch2) /\ Complete(ch1) /\ Complete(ch2)
  BY ReportedChains
<1>2. Head(ch1) \in Line(Head(ch2))
  BY <1>1, ChainOnLine DEF IsChild
<1>3. Head(ch1) # Head(ch2)
  BY <1>1, SameHead DEF IsChild
<1> QED
  BY <1>2, <1>3

\* Every chain begins on the line of a unique one: the latest of those whose
\* lines it begins on.
LEMMA BelowUnique ==
  ASSUME RoundPart, pc = "reported", NEW ch \in Chains
  PROVE  \E u \in UniqueChains : Head(ch) \in Line(Head(u))
<1> DEFINE Over == {c2 \in Chains : Head(ch) \in Line(Head(c2))}
<1> DEFINE Heads == {Head(c2) : c2 \in Over}
<1>1. Tree /\ Len(tree) \in Nat
      /\ \A c2 \in Chains : IsLine(c2) /\ Complete(c2) /\ Head(c2) \in Nodes
  BY ReportedChains, Parents
<1>2. ch \in Over
  BY <1>1, LineClosed
<1>3. Heads \in SUBSET (0 .. Len(tree)) /\ Heads # {}
  BY <1>1, <1>2 DEF Nodes
<1>4. PICK h \in Heads : \A k \in Heads : k <= h
  <2> HIDE DEF Heads
  <2> QED
    BY <1>1, <1>3, MaxUpTo
<1>5. PICK u \in Over : h = Head(u)
  BY <1>4
<1>6. ASSUME NEW c2 \in Chains, IsChild(u, c2) PROVE FALSE
  <2>1. Head(u) \in Line(Head(c2)) /\ Head(u) # Head(c2)
    BY <1>5, <1>6, ChildIsBehind
  <2>2. Head(u) <= Head(c2) /\ Line(Head(u)) \subseteq Line(Head(c2))
    BY <1>1, <2>1, LineBelow, LineTransitive
  <2>3. c2 \in Over
    BY <1>5, <2>2
  <2>4. Head(c2) <= Head(u)
    BY <1>4, <1>5, <2>3
  <2>5. Head(u) \in Nat /\ Head(c2) \in Nat
    BY <1>1, <1>5 DEF Nodes
  <2> QED
    BY <2>1, <2>2, <2>4, <2>5
<1>7. u \in UniqueChains
  BY <1>5, <1>6 DEF UniqueChains
<1> QED
  BY <1>5, <1>7

\* All of a path is on the line of the chain it hangs below.
LEMMA PathOnLine ==
  ASSUME RoundPart, pc = "reported", NEW ch \in Chains, NEW s \in Seq(Chains),
         IsPath(ch, s), NEW x \in {ch} \cup ToSet(s)
  PROVE  x \in Chains /\ Head(x) \in Line(Head(ch))
<1> DEFINE path == <<ch>> \o s
<1> DEFINE G == {n \in 0 .. Len(s) : Head(path[n + 1]) \in Line(Head(ch))}
<1>1. Tree /\ \A c2 \in Chains : Head(c2) \in Nodes
  BY ReportedChains
<1>2. /\ Len(s) \in Nat /\ path \in Seq(Chains) /\ Len(path) = Len(s) + 1
      /\ path[1] = ch /\ \A i \in 1 .. Len(s) : path[i + 1] = s[i]
      /\ \A i \in 1 .. Len(path) : path[i] \in Chains
  OBVIOUS
<1>3. \A i \in 1 .. Len(s) : IsChild(path[i + 1], path[i])
  BY <1>2 DEF IsPath
<1> HIDE DEF path
<1>4. 0 \in G
  BY <1>1, <1>2, LineClosed
<1>5. ASSUME NEW n \in 1 .. Len(s), n - 1 \in G PROVE n \in G
  <2>1. (n - 1) + 1 = n /\ n \in 1 .. Len(path) /\ n + 1 \in 1 .. Len(path)
        /\ n \in 0 .. Len(s)
    BY <1>2
  <2>2. Head(path[n]) \in Line(Head(ch)) /\ path[n] \in Chains /\ path[n + 1] \in Chains
    BY <1>2, <1>5, <2>1
  <2>3. Head(path[n + 1]) \in Line(Head(path[n]))
    BY <1>3, <2>2, ChildIsBehind
  <2>4. Head(path[n + 1]) \in Line(Head(ch))
    BY <1>1, <2>2, <2>3, LineTransitive
  <2> QED
    BY <2>1, <2>4
<1>6. 0 .. Len(s) \subseteq G
  <2> HIDE DEF G
  <2> QED
    BY <1>2, <1>4, <1>5, UpTo
<1>7. CASE x = ch
  BY <1>1, <1>7, LineClosed
<1>8. CASE x \in ToSet(s)
  <2>1. PICK i \in 1 .. Len(s) : x = s[i]
    BY <1>8 DEF ToSet
  <2>2. x = path[i + 1] /\ i \in 0 .. Len(s) /\ i + 1 \in 1 .. Len(path)
    BY <1>2, <2>1
  <2> QED
    BY <1>2, <1>6, <2>2
<1> QED
  BY <1>7, <1>8

\* Two blocks on one line are not on different branches.
LEMMA NotForked ==
  ASSUME Tree, NEW b \in Nodes, NEW c, NEW d,
         Latest(c) \in Line(b), Latest(d) \in Line(b)
  PROVE  ~Forked(c, d)
  BY LineLinear DEF Forked

\* Two different unique chains are more than one.
LEMMA TwoUnique ==
  UniqueChains \subseteq Chains /\ IsFiniteSet(UniqueChains)
  /\ (Cardinality(UniqueChains) > 1 <=> \E u, v \in UniqueChains : u # v)
<1>1. UniqueChains \in SUBSET Chains
  BY DEF UniqueChains
<1>2. IsFiniteSet(UniqueChains) /\ Cardinality(UniqueChains) \in Nat
  BY <1>1, ChainsFinite, FS_Subset, FS_CardinalityType
<1>3. ASSUME NEW u \in UniqueChains, NEW v \in UniqueChains, u # v
      PROVE  Cardinality(UniqueChains) > 1
  <2>1. Cardinality(UniqueChains) # 0
    BY <1>2, FS_EmptySet
  <2>2. Cardinality(UniqueChains) # 1
    <3>1. ASSUME \E x : UniqueChains = {x} PROVE FALSE
      BY <1>3, <3>1
    <3> QED
      BY <1>2, <3>1, FS_Singleton
  <2> QED
    BY <1>2, <2>1, <2>2
<1>4. ASSUME Cardinality(UniqueChains) > 1
      PROVE  \E u, v \in UniqueChains : u # v
  <2>1. UniqueChains # {}
    BY <1>4, FS_EmptySet
  <2>2. PICK u \in UniqueChains : TRUE
    BY <2>1
  <2>3. UniqueChains # {u}
    <3>1. Cardinality({u}) = 1
      BY FS_Singleton
    <3> QED
      BY <1>4, <3>1
  <2> QED
    BY <2>2, <2>3
<1> QED
  BY <1>1, <1>2, <1>3, <1>4

\* Clients on different branches are never on one chain or one behind the
\* other, and there is more than one unique chain; who answered is seen.
THEOREM EveryForkReported == Spec => []ForksReported
<1>1. ASSUME IInv PROVE ForksReported
  <2> SUFFICES ASSUME pc = "reported"
               PROVE  /\ Fetched # {} => unique # {}
                      /\ \A c, d \in Fetched : Forked(c, d) =>
                           /\ Cardinality(unique) > 1
                           /\ \A ch \in Chains : ~({chain[c], chain[d]} \subseteq
                                                     ({ch} \cup ToSet(syncing[ch])))
    BY DEF ForksReported
  <2>1. RoundPart /\ ReportPart /\ unique = UniqueChains
        /\ \A ch \in Chains : syncing[ch] \in Seq(Chains) /\ IsPath(ch, syncing[ch])
    BY <1>1, PartsOf DEF ReportPart, ReportInv
  <2>2. Tree /\ (\A ch \in Chains : Head(ch) \in Nodes)
        /\ \A c \in Fetched : chain[c] \in Chains /\ Latest(c) = Head(chain[c])
    BY <2>1, ReportedChains DEF Latest
  <2>3. ASSUME Fetched # {} PROVE unique # {}
    <3>1. PICK ch \in Chains : TRUE
      BY <2>3, ChainsFinite
    <3> QED
      BY <2>1, <3>1, BelowUnique
  <2>4. ASSUME NEW c \in Fetched, NEW d \in Fetched, Forked(c, d)
        PROVE  Cardinality(unique) > 1
    <3>1. PICK u \in UniqueChains : Latest(c) \in Line(Head(u))
      BY <2>1, <2>2, BelowUnique
    <3>2. PICK v \in UniqueChains : Latest(d) \in Line(Head(v))
      BY <2>1, <2>2, BelowUnique
    <3>3. u # v
      <4>1. Head(u) \in Nodes
        BY <2>2, TwoUnique
      <4> QED
        BY <2>2, <2>4, <3>1, <3>2, <4>1, NotForked
    <3> QED
      BY <2>1, <3>3, TwoUnique
  <2>5. ASSUME NEW c \in Fetched, NEW d \in Fetched, Forked(c, d), NEW ch \in Chains,
               {chain[c], chain[d]} \subseteq {ch} \cup ToSet(syncing[ch])
        PROVE  FALSE
    <3>1. Latest(c) \in Line(Head(ch)) /\ Latest(d) \in Line(Head(ch))
      BY <2>1, <2>2, <2>5, PathOnLine
    <3> QED
      BY <2>2, <2>5, <3>1, NotForked
  <2> QED
    BY <2>3, <2>4, <2>5
<1> QED
  BY <1>1, InductiveInvariant, PTL

\* A chain that is listed as syncing is behind the one before it in the list.
THEOREM SyncingBehind == Spec => []SyncingIsBehind
<1>1. ASSUME IInv PROVE SyncingIsBehind
  <2> SUFFICES ASSUME pc = "reported", NEW ch \in unique
               PROVE  LET path == <<ch>> \o syncing[ch]
                      IN  \A i \in 1 .. Len(path) - 1 :
                            /\ Head(path[i + 1]) # Head(path[i])
                            /\ Head(path[i + 1]) \in Line(Head(path[i]))
    BY DEF SyncingIsBehind
  <2>1. RoundPart /\ ch \in Chains /\ syncing[ch] \in Seq(Chains)
        /\ IsPath(ch, syncing[ch])
    BY <1>1, PartsOf DEF ReportPart, ReportInv, UniqueChains
  <2> DEFINE path == <<ch>> \o syncing[ch]
  <2>2. path \in Seq(Chains) /\ Len(path) \in Nat
    BY <2>1
  <2>3. \A i \in 1 .. Len(path) - 1 : IsChild(path[i + 1], path[i])
    BY <2>1 DEF IsPath
  <2> HIDE DEF path
  <2>4. ASSUME NEW i \in 1 .. Len(path) - 1
        PROVE  /\ Head(path[i + 1]) # Head(path[i])
               /\ Head(path[i + 1]) \in Line(Head(path[i]))
    <3>1. i \in 1 .. Len(path) /\ i + 1 \in 1 .. Len(path)
      BY <2>2
    <3>2. path[i] \in Chains /\ path[i + 1] \in Chains
      BY <2>2, <3>1, ElementOfSeq
    <3> QED
      BY <2>1, <2>3, <3>2, ChildIsBehind
  <2> QED
    BY <2>4 DEF path
<1> QED
  BY <1>1, InductiveInvariant, PTL

\* A chain that begins on the line of another one and is not its child is a
\* whole window behind: the window is full, and all of it lies in between.
LEMMA WindowBehind ==
  ASSUME RoundPart, pc = "reported", NEW ch1 \in Chains, NEW ch2 \in Chains,
         ch1 # ch2, ~IsChild(ch1, ch2), Head(ch1) \in Line(Head(ch2))
  PROVE  Distance(Head(ch1), Head(ch2)) >= Window
<1> DEFINE a == Head(ch1)
<1> DEFINE b == Head(ch2)
<1> DEFINE l == Last(ch2)
<1>1. Tree /\ IsLine(ch2) /\ Complete(ch2) /\ a \in Nodes /\ b \in Nodes
  BY ReportedChains
<1>2. a \notin ToSet(ch2)
  BY DEF IsChild
<1>3. l \in ToSet(ch2) /\ l \in Nodes /\ l = ch2[Len(ch2)] /\ Len(ch2) \in Nat \ {0}
      /\ ToSet(ch2) \in SUBSET Nodes
  BY <1>1, ElementsOf DEF IsLine
<1>4. a \in Line(l)
  BY <1>1, <1>2, RestOfLine
<1>5. a < l
  <2>1. a <= l /\ a # l
    BY <1>1, <1>2, <1>3, <1>4, LineBelow
  <2> QED
    BY <1>1, <1>3, <2>1 DEF Nodes
<1>6. Len(ch2) = Window
  <2>1. l # 0
    BY <1>1, <1>3, <1>5 DEF Nodes
  <2> QED
    BY <1>1, <2>1 DEF Complete
<1>7. ASSUME NEW x \in ToSet(ch2) PROVE x \in Line(b) /\ x \notin Line(a)
  <2>1. PICK i \in 1 .. Len(ch2) : x = ch2[i]
    BY <1>1, ElementsOf
  <2>2. l <= x
    <3>1. CASE i = Len(ch2)
      BY <1>3, <2>1, <3>1 DEF Nodes
    <3>2. CASE i < Len(ch2)
      <4>1. Len(ch2) \in 1 .. Len(ch2)
        BY <1>3
      <4>2. l < x
        BY <1>1, <1>3, <2>1, <3>2, <4>1, ChainDescends
      <4> QED
        BY <1>3, <4>2 DEF Nodes
    <3> QED
      BY <1>3, <2>1, <3>1, <3>2
  <2>3. x \in Line(a) => x <= a
    BY <1>1, LineBelow
  <2>4. x \in Nat /\ l \in Nat /\ a \in Nat
    BY <1>1, <1>3 DEF Nodes
  <2>5. x \in Line(b)
    BY <1>1, ChainOnLine
  <2> QED
    BY <1>5, <2>2, <2>3, <2>4, <2>5
<1>8. IsFiniteSet(ToSet(ch2)) /\ Cardinality(ToSet(ch2)) = Window
  <2> DEFINE f == [i \in 1 .. Window |-> ch2[i]]
  <2>1. Window \in Nat \ {0} /\ IsFiniteSet(1 .. Window) /\ Cardinality(1 .. Window) = Window
    <3>1. 1 \in Int /\ Window \in Int /\ ~(1 > Window) /\ Window - 1 + 1 = Window
      OBVIOUS
    <3> QED
      BY <3>1, FS_Interval
  <2>2. f \in Surjection(1 .. Window, ToSet(ch2))
    BY <1>1, <1>6, ElementsOf DEF Surjection
  <2>3. \A i, j \in 1 .. Window : f[i] = f[j] => i = j
    <3> SUFFICES ASSUME NEW i \in 1 .. Window, NEW j \in 1 .. Window, ch2[i] = ch2[j], i # j
                 PROVE  FALSE
      OBVIOUS
    <3>1. ch2[i] \in Nat /\ ch2[j] \in Nat
      BY <1>1, <1>6, ElementsOf DEF Nodes
    <3>2. i < j => ch2[j] < ch2[i]
      BY <1>1, <1>6, ChainDescends
    <3>3. j < i => ch2[i] < ch2[j]
      BY <1>1, <1>6, ChainDescends
    <3> QED
      BY <3>1, <3>2, <3>3
  <2>4. f \in Injection(1 .. Window, ToSet(ch2))
    <3>1. f \in [1 .. Window -> ToSet(ch2)] /\ DOMAIN f = 1 .. Window
      BY <2>2 DEF Surjection
    <3> HIDE DEF f
    <3> QED
      BY <2>3, <3>1 DEF Injection, IsInjective
  <2> HIDE DEF f
  <2> QED
    BY <2>1, <2>2, <2>4, FS_Surjection
<1>9. /\ IsFiniteSet(Line(a)) /\ IsFiniteSet(Line(b))
      /\ Cardinality(Line(a)) \in Nat /\ Cardinality(Line(b)) \in Nat
  <2>1. IsFiniteSet(Nodes)
    BY <1>1, Parents, FS_Interval DEF Nodes
  <2>2. Line(a) \in SUBSET Nodes /\ Line(b) \in SUBSET Nodes
    BY <1>1, LineClosed
  <2> QED
    BY <2>1, <2>2, FS_Subset, FS_CardinalityType
<1>10. Cardinality(Line(a) \cup ToSet(ch2)) = Cardinality(Line(a)) + Window
       /\ IsFiniteSet(Line(a) \cup ToSet(ch2))
  <2>1. Line(a) \cap ToSet(ch2) = {} /\ Cardinality({}) = 0
    BY <1>7, FS_EmptySet
  <2> HIDE DEF a
  <2> QED
    BY <1>8, <1>9, <2>1, FS_Union
<1>11. Line(a) \cup ToSet(ch2) \in SUBSET Line(b)
  BY <1>1, <1>7, LineTransitive
<1>12. Cardinality(Line(a)) + Window <= Cardinality(Line(b))
  <2> HIDE DEF a, b
  <2> QED
    BY <1>9, <1>10, <1>11, FS_Subset
<1>13. Cardinality(Line(b)) - Cardinality(Line(a)) >= Window
  <2> HIDE DEF a, b
  <2> QED
    BY <1>9, <1>12
<1> QED
  BY <1>13 DEF Distance

\* More than one unique chain means a fork, or a client a window behind.
THEOREM ForksAreReal == Spec => []NoFalseForks
<1>1. ASSUME IInv PROVE NoFalseForks
  <2> DEFINE Real(c, d) == Forked(c, d) \/ (/\ Latest(c) \in Line(Latest(d))
                                            /\ Distance(Latest(c), Latest(d)) >= Window)
  <2> SUFFICES ASSUME pc = "reported", Cardinality(unique) > 1
               PROVE  \E c, d \in Fetched : Real(c, d)
    BY DEF NoFalseForks
  <2>1. RoundPart /\ unique = UniqueChains
    BY <1>1, PartsOf DEF ReportPart, ReportInv
  <2>2. PICK u \in UniqueChains, v \in UniqueChains : u # v
    BY <2>1, TwoUnique
  <2>3. u \in Chains /\ v \in Chains /\ ~IsChild(u, v) /\ ~IsChild(v, u)
    BY <2>2 DEF UniqueChains
  <2>4. PICK c \in Fetched, d \in Fetched : u = chain[c] /\ v = chain[d]
    BY <2>3 DEF Chains
  <2>5. Latest(c) = Head(u) /\ Latest(d) = Head(v)
    BY <2>4 DEF Latest
  <2>6. CASE Forked(c, d)
    BY <2>6
  <2>7. CASE Latest(c) \in Line(Latest(d))
    <3>1. Distance(Latest(c), Latest(d)) >= Window
      BY <2>1, <2>2, <2>3, <2>5, <2>7, WindowBehind
    <3> QED
      BY <2>7, <3>1
  <2>8. CASE Latest(d) \in Line(Latest(c))
    <3>1. Distance(Latest(d), Latest(c)) >= Window
      BY <2>1, <2>2, <2>3, <2>5, <2>8, WindowBehind
    <3> QED
      BY <2>8, <3>1
  <2> QED
    BY <2>6, <2>7, <2>8 DEF Forked
<1> QED
  BY <1>1, InductiveInvariant, PTL
=============================================================================
