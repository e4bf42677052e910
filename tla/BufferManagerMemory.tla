------------------------ MODULE BufferManagerMemory ------------------------
(***************************************************************************)
(* The memory of the buffer manager, for any finite numbers of threads and *)
(* pages and any sizes of the pool and of the buffers: what frames and     *)
(* buffers occupy never exceeds the pool, where no rollback races with an  *)
(* eviction of the page that it drops (Races = {}).                        *)
(*                                                                         *)
(* The threads share the pool, and what they have is added up.  The first  *)
(* part shows, by the least counterexample, how MapThenSumSet adds.  The   *)
(* invariant follows each unit of memory from a frame through the hands of *)
(* the thread that evicts it into a frame or a buffer again.               *)
(***************************************************************************)
EXTENDS BufferManagerProofs, FiniteSetTheorems, WellFoundedInduction

-----------------------------------------------------------------------------
(* Sums over the threads.                                                  *)

Total(f) == MapThenSumSet(LAMBDA t : f[t], Threads)

\* The recursion of MapThenFoldSet: g[s] is the sum over the threads in s.
Summed(f, g, s) ==
    IF s = {} THEN 0 ELSE f[CHOOSE x \in s : TRUE] + g[s \ {CHOOSE x \in s : TRUE}]

IsSum(f, g) == g = [s \in SUBSET Threads |-> Summed(f, g, s)]

\* A set of numbers has a least one.
LEMMA LeastNumber ==
    ASSUME NEW S \in SUBSET Nat, S # {}
    PROVE  \E x \in S : \A y \in S : x <= y
<1>1. PICK x \in S : \A y \in S : ~ (<<y, x>> \in OpToRel(<, Nat))
  BY NatLessThanWellFounded, WFMin, Zenon
<1>2. \A y \in S : ~ (y < x)
  BY <1>1, Zenon DEF OpToRel
<1> QED  BY <1>2

\* Sets of threads are finite, and smaller by one without a member.
LEMMA ThreadSets ==
    ASSUME NEW s \in SUBSET Threads
    PROVE  /\ Cardinality(s) \in Nat
           /\ Cardinality(s) = 0 <=> s = {}
           /\ \A x \in s : Cardinality(s \ {x}) = Cardinality(s) - 1
<1>1. IsFiniteSet(s)
  BY ConstantsAssumption, FS_Subset, Zenon DEF ConstantsAssumption
<1>2. Cardinality(s) \in Nat
  BY <1>1, FS_CardinalityType, Zenon
<1>3. Cardinality(s) = 0 <=> s = {}
  BY <1>1, FS_EmptySet, Zenon
<1>4. \A x \in s : Cardinality(s \ {x}) = Cardinality(s) - 1
  BY <1>1, FS_RemoveElement, Zenon
<1> QED  BY <1>2, <1>3, <1>4, Zenon

\* Among sets of threads there is one with the fewest members.
LEMMA SmallestSet ==
    ASSUME NEW B \in SUBSET (SUBSET Threads), B # {}
    PROVE  \E s \in B : \A r \in B : Cardinality(s) <= Cardinality(r)
<1> DEFINE N == {Cardinality(s) : s \in B}
<1>1. \A s \in B : Cardinality(s) \in Nat
  BY ThreadSets, Zenon
<1>2. N \in SUBSET Nat /\ N # {}
  BY <1>1, Zenon
<1>3. PICK n \in N : \A m \in N : n <= m
  <2> HIDE DEF N
  <2> QED  BY <1>2, LeastNumber, Zenon
<1> QED  BY <1>3, Zenon

\* There is a function for the recursion: one for the sets of at most n
\* threads extends to those of n + 1.
LEMMA SumExists ==
    ASSUME NEW f
    PROVE  \E g : IsSum(f, g)
<1> DEFINE D(n) == {s \in SUBSET Threads : Cardinality(s) <= n}
           Good(n) == \E g : g = [s \in D(n) |-> Summed(f, g, s)]
           Bad == {n \in Nat : ~Good(n)}
<1>1. Good(0)
  <2>1. \A s \in D(0) : s = {}
    <3> SUFFICES ASSUME NEW s \in D(0) PROVE s = {}
      OBVIOUS
    <3>1. Cardinality(s) \in Nat /\ Cardinality(s) <= 0
      BY ThreadSets, Zenon
    <3>2. Cardinality(s) = 0
      BY <3>1
    <3> QED  BY <3>2, ThreadSets, Zenon
  <2>2. \A g : \A s \in D(0) : Summed(f, g, s) = 0
    BY <2>1, Zenon DEF Summed
  <2>3. [s \in D(0) |-> 0] = [s \in D(0) |-> Summed(f, [r \in D(0) |-> 0], s)]
    BY <2>2, Zenon
  <2> QED  BY <2>3, Zenon
<1>2. ASSUME NEW n \in Nat, Good(n)
      PROVE  Good(n + 1)
  <2>1. PICK g : g = [s \in D(n) |-> Summed(f, g, s)]
    BY <1>2, Zenon
  <2> DEFINE h == [s \in D(n + 1) |-> Summed(f, g, s)]
  <2>2. ASSUME NEW s \in D(n + 1)
        PROVE  Summed(f, h, s) = Summed(f, g, s)
    <3>1. CASE s = {}
      BY <3>1, Zenon DEF Summed
    <3>2. CASE s # {}
      <4> DEFINE r == s \ {CHOOSE x \in s : TRUE}
      <4>1. (CHOOSE x \in s : TRUE) \in s
        BY <3>2, Zenon
      <4>2. Cardinality(s) \in Nat /\ Cardinality(r) = Cardinality(s) - 1
        BY <4>1, ThreadSets, Zenon
      <4>3. Cardinality(r) <= n /\ Cardinality(r) <= n + 1
        <5>1. Cardinality(s) <= n + 1
          BY Zenon
        <5> QED  BY <4>2, <5>1
      <4>4. r \in D(n) /\ r \in D(n + 1)
        BY <4>3, Zenon
      <4>5. h[r] = Summed(f, g, r) /\ g[r] = Summed(f, g, r)
        BY <4>4, <2>1, Zenon
      <4>6. h[r] = g[r]
        BY <4>5, Zenon
      <4> HIDE DEF h, D
      <4> QED  BY <3>2, <4>6, Zenon DEF Summed
    <3> QED  BY <3>1, <3>2, Zenon
  <2>3. h = [s \in D(n + 1) |-> Summed(f, h, s)]
    BY <2>2, Zenon
  <2> HIDE DEF h
  <2> QED  BY <2>3, Zenon
<1>3. Bad = {}
  <2> HIDE DEF Good
  <2> SUFFICES ASSUME Bad # {} PROVE FALSE
    BY Zenon
  <2>1. PICK n \in Bad : \A m \in Bad : n <= m
    BY LeastNumber, Bad \in SUBSET Nat, Zenon
  <2>2. n \in Nat /\ n # 0 /\ ~Good(n)
    BY <2>1, <1>1, Zenon
  <2>3. n - 1 \in Nat /\ (n - 1) + 1 = n /\ ~(n <= n - 1)
    BY <2>2
  <2>4. ~Good(n - 1)
    BY <2>2, <2>3, <1>2, Zenon
  <2>5. n - 1 \in Bad
    BY <2>3, <2>4, Zenon
  <2> QED  BY <2>1, <2>3, <2>5, Zenon
<1>4. PICK n \in Nat : \A s \in SUBSET Threads : Cardinality(s) <= n
  <2>1. Cardinality(Threads) \in Nat
    BY ThreadSets, Zenon
  <2>2. \A s \in SUBSET Threads : Cardinality(s) <= Cardinality(Threads)
    BY ConstantsAssumption, FS_Subset, Zenon DEF ConstantsAssumption
  <2> QED  BY <2>1, <2>2, Zenon
<1>5. D(n) = SUBSET Threads
  BY <1>4, Zenon
<1>6. Good(n)
  BY <1>3, Zenon
<1> QED  BY <1>5, <1>6, Zenon DEF IsSum

\* MapThenSumSet is the value of such a function.
LEMMA TotalIsSum ==
    ASSUME NEW f
    PROVE  \E g : IsSum(f, g) /\ Total(f) = g[Threads]
<1> DEFINE iter == CHOOSE g : g = [s \in SUBSET Threads |-> Summed(f, g, s)]
<1>1. IsSum(f, iter)
  BY SumExists, Zenon DEF IsSum
<1>2. Total(f) = iter[Threads]
  BY DEF Total, MapThenSumSet, MapThenFoldSet, Summed
<1> QED  BY <1>1, <1>2, Zenon

Adds(f, g) ==
    \A s \in SUBSET Threads : g[s] \in Nat /\ \A x \in s : g[s] = f[x] + g[s \ {x}]

\* The sum of a set is that of the set without a member, and the member's
\* value: the order in which the threads are chosen does not matter.
LEMMA SumFacts ==
    ASSUME NEW f \in [Threads -> Nat], NEW g, IsSum(f, g)
    PROVE  Adds(f, g)
<1> DEFINE Ok(s) == g[s] \in Nat /\ \A x \in s : g[s] = f[x] + g[s \ {x}]
           Bad == {s \in SUBSET Threads : ~Ok(s)}
<1> SUFFICES ASSUME Bad # {} PROVE FALSE
  BY Zenon DEF Adds
<1>1. PICK s \in Bad : \A r \in Bad : Cardinality(s) <= Cardinality(r)
  BY SmallestSet, Bad \in SUBSET (SUBSET Threads), Zenon
<1>2. s \in SUBSET Threads /\ ~Ok(s) /\ Cardinality(s) \in Nat
  BY <1>1, ThreadSets, Zenon
<1>3. ASSUME NEW r \in SUBSET Threads, Cardinality(r) < Cardinality(s)
      PROVE  Ok(r)
  <2>1. ~(Cardinality(s) <= Cardinality(r))
    BY <1>2, <1>3, ThreadSets
  <2> QED  BY <1>1, <2>1, Zenon
<1> HIDE DEF Bad
<1>4. g[s] = Summed(f, g, s)
  BY <1>2, Zenon DEF IsSum
<1>5. CASE s = {}
  BY <1>2, <1>4, <1>5 DEF Summed
<1>6. CASE s # {}
  <2> DEFINE c == CHOOSE x \in s : TRUE
             r == s \ {c}
  <2>1. c \in s /\ r \in SUBSET Threads
    BY <1>2, <1>6, Zenon
  <2>2. g[s] = f[c] + g[r]
    BY <1>4, <1>6, Zenon DEF Summed
  <2> HIDE DEF c
  <2>3. Cardinality(r) < Cardinality(s)
    <3>1. Cardinality(r) = Cardinality(s) - 1
      BY <1>2, <2>1, ThreadSets, Zenon
    <3> QED  BY <1>2, <3>1
  <2>4. Ok(r)
    BY <1>3, <2>1, <2>3, Zenon
  <2>5. f[c] \in Nat
    BY <1>2, <2>1, Zenon
  <2>6. g[s] \in Nat
    BY <2>2, <2>4, <2>5
  <2>7. ASSUME NEW x \in s
        PROVE  g[s] = f[x] + g[s \ {x}]
    <3>1. CASE x = c
      BY <2>2, <3>1, Zenon
    <3>2. CASE x # c
      <4> DEFINE q == s \ {x}
      <4>1. /\ q \in SUBSET Threads /\ c \in q /\ x \in r /\ f[x] \in Nat
            /\ q \ {c} = r \ {x} /\ r \ {x} \in SUBSET Threads
        BY <1>2, <2>1, <3>2, Zenon
      <4>2. Cardinality(q) = Cardinality(s) - 1 /\ Cardinality(r \ {x}) = Cardinality(r) - 1
        BY <1>2, <2>1, <4>1, ThreadSets, Zenon
      <4>3. Cardinality(q) < Cardinality(s) /\ Cardinality(r \ {x}) < Cardinality(s)
        <5>1. Cardinality(r) \in Nat
          BY <2>1, ThreadSets, Zenon
        <5> QED  BY <1>2, <2>3, <4>2, <5>1
      <4>4. Ok(q) /\ Ok(r \ {x})
        BY <1>3, <4>1, <4>3, Zenon
      <4>5. g[q] = f[c] + g[r \ {x}] /\ g[r] = f[x] + g[r \ {x}] /\ g[r \ {x}] \in Nat
        BY <2>4, <4>1, <4>4, Zenon
      <4> HIDE DEF q, r, Ok
      <4>6. g[s] = f[x] + g[q]
        BY <2>2, <2>5, <4>1, <4>5
      <4> QED  BY <4>6 DEF q
    <3> QED  BY <3>1, <3>2, Zenon
  <2> QED  BY <1>2, <2>6, <2>7, Zenon
<1> QED  BY <1>5, <1>6, Zenon

Below(f, g, h, k) ==
    \A s \in SUBSET Threads : (\A x \in s : f[x] <= h[x]) => g[s] <= k[s]

\* A sum of smaller values is smaller.
LEMMA SumLess ==
    ASSUME NEW f \in [Threads -> Nat], NEW g, IsSum(f, g),
           NEW h \in [Threads -> Nat], NEW k, IsSum(h, k)
    PROVE  Below(f, g, h, k)
<1> DEFINE Ok(s) == (\A x \in s : f[x] <= h[x]) => g[s] <= k[s]
           Bad == {s \in SUBSET Threads : ~Ok(s)}
<1> SUFFICES ASSUME Bad # {} PROVE FALSE
  BY Zenon DEF Below
<1>1. PICK s \in Bad : \A r \in Bad : Cardinality(s) <= Cardinality(r)
  BY SmallestSet, Bad \in SUBSET (SUBSET Threads), Zenon
<1>2. /\ s \in SUBSET Threads /\ Cardinality(s) \in Nat
      /\ ~(g[s] <= k[s]) /\ \A x \in s : f[x] <= h[x]
  BY <1>1, ThreadSets, Zenon
<1>3. CASE s = {}
  <2>1. g[s] = 0 /\ k[s] = 0
    BY <1>2, <1>3, Zenon DEF IsSum, Summed
  <2> QED  BY <1>2, <2>1
<1>4. CASE s # {}
  <2>1. PICK x \in s : TRUE
    BY <1>4, Zenon
  <2> DEFINE r == s \ {x}
  <2>2. r \in SUBSET Threads /\ f[x] <= h[x] /\ f[x] \in Nat /\ h[x] \in Nat /\ \A y \in r : f[y] <= h[y]
    BY <1>2, Zenon
  <2>3. Cardinality(r) = Cardinality(s) - 1
    BY <1>2, ThreadSets, Zenon
  <2>4. ~(Cardinality(s) <= Cardinality(r))
    BY <1>2, <2>3
  <2>5. g[r] <= k[r]
    BY <1>1, <2>2, <2>4, Zenon
  <2>6. g[s] = f[x] + g[r] /\ k[s] = h[x] + k[r] /\ g[r] \in Nat /\ k[r] \in Nat
    <3>1. Adds(f, g) /\ Adds(h, k)
      BY SumFacts, Zenon
    <3> QED  BY <1>2, <2>2, <3>1, Zenon DEF Adds
  <2> HIDE DEF r
  <2> QED  BY <1>2, <2>2, <2>5, <2>6
<1> QED  BY <1>3, <1>4, Zenon

\* The total of all threads but one.
Rest(f, t) == Total(f) - f[t]

\* What the total is a sum of.
LEMMA TotalFacts ==
    ASSUME NEW f \in [Threads -> Nat]
    PROVE  \E g : /\ IsSum(f, g) /\ Total(f) = g[Threads] /\ Total(f) \in Nat
                  /\ \A t \in Threads : /\ f[t] \in Nat /\ g[Threads \ {t}] \in Nat
                                        /\ Total(f) = f[t] + g[Threads \ {t}]
<1>1. PICK g : IsSum(f, g) /\ Total(f) = g[Threads]
  BY TotalIsSum, Zenon
<1>2. Adds(f, g)
  BY <1>1, SumFacts, Zenon
<1>3. Threads \in SUBSET Threads /\ \A t \in Threads : Threads \ {t} \in SUBSET Threads
  BY Zenon
<1>4. \A t \in Threads : f[t] \in Nat
  BY Zenon
<1> QED  BY <1>1, <1>2, <1>3, <1>4, Zenon DEF Adds

\* Totals and rests are numbers.
LEMMA RestType ==
    ASSUME NEW f \in [Threads -> Nat], NEW t \in Threads
    PROVE  Rest(f, t) \in Nat /\ Total(f) = f[t] + Rest(f, t) /\ f[t] \in Nat
<1>1. PICK g : f[t] \in Nat /\ g[Threads \ {t}] \in Nat /\ Total(f) = f[t] + g[Threads \ {t}]
  BY TotalFacts, Zenon
<1> QED  BY <1>1 DEF Rest

\* Where the others have less, the rest is smaller.
LEMMA RestLess ==
    ASSUME NEW f \in [Threads -> Nat], NEW h \in [Threads -> Nat], NEW t \in Threads,
           \A u \in Threads \ {t} : f[u] <= h[u]
    PROVE  Rest(f, t) <= Rest(h, t)
<1>1. PICK g : /\ IsSum(f, g)
               /\ f[t] \in Nat /\ g[Threads \ {t}] \in Nat /\ Total(f) = f[t] + g[Threads \ {t}]
  BY TotalFacts, Zenon
<1>2. PICK k : /\ IsSum(h, k)
               /\ h[t] \in Nat /\ k[Threads \ {t}] \in Nat /\ Total(h) = h[t] + k[Threads \ {t}]
  BY TotalFacts, Zenon
<1>3. Below(f, g, h, k)
  BY <1>1, <1>2, SumLess, Zenon
<1>4. g[Threads \ {t}] <= k[Threads \ {t}]
  BY <1>3, Threads \ {t} \in SUBSET Threads, Zenon DEF Below
<1> QED  BY <1>1, <1>2, <1>4 DEF Rest

\* Smaller values have a smaller total.
LEMMA TotalLess ==
    ASSUME NEW f \in [Threads -> Nat], NEW h \in [Threads -> Nat],
           \A u \in Threads : f[u] <= h[u]
    PROVE  Total(f) <= Total(h) /\ Total(f) \in Nat /\ Total(h) \in Nat
<1>1. PICK g : IsSum(f, g) /\ Total(f) = g[Threads] /\ Total(f) \in Nat
  BY TotalFacts, Zenon
<1>2. PICK k : IsSum(h, k) /\ Total(h) = k[Threads] /\ Total(h) \in Nat
  BY TotalFacts, Zenon
<1>3. Below(f, g, h, k)
  BY <1>1, <1>2, SumLess, Zenon
<1>4. g[Threads] <= k[Threads]
  BY <1>3, Threads \in SUBSET Threads, Zenon DEF Below
<1> QED  BY <1>1, <1>2, <1>4, Zenon

\* Nothing adds up to nothing.
LEMMA NoTotal ==
    ASSUME NEW f \in [Threads -> Nat], \A t \in Threads : f[t] = 0
    PROVE  Total(f) = 0
<1> DEFINE k == [s \in SUBSET Threads |-> 0]
<1>1. ASSUME NEW s \in SUBSET Threads
      PROVE  Summed(f, k, s) = 0
  <2>1. CASE s = {}
    BY <2>1, Zenon DEF Summed
  <2>2. CASE s # {}
    <3> DEFINE c == CHOOSE x \in s : TRUE
    <3>1. f[c] = 0 /\ k[s \ {c}] = 0
      BY <2>2, Zenon
    <3>2. Summed(f, k, s) = f[c] + k[s \ {c}]
      BY <2>2, Zenon DEF Summed
    <3> QED  BY <3>1, <3>2
  <2> QED  BY <2>1, <2>2, Zenon
<1>2. IsSum(f, k)
  BY <1>1, Zenon DEF IsSum
<1>3. PICK g : IsSum(f, g) /\ Total(f) = g[Threads] /\ Total(f) \in Nat
  BY TotalFacts, Zenon
<1>4. \A x \in Threads : f[x] <= f[x]
  OBVIOUS
<1>5. k[Threads] = 0
  BY Threads \in SUBSET Threads, Zenon
<1> HIDE DEF k
<1>6. Below(f, g, f, k)
  BY <1>2, <1>3, SumLess, Zenon
<1>7. g[Threads] <= k[Threads]
  BY <1>4, <1>6, Threads \in SUBSET Threads, Zenon DEF Below
<1> QED  BY <1>3, <1>5, <1>7

-----------------------------------------------------------------------------
(* The invariant.                                                          *)

\* A page that was evicted and whose candidate is not cleared yet: its memory
\* is free, and the thread has not counted it.
inFlight(t) == IF pc[t] = "clear" THEN 1 ELSE 0

\* The memory a thread has at its disposal: its buffer, and what it evicted.
Kept == [t \in Threads |-> malloced[t] + claimed[t] + freed[t] + inFlight(t)]

\* That, and what it is reserving.
Asked == [t \in Threads |-> malloced[t] + claimed[t] + freed[t] + inFlight(t) + size[t]]

Loads(p) == \E t \in Threads : Pins(t, p) /\ pc[t] \in loading

\* The pages in frames, and those that a pin has left locked when it failed in
\* the eviction queue: a checkpoint writes to their frames.
Occupied == {p \in Pages : frame[p] # None \/ (word[p].state = "LOCKED" /\ ~Loads(p))}

MemoryTypes ==
    /\ usedMemory \in Int
    /\ size \in [Threads -> Nat] /\ claimed \in [Threads -> Nat]
    /\ freed \in [Threads -> Nat] /\ malloced \in [Threads -> Nat]

\* A pin reserves one page.
SizeInv == \A t \in Threads : pc[t] \in loading /\ op[t] # "alloc" => size[t] = 1

\* usedMemory covers what is occupied, evicted and asked for.  Without what
\* is asked for, it fits into the pool.
CoverInv == Cardinality(Occupied) + Total(Asked) <= usedMemory
PoolInv == Cardinality(Occupied) + Total(Kept) <= PoolSize

MemoryInv == MemoryTypes /\ SizeInv /\ CoverInv /\ PoolInv

\* Sets of pages are finite.
LEMMA PageSets ==
    ASSUME NEW S \in SUBSET Pages, NEW T \in SUBSET Pages
    PROVE  /\ Cardinality(S) \in Nat /\ Cardinality(T) \in Nat
           /\ T \subseteq S => Cardinality(T) <= Cardinality(S)
           /\ \A p \in Pages : T \subseteq S \cup {p} => Cardinality(T) <= Cardinality(S) + 1
           /\ \A p \in S : T \subseteq S \ {p} => Cardinality(T) <= Cardinality(S) - 1
<1>1. IsFiniteSet(S) /\ IsFiniteSet(T)
  BY ConstantsAssumption, FS_Subset, Zenon DEF ConstantsAssumption
<1>2. Cardinality(S) \in Nat /\ Cardinality(T) \in Nat
  BY <1>1, FS_CardinalityType, Zenon
<1>3. ASSUME NEW R \in SUBSET Pages, IsFiniteSet(R), T \subseteq R
      PROVE  Cardinality(T) <= Cardinality(R)
  BY <1>3, FS_Subset, Zenon
<1>4. ASSUME NEW p \in Pages, T \subseteq S \cup {p}
      PROVE  Cardinality(T) <= Cardinality(S) + 1
  <2>1. IsFiniteSet(S \cup {p}) /\ S \cup {p} \in SUBSET Pages
    BY <1>1, FS_AddElement, Zenon
  <2>2. Cardinality(S \cup {p}) = Cardinality(S) \/ Cardinality(S \cup {p}) = Cardinality(S) + 1
    BY <1>1, FS_AddElement, Zenon
  <2>3. Cardinality(T) <= Cardinality(S \cup {p})
    BY <1>3, <1>4, <2>1, Zenon
  <2> QED  BY <1>2, <2>2, <2>3
<1>5. ASSUME NEW p \in S, T \subseteq S \ {p}
      PROVE  Cardinality(T) <= Cardinality(S) - 1
  <2>1. IsFiniteSet(S \ {p}) /\ S \ {p} \in SUBSET Pages /\ Cardinality(S \ {p}) = Cardinality(S) - 1
    BY <1>1, FS_RemoveElement, Zenon
  <2> QED  BY <1>3, <1>5, <2>1, Zenon
<1> QED  BY <1>1, <1>2, <1>3, <1>4, <1>5, Zenon

\* What threads have are numbers.
Counted ==
    /\ Kept \in [Threads -> Nat] /\ Asked \in [Threads -> Nat]
    /\ \A u \in Threads :
        /\ inFlight(u) \in {0, 1}
        /\ size[u] \in Nat /\ claimed[u] \in Nat /\ freed[u] \in Nat /\ malloced[u] \in Nat
        /\ Kept[u] = malloced[u] + claimed[u] + freed[u] + inFlight(u)
        /\ Asked[u] = Kept[u] + size[u]
        /\ Kept[u] \in Nat /\ Asked[u] \in Nat /\ Kept[u] <= Asked[u]

\* That follows from the types.
LEMMA KeptTypes == MemoryTypes => Counted
<1> SUFFICES ASSUME MemoryTypes PROVE Counted
  OBVIOUS
<1>1. ASSUME NEW u \in Threads
      PROVE  /\ inFlight(u) \in {0, 1}
             /\ size[u] \in Nat /\ claimed[u] \in Nat /\ freed[u] \in Nat /\ malloced[u] \in Nat
  BY Zenon DEF MemoryTypes, inFlight
<1>2. ASSUME NEW a \in Nat, NEW b \in Nat, NEW c \in Nat, NEW d \in Nat, NEW e \in {0, 1}
      PROVE  b + c + d + e \in Nat /\ b + c + d + e + a \in Nat /\ b + c + d + e <= b + c + d + e + a
  OBVIOUS
<1>3. ASSUME NEW u \in Threads
      PROVE  /\ Kept[u] = malloced[u] + claimed[u] + freed[u] + inFlight(u)
             /\ Asked[u] = Kept[u] + size[u]
             /\ Kept[u] \in Nat /\ Asked[u] \in Nat /\ Kept[u] <= Asked[u]
  BY <1>1, <1>2, Zenon DEF Kept, Asked
<1>4. Kept \in [Threads -> Nat] /\ Asked \in [Threads -> Nat]
  BY <1>1, <1>2, Zenon DEF Kept, Asked
<1> QED  BY <1>1, <1>3, <1>4, Zenon DEF Counted

\* A step that changes what one thread has: the rests of the sums cancel.
LEMMA OneThread ==
    ASSUME MemoryInv, MemoryTypes', NEW t \in Threads,
           \A u \in Threads \ {t} : Kept'[u] = Kept[u] /\ Asked'[u] = Asked[u],
           \A kept \in Nat, asked \in Nat :
              /\ kept <= asked
              /\ Cardinality(Occupied) + (Asked[t] + asked) <= usedMemory
              /\ Cardinality(Occupied) + (Kept[t] + kept) <= PoolSize
              => /\ Cardinality(Occupied') + (Asked'[t] + asked) <= usedMemory'
                 /\ Cardinality(Occupied') + (Kept'[t] + kept) <= PoolSize
    PROVE  CoverInv' /\ PoolInv'
<1>1. Kept \in [Threads -> Nat] /\ Asked \in [Threads -> Nat]
  BY KeptTypes, Zenon DEF MemoryInv, Counted
<1>2. Kept' \in [Threads -> Nat] /\ Asked' \in [Threads -> Nat]
  <2>1. Counted'
    BY KeptTypes, PTL
  <2> QED  BY <2>1, Zenon DEF Counted
<1>3. \A n \in Nat : n <= n
  OBVIOUS
<1>4. \A u \in Threads : Kept[u] <= Asked[u] /\ Kept[u] \in Nat /\ Asked[u] \in Nat
  BY KeptTypes, Zenon DEF MemoryInv, Counted
<1>5. Rest(Kept, t) <= Rest(Asked, t)
  BY <1>1, <1>4, RestLess, Zenon
<1>6. Rest(Kept', t) = Rest(Kept, t)
  <2>1. Rest(Kept', t) <= Rest(Kept, t) /\ Rest(Kept, t) <= Rest(Kept', t)
    BY <1>1, <1>2, <1>3, <1>4, RestLess, Zenon
  <2>2. Rest(Kept', t) \in Nat /\ Rest(Kept, t) \in Nat
    BY <1>1, <1>2, RestType, Zenon
  <2> QED  BY <2>1, <2>2
<1>7. Rest(Asked', t) = Rest(Asked, t)
  <2>1. Rest(Asked', t) <= Rest(Asked, t) /\ Rest(Asked, t) <= Rest(Asked', t)
    BY <1>1, <1>2, <1>3, <1>4, RestLess, Zenon
  <2>2. Rest(Asked', t) \in Nat /\ Rest(Asked, t) \in Nat
    BY <1>1, <1>2, RestType, Zenon
  <2> QED  BY <2>1, <2>2
<1>8. /\ Total(Kept) = Kept[t] + Rest(Kept, t) /\ Rest(Kept, t) \in Nat
      /\ Total(Asked) = Asked[t] + Rest(Asked, t) /\ Rest(Asked, t) \in Nat
      /\ Total(Kept') = Kept'[t] + Rest(Kept, t) /\ Total(Asked') = Asked'[t] + Rest(Asked, t)
  BY <1>1, <1>2, <1>6, <1>7, RestType, Zenon
<1>9. Total(Kept)' = Total(Kept') /\ Total(Asked)' = Total(Asked')
  BY DEF Total, MapThenSumSet, MapThenFoldSet
<1>10. /\ Cardinality(Occupied) + (Asked[t] + Rest(Asked, t)) <= usedMemory
       /\ Cardinality(Occupied) + (Kept[t] + Rest(Kept, t)) <= PoolSize
  BY <1>8, Zenon DEF MemoryInv, CoverInv, PoolInv
<1>11. /\ Cardinality(Occupied') + (Asked'[t] + Rest(Asked, t)) <= usedMemory'
       /\ Cardinality(Occupied') + (Kept'[t] + Rest(Kept, t)) <= PoolSize
  BY <1>5, <1>8, <1>10, Zenon
<1> QED  BY <1>8, <1>9, <1>11, Zenon DEF CoverInv, PoolInv

-----------------------------------------------------------------------------
(* The steps that ask for no memory.                                       *)

\* No thread has more than before, and n pages and at most n of the memory
\* are given up.
LEMMA NobodyHasMore ==
    ASSUME MemoryInv, MemoryTypes', NEW n \in Nat,
           Cardinality(Occupied') + n <= Cardinality(Occupied), usedMemory <= usedMemory' + n,
           UNCHANGED <<malloced, freed>>,
           \A u \in Threads : /\ size'[u] \in {0, size[u]} /\ claimed'[u] \in {0, claimed[u]}
                              /\ pc'[u] = "clear" => pc[u] = "clear"
    PROVE  CoverInv' /\ PoolInv'
<1>1. Counted
  BY KeptTypes, Zenon DEF MemoryInv
<1>2. Counted'
  BY KeptTypes, PTL
<1>3. ASSUME NEW u \in Threads
      PROVE  Kept'[u] <= Kept[u] /\ Asked'[u] <= Asked[u]
  <2>1. /\ inFlight(u) \in {0, 1} /\ size[u] \in Nat /\ claimed[u] \in Nat
        /\ freed[u] \in Nat /\ malloced[u] \in Nat
        /\ Kept[u] = malloced[u] + claimed[u] + freed[u] + inFlight(u)
        /\ Asked[u] = Kept[u] + size[u]
    BY <1>1, Zenon DEF Counted
  <2>2. /\ Kept'[u] = malloced[u] + claimed'[u] + freed[u] + inFlight(u)'
        /\ Asked'[u] = Kept'[u] + size'[u]
    BY <1>2, Zenon DEF Counted
  <2>3. inFlight(u)' \in {0, inFlight(u)}
    BY Zenon DEF inFlight
  <2>4. size'[u] \in {0, size[u]} /\ claimed'[u] \in {0, claimed[u]}
    BY Zenon
  <2> HIDE DEF inFlight
  <2> QED  BY <2>1, <2>2, <2>3, <2>4
<1>4. Total(Kept') <= Total(Kept) /\ Total(Kept') \in Nat /\ Total(Kept) \in Nat
  BY <1>1, <1>2, <1>3, TotalLess, Zenon DEF Counted
<1>5. Total(Asked') <= Total(Asked) /\ Total(Asked') \in Nat /\ Total(Asked) \in Nat
  BY <1>1, <1>2, <1>3, TotalLess, Zenon DEF Counted
<1>6. Total(Kept)' = Total(Kept') /\ Total(Asked)' = Total(Asked')
  BY DEF Total, MapThenSumSet, MapThenFoldSet
<1>7. Cardinality(Occupied) \in Nat /\ Cardinality(Occupied') \in Nat
  BY PageSets, Occupied \in SUBSET Pages, Occupied' \in SUBSET Pages, Zenon DEF Occupied
<1>8. usedMemory \in Int /\ usedMemory' \in Int /\ PoolSize \in Nat
  BY ConstantsAssumption, Zenon DEF MemoryInv, MemoryTypes
<1>9. /\ Cardinality(Occupied) + Total(Asked) <= usedMemory
      /\ Cardinality(Occupied) + Total(Kept) <= PoolSize
  BY Zenon DEF MemoryInv, CoverInv, PoolInv
<1>10. Cardinality(Occupied') + Total(Asked') <= usedMemory'
  BY <1>5, <1>7, <1>8, <1>9
<1>11. Cardinality(Occupied') + Total(Kept') <= PoolSize
  BY <1>4, <1>7, <1>8, <1>9
<1> QED  BY <1>6, <1>10, <1>11, Zenon DEF CoverInv, PoolInv

\* Whoever loads a page goes on with it; a page gets a frame or is locked only
\* if it had a frame.
StaysPut ==
    /\ \A u \in Threads, p \in Pages :
        Pins(u, p) /\ pc[u] \in loading => (Pins(u, p) /\ pc[u] \in loading)'
    /\ \A p \in Pages :
        /\ frame'[p] # None => p \in Occupied
        /\ word'[p].state = "LOCKED" => word[p].state = "LOCKED" \/ frame[p] # None

\* Such a step occupies no new page.
LEMMA OccupiedShrinks ==
    ASSUME StaysPut
    PROVE  Occupied' \subseteq Occupied
<1> SUFFICES ASSUME NEW p \in Pages, frame'[p] # None \/ (word'[p].state = "LOCKED" /\ ~Loads(p)')
             PROVE  p \in Occupied
  BY Zenon DEF Occupied
<1>1. CASE frame'[p] # None
  BY <1>1, Zenon DEF StaysPut
<1>2. CASE word'[p].state = "LOCKED" /\ ~Loads(p)'
  <2>1. ~Loads(p)
    BY <1>2, Zenon DEF StaysPut, Loads
  <2>2. word[p].state = "LOCKED" \/ frame[p] # None
    BY <1>2, Zenon DEF StaysPut
  <2> QED  BY <2>1, <2>2, Zenon DEF Occupied
<1> QED  BY <1>1, <1>2, Zenon

\* Nothing is reserved, claimed or evicted.
Frugal ==
    /\ StaysPut
    /\ UNCHANGED <<usedMemory, malloced, freed>>
    /\ size' \in [Threads -> Nat] /\ claimed' \in [Threads -> Nat]
    /\ \A u \in Threads :
        /\ size'[u] \in {0, size[u]} /\ claimed'[u] \in {0, claimed[u]}
        /\ pc'[u] = "clear" => pc[u] = "clear"
        /\ pc'[u] \in loading /\ op'[u] # "alloc" =>
              pc[u] \in loading /\ op[u] # "alloc" /\ size'[u] = size[u]

\* Such a step preserves the memory invariant.
LEMMA FrugalStep ==
    ASSUME MemoryInv, Frugal
    PROVE  MemoryInv'
<1>1. MemoryTypes'
  BY Zenon DEF MemoryInv, MemoryTypes, Frugal
<1>2. SizeInv'
  BY Zenon DEF MemoryInv, SizeInv, Frugal
<1>3. Occupied' \subseteq Occupied
  BY OccupiedShrinks, Zenon DEF Frugal
<1>4. /\ Cardinality(Occupied') <= Cardinality(Occupied)
      /\ Cardinality(Occupied) \in Nat /\ Cardinality(Occupied') \in Nat
  BY <1>3, PageSets, Occupied \in SUBSET Pages, Occupied' \in SUBSET Pages, Zenon DEF Occupied
<1>5. Cardinality(Occupied') + 0 <= Cardinality(Occupied)
  BY <1>4
<1>6. usedMemory <= usedMemory' + 0
  BY DEF MemoryInv, MemoryTypes, Frugal
<1>7. UNCHANGED <<malloced, freed>>
  BY Zenon DEF Frugal
<1>8. \A u \in Threads : /\ size'[u] \in {0, size[u]} /\ claimed'[u] \in {0, claimed[u]}
                         /\ pc'[u] = "clear" => pc[u] = "clear"
  BY Zenon DEF Frugal
<1>9. CoverInv' /\ PoolInv'
  BY <1>1, <1>5, <1>6, <1>7, <1>8, 0 \in Nat, NobodyHasMore, Zenon
<1> QED  BY <1>1, <1>2, <1>9, Zenon DEF MemoryInv

\* A page in the state UNLOCKED or MARKED, or about to be evicted, has a frame.
LEMMA CachedHasFrame ==
    ASSUME IInv, NEW p \in Pages,
           word[p].state \in {"UNLOCKED", "MARKED"} \/ \E t \in Threads : Evicts(t, p)
    PROVE  frame[p] # None
<1>1. Cached(p)
  BY Zenon DEF IInv, DataInv
<1>2. frame[p] \in Nat
  BY <1>1, Zenon DEF Cached, IInv, Types, PageTypes
<1> QED  BY <1>2, ConstantsAssumption, Zenon

\* A thread that returns forgets what it reserved and claimed.
LEMMA ReturnIsFrugal ==
    ASSUME ThreadTypes, MemoryTypes, NEW t \in Threads, Return(t), StaysPut,
           UNCHANGED <<usedMemory, malloced, freed>>
    PROVE  Frugal
<1>1. size' \in [Threads -> Nat] /\ claimed' \in [Threads -> Nat]
  BY Zenon DEF Return, MemoryTypes
<1>2. ASSUME NEW u \in Threads
      PROVE  /\ size'[u] \in {0, size[u]} /\ claimed'[u] \in {0, claimed[u]}
             /\ pc'[u] = "clear" => pc[u] = "clear"
             /\ pc'[u] \in loading /\ op'[u] # "alloc" =>
                   pc[u] \in loading /\ op[u] # "alloc" /\ size'[u] = size[u]
  <2>1. CASE u = t
    BY <2>1, Zenon DEF Return, goto, ThreadTypes, MemoryTypes, loading
  <2>2. CASE u # t
    BY <2>2, Zenon DEF Return, goto, ThreadTypes, MemoryTypes
  <2> QED  BY <2>1, <2>2, Zenon
<1> QED  BY <1>1, <1>2, Zenon DEF Frugal

\* Starting to read or to write a page.
LEMMA StartMemory ==
    ASSUME IInv, MemoryInv, NEW t \in Threads, NEW p \in Pages, StartRead(t, p) \/ StartWrite(t, p)
    PROVE  MemoryInv'
<1>1. Frugal
  BY Zenon DEF StartRead, StartWrite, Start, goto, contents, slots, reading, reserving, evicting,
     Frugal, StaysPut, Occupied, Pins, loading, loaded, IInv, Types, ThreadTypes, MemoryInv, MemoryTypes
<1> QED  BY <1>1, FrugalStep, Zenon

\* Reading and writing a page, pinning a cached one and unpinning it.
LEMMA CallerMemory ==
    ASSUME IInv, MemoryInv, NEW t \in Threads,
           \/ WritePage(t) \/ unpin(t) \/ OptimisticLoad(t) \/ RunFunc(t) \/ Validate(t)
           \/ PinCached(t)
    PROVE  MemoryInv'
<1> USE DEF goto, Return, contents, slots, reading, reserving, evicting, loading, loaded,
            readingPlaces, Frugal, StaysPut, Pins, IInv, Types, MemoryTypes
<1>w. \A p \in Pages : word[p] \in PageWord
  BY Zenon DEF PageTypes
<1>1. CASE WritePage(t)
  <2>1. /\ page[t] \in Pages /\ Holds(t, page[t])
    BY <1>1, Zenon DEF WritePage, PlaceInv, Holds
  <2>2. \A p \in Pages : word'[p].state = word[p].state
    <3>1. \A p \in Pages : withDirty(word[p], 1).state = word[p].state
      BY <1>w, WordFields, Zenon
    <3> QED  BY <1>1, <2>1, <3>1, Zenon DEF WritePage, PageTypes
  <2>3. page[t] \in Occupied
    <3>1. word[page[t]].state = "LOCKED"
      BY <2>1, Zenon DEF LockInv
    <3>2. ~Loads(page[t])
      BY <1>1, <2>1, Zenon DEF Loads, LockInv, Holds, WritePage
    <3> QED  BY <2>1, <3>1, <3>2, Zenon DEF Occupied
  <2>4. Frugal
    BY <1>1, <2>1, <2>2, <2>3, Zenon DEF WritePage, ThreadTypes, PageTypes, MemoryInv, Occupied
  <2> QED  BY <2>4, FrugalStep, Zenon
<1>2. CASE unpin(t)
  <2>1. \A p \in Pages : word'[p].state = "LOCKED" => word[p].state = "LOCKED"
    BY <1>2, WordFields, Zenon DEF unpin, PlaceInv, PageTypes
  <2>2. StaysPut
    BY <1>2, <2>1, Zenon DEF unpin, ThreadTypes, Occupied
  <2>3. Frugal
    <3> HIDE DEF StaysPut
    <3>1. CASE op[t] = "write"
      <4> HIDE DEF Return, Frugal
      <4>1. Return(t) /\ UNCHANGED <<usedMemory, malloced, freed>>
        BY <1>2, <3>1, Zenon DEF unpin
      <4> QED  BY <2>2, <4>1, ReturnIsFrugal, Zenon DEF MemoryInv
    <3>2. CASE op[t] # "write"
      BY <1>2, <2>2, <3>2, Zenon DEF unpin, ThreadTypes, MemoryInv
    <3> QED  BY <3>1, <3>2, Zenon
  <2> QED  BY <2>3, FrugalStep, Zenon
<1>3. CASE OptimisticLoad(t)
  <2>1. \A p \in Pages : word'[p].state = "LOCKED" => word[p].state = "LOCKED"
    <3>1. \A p \in Pages : withState(word[p], "UNLOCKED").state = "UNLOCKED"
      BY <1>w, WordFields, Zenon
    <3>2. page[t] \in Pages /\ word \in [Pages -> PageWord]
      BY <1>3, Zenon DEF OptimisticLoad, PlaceInv, PageTypes
    <3>3. word' = word \/ word' = [word EXCEPT ![page[t]] = withState(@, "UNLOCKED")]
      BY <1>3, Zenon DEF OptimisticLoad
    <3> QED  BY <3>1, <3>2, <3>3, Zenon
  <2>2. Frugal
    BY <1>3, <2>1, Zenon DEF OptimisticLoad, ThreadTypes, MemoryInv, Occupied
  <2> QED  BY <2>2, FrugalStep, Zenon
<1>4. CASE RunFunc(t)
  <2>1. pc' \in [Threads -> Places] /\ pc'[t] \in {"func", "validate"}
    BY <1>4, Zenon DEF RunFunc, ThreadTypes, Places
  <2>2. Frugal
    BY <1>4, <2>1, Zenon DEF RunFunc, ThreadTypes, MemoryInv, Occupied
  <2> QED  BY <2>2, FrugalStep, Zenon
<1>5. CASE Validate(t)
  <2>1. StaysPut
    BY <1>5, Zenon DEF Validate, ThreadTypes, Occupied
  <2>2. Frugal
    <3> HIDE DEF StaysPut
    <3>1. CASE word[page[t]] = seen[t]
      <4> HIDE DEF Return, Frugal
      <4>1. Return(t) /\ UNCHANGED <<usedMemory, malloced, freed>>
        BY <1>5, <3>1, Zenon DEF Validate
      <4> QED  BY <2>1, <4>1, ReturnIsFrugal, Zenon DEF MemoryInv
    <3>2. CASE word[page[t]] # seen[t]
      BY <1>5, <2>1, <3>2, Zenon DEF Validate, ThreadTypes, MemoryInv
    <3> QED  BY <3>1, <3>2, Zenon
  <2> QED  BY <2>2, FrugalStep, Zenon
<1>6. CASE PinCached(t)
  <2>1. page[t] \in Pages /\ frame[page[t]] # None
    BY <1>6, CachedHasFrame, Zenon DEF PinCached, Lockable, PlaceInv
  <2>2. \A p \in Pages : word'[p].state = "LOCKED" => word[p].state = "LOCKED" \/ frame[p] # None
    BY <1>6, <2>1, WordFields, Zenon DEF PinCached, PageTypes
  <2>3. Frugal
    BY <1>6, <2>2, Zenon DEF PinCached, ThreadTypes, MemoryInv, Occupied
  <2> QED  BY <2>3, FrugalStep, Zenon
<1> QED  BY <1>1, <1>2, <1>3, <1>4, <1>5, <1>6, Zenon

\* The eviction queue, and the candidates that are not evicted.
LEMMA QueueMemory ==
    ASSUME IInv, MemoryInv, NEW t \in Threads,
           \/ InsertCandidate(t) \/ QueueIsFull(t) \/ NextBatch(t) \/ ScanSlot(t)
           \/ LoadCandidate(t) \/ LockVictim(t)
           \/ EvictVictim(t) /\ queue[Head(cands[t])] # victim[t]
    PROVE  MemoryInv'
<1> USE DEF goto, contents, slots, reading, reserving, evicting, loading, loaded,
            StaysPut, Pins, IInv, Types, MemoryTypes
<1>w. \A p \in Pages : word[p] \in PageWord
  BY Zenon DEF PageTypes
<1>1. CASE InsertCandidate(t)
  <2>1. pc'[t] \in {"insert", "pinned"} /\ \A u \in Threads : u # t => pc'[u] = pc[u]
    BY <1>1, Zenon DEF InsertCandidate, ThreadTypes
  <2>2. Frugal
    BY <1>1, <2>1, Zenon DEF InsertCandidate, ThreadTypes, MemoryInv, Occupied, Frugal
  <2> QED  BY <2>2, FrugalStep, Zenon
<1>2. CASE QueueIsFull(t)
  <2>1. Return(t) /\ UNCHANGED <<word, frame, usedMemory, malloced, freed>> /\ pc[t] = "insert"
    BY <1>2, Zenon DEF QueueIsFull
  <2>2. StaysPut
    BY <2>1, Zenon DEF Return, ThreadTypes, Occupied
  <2> QED  BY <2>1, <2>2, ReturnIsFrugal, FrugalStep, Zenon DEF MemoryInv
<1>3. CASE NextBatch(t)
  <2>1. Frugal
    BY <1>3, Zenon DEF NextBatch, next, ThreadTypes, MemoryInv, Occupied, Frugal
  <2> QED  BY <2>1, FrugalStep, Zenon
<1>4. CASE ScanSlot(t)
  <2>1. /\ pc' = [pc EXCEPT ![t] = pc'[t]] /\ pc'[t] \in {"scan", "next", "try"} /\ pc[t] = "scan"
        /\ UNCHANGED <<frame, op, page, size, claimed, usedMemory, malloced, freed>>
    <3> DEFINE more == Len(batch[t]) > 1
               found == LET q == queue[Head(batch[t])]
                        IN  IF q # None /\ word[q].state = "MARKED"
                            THEN Append(cands[t], Head(batch[t])) ELSE cands[t]
               done == Len(batch[t]) = 1 /\ found = <<>>
    <3>1. pc' = [pc EXCEPT ![t] = CASE more -> "scan" [] done -> "next" [] OTHER -> "try"]
      BY <1>4, Zenon DEF ScanSlot
    <3>2. ~(more /\ done)
      <4>1. batch[t] \in Seq(Slots)
        BY Zenon DEF QueueTypes
      <4>2. Len(batch[t]) > 1 => ~(Len(batch[t]) = 1)
        <5>1. \A m \in Nat : m > 1 => ~(m = 1)
          OBVIOUS
        <5>2. Len(batch[t]) \in Nat
          BY <4>1
        <5> QED  BY <5>1, <5>2, Zenon
      <4> QED  BY <4>2, Zenon
    <3> HIDE DEF more, done
    <3>3. (CASE more -> "scan" [] done -> "next" [] OTHER -> "try") \in {"scan", "next", "try"}
      BY <3>2, Zenon
    <3>4. pc[t] = "scan" /\ UNCHANGED <<frame, op, page, size, claimed, usedMemory, malloced, freed>>
      BY <1>4, Zenon DEF ScanSlot
    <3> QED  BY <3>1, <3>3, <3>4, Zenon DEF ThreadTypes
  <2>2. \A p \in Pages : word'[p].state = "LOCKED" => word[p].state = "LOCKED"
    <3>1. \A p \in Pages : withState(word[p], "MARKED").state = "MARKED"
      BY <1>w, WordFields, Zenon
    <3> QED  BY <1>4, <3>1, Zenon DEF ScanSlot
  <2>3. Frugal
    BY <2>1, <2>2, Zenon DEF ThreadTypes, MemoryInv, Occupied, Frugal
  <2> QED  BY <2>3, FrugalStep, Zenon
<1>5. CASE LoadCandidate(t)
  <2>1. /\ pc' = [pc EXCEPT ![t] = pc'[t]] /\ pc'[t] \in {"lock", "try"} /\ pc[t] = "try"
        /\ UNCHANGED <<word, frame, op, page, size, claimed, usedMemory, malloced, freed>>
    BY <1>5, Zenon DEF LoadCandidate, NextCandidate, ThreadTypes
  <2>2. Frugal
    BY <2>1, Zenon DEF ThreadTypes, MemoryInv, Occupied, Frugal
  <2> QED  BY <2>2, FrugalStep, Zenon
<1>6. CASE LockVictim(t)
  <2>1. /\ pc' = [pc EXCEPT ![t] = pc'[t]] /\ pc'[t] \in {"recheck", "try"} /\ pc[t] = "lock"
        /\ UNCHANGED <<frame, op, page, size, claimed, usedMemory, malloced, freed>>
    BY <1>6, Zenon DEF LockVictim, NextCandidate, ThreadTypes
  <2>2. \A p \in Pages : word'[p].state = "LOCKED" => word[p].state = "LOCKED" \/ frame[p] # None
    <3>1. victim[t] \in Pages /\ word \in [Pages -> PageWord]
      BY <2>1, Zenon DEF PlaceInv, PageTypes
    <3>2. word[victim[t]].state = "MARKED" => frame[victim[t]] # None
      BY <3>1, CachedHasFrame, Zenon
    <3> QED  BY <1>6, <3>1, <3>2, Zenon DEF LockVictim
  <2>3. Frugal
    BY <2>1, <2>2, Zenon DEF ThreadTypes, MemoryInv, Occupied, Frugal
  <2> QED  BY <2>3, FrugalStep, Zenon
<1>7. CASE EvictVictim(t) /\ queue[Head(cands[t])] # victim[t]
  <2>1. /\ pc' = [pc EXCEPT ![t] = "try"] /\ pc[t] = "recheck"
        /\ word' = [word EXCEPT ![victim[t]] = withState(@, "UNLOCKED")]
        /\ UNCHANGED <<frame, op, page, size, claimed, usedMemory, malloced, freed>>
    BY <1>7, Zenon DEF EvictVictim, NextCandidate
  <2>2. \A p \in Pages : word'[p].state = "LOCKED" => word[p].state = "LOCKED"
    <3>1. \A p \in Pages : withState(word[p], "UNLOCKED").state = "UNLOCKED"
      BY <1>w, WordFields, Zenon
    <3> QED  BY <2>1, <3>1, Zenon DEF PageTypes
  <2>3. Frugal
    BY <2>1, <2>2, Zenon DEF ThreadTypes, MemoryInv, Occupied, Frugal
  <2> QED  BY <2>3, FrugalStep, Zenon
<1> QED  BY <1>1, <1>2, <1>3, <1>4, <1>5, <1>6, <1>7, Zenon

\* A rollback, except for releasing the frame.
LEMMA RollbackMemory ==
    ASSUME IInv, MemoryInv, NEW t \in Threads,
           \/ \E q \in Pages : StartRollback(t, q)
           \/ LoadRemoved(t) \/ spinLock(t) \/ PurgeBatch(t) \/ SiftSlot(t) \/ DropCandidate(t)
           \/ Purged(t)
    PROVE  MemoryInv'
<1> USE DEF goto, contents, slots, reading, reserving, evicting, loading, IInv, Types, MemoryTypes
<1>1. CASE Purged(t) \/ (DropCandidate(t) /\ queue[Head(batch[t])] = None)
  <2>1. /\ Return(t) /\ UNCHANGED <<word, frame, usedMemory, malloced, freed>>
        /\ pc[t] \in {"purge", "drop"}
    BY <1>1, Zenon DEF Purged, DropCandidate
  <2>2. StaysPut
    BY <2>1, Zenon DEF StaysPut, Pins, Return, ThreadTypes, Occupied
  <2> QED  BY <2>1, <2>2, ReturnIsFrugal, FrugalStep, Zenon DEF MemoryInv
<1>2. CASE \/ \E q \in Pages : StartRollback(t, q)
           \/ LoadRemoved(t) \/ spinLock(t) \/ PurgeBatch(t) \/ SiftSlot(t)
           \/ DropCandidate(t) /\ queue[Head(batch[t])] # None
  <2>1. /\ pc[t] \notin loading /\ pc'[t] \notin loading
        /\ \A u \in Threads : u # t => pc'[u] = pc[u] /\ op'[u] = op[u] /\ page'[u] = page[u]
        /\ UNCHANGED <<frame, size, claimed, usedMemory, malloced, freed>>
        /\ UNCHANGED word \/ spinLock(t)
    <3>1. CASE \E q \in Pages : StartRollback(t, q)
      BY <3>1, Zenon DEF StartRollback, Start, ThreadTypes
    <3>2. CASE LoadRemoved(t) \/ spinLock(t)
      BY <3>2, Zenon DEF LoadRemoved, spinLock, ThreadTypes
    <3>3. CASE PurgeBatch(t)
      BY <3>3, Zenon DEF PurgeBatch, next, ThreadTypes
    <3>4. CASE SiftSlot(t)
      BY <3>4, Zenon DEF SiftSlot, NextSlot, ThreadTypes
    <3>5. CASE DropCandidate(t) /\ queue[Head(batch[t])] # None
      BY <3>5, Zenon DEF DropCandidate, NextSlot, ThreadTypes
    <3> QED  BY <1>2, <3>1, <3>2, <3>3, <3>4, <3>5, Zenon
  <2>2. \A p \in Pages : word'[p].state = "LOCKED" => word[p].state = "LOCKED" \/ frame[p] # None
    <3>1. CASE spinLock(t)
      <4>1. /\ victim[t] \in Pages /\ word \in [Pages -> PageWord]
            /\ word[victim[t]].state \in {"UNLOCKED", "MARKED"}
        BY <3>1, Zenon DEF spinLock, PlaceInv, PageTypes
      <4>2. frame[victim[t]] # None
        BY <4>1, CachedHasFrame, Zenon
      <4> QED  BY <3>1, <4>1, <4>2, Zenon DEF spinLock
    <3> QED  BY <2>1, <3>1, Zenon
  <2>3. StaysPut
    BY <2>1, <2>2, Zenon DEF StaysPut, Pins, Occupied
  <2>4. Frugal
    BY <2>1, <2>3, Zenon DEF Frugal, MemoryInv
  <2> QED  BY <2>4, FrugalStep, Zenon
<1> QED  BY <1>1, <1>2, Zenon

\* What a checkpoint does to the pages, except for releasing frames.
LEMMA CheckpointMemory ==
    ASSUME IInv, MemoryInv,
           \/ removeEvictedCandidates \/ flushAllDirtyPagesInFrames
           \/ \E p \in Pages : ApplyShadowPage(p)
    PROVE  MemoryInv'
<1> USE DEF contents, slots, reading, reserving, evicting, locals, Frugal, StaysPut, Pins,
            IInv, Types, MemoryTypes
<1>1. CASE removeEvictedCandidates
  <2>1. Frugal
    BY <1>1, Zenon DEF removeEvictedCandidates, MemoryInv, Occupied
  <2> QED  BY <2>1, FrugalStep, Zenon
<1>2. CASE flushAllDirtyPagesInFrames
  <2>1. \A p \in Pages : withDirty(word[p], 0).state = word[p].state
    BY WordFields, Zenon DEF PageTypes
  <2>2. Frugal
    BY <1>2, <2>1, Zenon DEF flushAllDirtyPagesInFrames, MemoryInv, Occupied
  <2> QED  BY <2>2, FrugalStep, Zenon
<1>3. ASSUME NEW p \in Pages, ApplyShadowPage(p)
      PROVE  MemoryInv'
  <2>1. word[p].state # "EVICTED" => p \in Occupied
    <3>1. CASE word[p].state = "LOCKED"
      <4>1. ~Loads(p)
        BY <1>3, Zenon DEF ApplyShadowPage, Quiescent, Loads, loading
      <4> QED  BY <3>1, <4>1, Zenon DEF Occupied
    <3>2. CASE word[p].state \in {"UNLOCKED", "MARKED"}
      BY <3>2, CachedHasFrame, Zenon DEF Occupied
    <3>3. word[p] \in PageWord
      BY Zenon DEF PageTypes
    <3>4. word[p].state \in {"UNLOCKED", "LOCKED", "MARKED", "EVICTED"}
      BY <3>3, Zenon DEF PageWord
    <3> QED  BY <3>1, <3>2, <3>4, Zenon
  <2>2. \A q \in Pages : frame'[q] # None => q \in Occupied
    BY <1>3, <2>1, Zenon DEF ApplyShadowPage, PageTypes, Occupied
  <2>3. Frugal
    BY <1>3, <2>2, Zenon DEF ApplyShadowPage, MemoryInv
  <2> QED  BY <2>3, FrugalStep, Zenon
<1> QED  BY <1>1, <1>2, <1>3, Zenon

-----------------------------------------------------------------------------
(* The steps that ask for memory or give it back.                          *)

\* The other threads keep what they have.
OthersKeep(t) ==
    /\ \A u \in Threads \ {t} :
        /\ size'[u] = size[u] /\ claimed'[u] = claimed[u]
        /\ freed'[u] = freed[u] /\ malloced'[u] = malloced[u]
        /\ pc'[u] = pc[u] /\ op'[u] = op[u]
    /\ pc'[t] \in loading /\ op'[t] # "alloc" => size'[t] = 1

\* What the thread has before and after the step, whatever the others have.
Balances(t) ==
    \A kept \in Nat, asked \in Nat :
        /\ kept <= asked
        /\ Cardinality(Occupied) + (malloced[t] + claimed[t] + freed[t] + inFlight(t) + size[t] + asked)
              <= usedMemory
        /\ Cardinality(Occupied) + (malloced[t] + claimed[t] + freed[t] + inFlight(t) + kept) <= PoolSize
        => /\ Cardinality(Occupied') + (malloced'[t] + claimed'[t] + freed'[t] + inFlight(t)' + size'[t] + asked)
                 <= usedMemory'
           /\ Cardinality(Occupied') + (malloced'[t] + claimed'[t] + freed'[t] + inFlight(t)' + kept) <= PoolSize

\* For such a step the sums come down to what the thread has.
LEMMA OneThreadStep ==
    ASSUME MemoryInv, MemoryTypes', NEW t \in Threads, OthersKeep(t), Balances(t)
    PROVE  MemoryInv'
<1>1. Counted
  BY KeptTypes, Zenon DEF MemoryInv
<1>2. Counted'
  BY KeptTypes, PTL
<1>3. \A u \in Threads \ {t} : Kept'[u] = Kept[u] /\ Asked'[u] = Asked[u]
  <2> SUFFICES ASSUME NEW u \in Threads \ {t}
               PROVE  Kept'[u] = Kept[u] /\ Asked'[u] = Asked[u]
    BY Zenon
  <2>1. inFlight(u)' = inFlight(u)
    BY Zenon DEF OthersKeep, inFlight
  <2>2. Kept[u] = malloced[u] + claimed[u] + freed[u] + inFlight(u) /\ Asked[u] = Kept[u] + size[u]
    BY <1>1, Zenon DEF Counted
  <2>3. Kept'[u] = malloced'[u] + claimed'[u] + freed'[u] + inFlight(u)' /\ Asked'[u] = Kept'[u] + size'[u]
    BY <1>2, Zenon DEF Counted
  <2>4. /\ malloced'[u] = malloced[u] /\ claimed'[u] = claimed[u] /\ freed'[u] = freed[u]
        /\ size'[u] = size[u]
    BY Zenon DEF OthersKeep
  <2> QED  BY <2>1, <2>2, <2>3, <2>4, Zenon
<1>4. /\ Kept[t] = malloced[t] + claimed[t] + freed[t] + inFlight(t) /\ Asked[t] = Kept[t] + size[t]
      /\ Kept'[t] = malloced'[t] + claimed'[t] + freed'[t] + inFlight(t)' /\ Asked'[t] = Kept'[t] + size'[t]
  BY <1>1, <1>2, Zenon DEF Counted
<1>5. \A kept \in Nat, asked \in Nat :
         /\ kept <= asked
         /\ Cardinality(Occupied) + (Asked[t] + asked) <= usedMemory
         /\ Cardinality(Occupied) + (Kept[t] + kept) <= PoolSize
         => /\ Cardinality(Occupied') + (Asked'[t] + asked) <= usedMemory'
            /\ Cardinality(Occupied') + (Kept'[t] + kept) <= PoolSize
  BY <1>4, Zenon DEF Balances
<1>6. CoverInv' /\ PoolInv'
  BY <1>3, <1>5, OneThread, Zenon
<1>7. SizeInv'
  BY Zenon DEF SizeInv, MemoryInv, OthersKeep
<1> QED  BY <1>6, <1>7, Zenon DEF MemoryInv

\* What is known of the numbers before a step.
LEMMA Numbers ==
    ASSUME MemoryInv, NEW t \in Threads
    PROVE  /\ usedMemory \in Int /\ PoolSize \in Nat
           /\ size[t] \in Nat /\ claimed[t] \in Nat /\ freed[t] \in Nat /\ malloced[t] \in Nat
           /\ inFlight(t) \in {0, 1}
           /\ size \in [Threads -> Nat] /\ claimed \in [Threads -> Nat]
           /\ freed \in [Threads -> Nat] /\ malloced \in [Threads -> Nat]
<1>1. inFlight(t) \in {0, 1}
  BY Zenon DEF inFlight
<1> QED  BY <1>1, ConstantsAssumption, Zenon DEF MemoryInv, MemoryTypes

\* How the number of occupied pages changes.
LEMMA OccupiedCount ==
    /\ Cardinality(Occupied) \in Nat /\ Cardinality(Occupied') \in Nat
    /\ Occupied' \subseteq Occupied => Cardinality(Occupied') <= Cardinality(Occupied)
    /\ \A p \in Pages : Occupied' \subseteq Occupied \cup {p} =>
                           Cardinality(Occupied') <= Cardinality(Occupied) + 1
    /\ \A p \in Occupied : Occupied' \subseteq Occupied \ {p} =>
                           Cardinality(Occupied') <= Cardinality(Occupied) - 1
<1>1. Occupied \in SUBSET Pages /\ Occupied' \in SUBSET Pages
  BY Zenon DEF Occupied
<1> QED  BY <1>1, PageSets, Zenon

\* reserve adds what it asks for to the used memory.
LEMMA ReserveMemory ==
    ASSUME IInv, MemoryInv, NEW t \in Threads,
           PinEvicted(t) \/ \E s \in AllocSizes : StartAlloc(t, s)
    PROVE  MemoryInv'
<1>1. PICK s \in Nat : reserve(t, s) /\ (pc'[t] \in loading /\ op'[t] # "alloc" => s = 1)
  <2>1. CASE PinEvicted(t)
    BY <2>1, 1 \in Nat, Zenon DEF PinEvicted
  <2>2. CASE \E s \in AllocSizes : StartAlloc(t, s)
    <3>1. PICK s \in AllocSizes : StartAlloc(t, s)
      BY <2>2, Zenon
    <3>2. s \in Nat
      BY ConstantsAssumption, Zenon
    <3>3. op'[t] = "alloc"
      BY <3>1, Zenon DEF StartAlloc, Start, IInv, Types, ThreadTypes
    <3> QED  BY <3>1, <3>2, <3>3, Zenon DEF StartAlloc
  <2> QED  BY <2>1, <2>2, Zenon
<1>2. /\ pc[t] \in {"idle", "pin"} /\ pc' = [pc EXCEPT ![t] = "loop"] /\ UNCHANGED <<frame, freed, malloced>>
      /\ \A u \in Threads \ {t} : op'[u] = op[u] /\ page'[u] = page[u]
  BY Zenon DEF PinEvicted, StartAlloc, Start, goto, contents, evicting, IInv, Types, ThreadTypes
<1>3. Occupied' \subseteq Occupied
  <2> SUFFICES ASSUME NEW p \in Pages, word'[p].state = "LOCKED", ~Loads(p)', frame[p] = None
               PROVE  word[p].state = "LOCKED" /\ ~Loads(p)
    BY <1>2, Zenon DEF Occupied
  <2>1. word' # word => /\ page[t] \in Pages /\ word' = [word EXCEPT ![page[t]] = withState(@, "LOCKED")]
                        /\ op'[t] # "alloc" /\ page'[t] = page[t]
    BY <1>2, Zenon DEF PinEvicted, StartAlloc, Start, Pins, loading, IInv, Types, PlaceInv, ThreadTypes
  <2>2. p # page[t] \/ word' = word
    BY <1>2, <2>1, Zenon DEF Loads, Pins, loading, IInv, Types, ThreadTypes
  <2>3. word'[p] = word[p]
    BY <2>1, <2>2, Zenon DEF IInv, Types, PageTypes
  <2>4. ~Loads(p)
    BY <1>2, Zenon DEF Loads, Pins, loading, loaded, IInv, Types, ThreadTypes
  <2> QED  BY <2>3, <2>4, Zenon
<1>4. /\ Cardinality(Occupied') <= Cardinality(Occupied)
      /\ Cardinality(Occupied) \in Nat /\ Cardinality(Occupied') \in Nat
  BY <1>3, OccupiedCount, Zenon
<1>5. /\ malloced'[t] = malloced[t] /\ claimed'[t] = claimed[t] /\ freed'[t] = freed[t]
      /\ size'[t] = s /\ usedMemory' = usedMemory + s
  BY <1>1, <1>2, Numbers, Zenon DEF reserve
<1>6. inFlight(t) = 0 /\ inFlight(t)' = 0
  BY <1>2, Zenon DEF inFlight, IInv, Types, ThreadTypes
<1>7. MemoryTypes'
  <2>1. usedMemory' \in Int
    BY <1>5, Numbers
  <2> QED  BY <1>1, <1>2, <2>1, Numbers, Zenon DEF MemoryTypes, reserve
<1>8. OthersKeep(t)
  BY <1>1, <1>2, <1>5, Numbers, Zenon DEF OthersKeep, reserve, IInv, Types, ThreadTypes
<1>9. /\ usedMemory \in Int /\ size[t] \in Nat /\ claimed[t] \in Nat /\ freed[t] \in Nat
      /\ malloced[t] \in Nat /\ PoolSize \in Nat
  BY Numbers, Zenon
<1>10. Balances(t)
  BY <1>4, <1>5, <1>6, <1>9 DEF Balances
<1> QED  BY <1>7, <1>8, <1>10, OneThreadStep, Zenon

\* A reservation that succeeds gives back what it claimed: the frame or buffer
\* takes the place of the memory that was asked for.
LEMMA ReservedMemory ==
    ASSUME IInv, MemoryInv, NEW t \in Threads, Reserved(t)
    PROVE  MemoryInv'
<1>1. pc[t] = "loop" /\ usedMemory' = usedMemory - claimed[t] /\ UNCHANGED freed
  BY Zenon DEF Reserved, evicting
<1>2. size[t] > claimed[t] => ~(usedMemory > PoolSize - claimed[t])
  BY Zenon DEF Reserved, needMoreMemory
<1>3. /\ usedMemory \in Int /\ size[t] \in Nat /\ claimed[t] \in Nat /\ freed[t] \in Nat
      /\ malloced[t] \in Nat /\ PoolSize \in Nat
  BY Numbers, Zenon
<1>4. usedMemory' \in Int
  BY <1>1, <1>3
<1>5. /\ size' = [size EXCEPT ![t] = 0] /\ claimed' = [claimed EXCEPT ![t] = 0]
      /\ pc'[t] \in {"idle", "insert"} /\ \A u \in Threads \ {t} : pc'[u] = pc[u] /\ op'[u] = op[u]
      /\ \A u \in Threads \ {t} : page'[u] = page[u]
      /\ malloced' \in {malloced, [malloced EXCEPT ![t] = size[t]]}
  BY Zenon DEF Reserved, Return, goto, IInv, Types, ThreadTypes
<1>6. MemoryTypes'
  BY <1>1, <1>3, <1>4, <1>5, Numbers, Zenon DEF MemoryTypes
<1>7. OthersKeep(t)
  BY <1>1, <1>5, Numbers, Zenon DEF OthersKeep, loading
<1>8. size'[t] = 0 /\ claimed'[t] = 0 /\ freed'[t] = freed[t] /\ inFlight(t) = 0 /\ inFlight(t)' = 0
  BY <1>1, <1>5, Numbers, Zenon DEF inFlight
<1>9. CASE op[t] = "alloc"
  <2>1. UNCHANGED <<word, frame>> /\ malloced'[t] = size[t]
    BY <1>9, Numbers, Zenon DEF Reserved
  <2>2. StaysPut
    BY <1>5, <1>9, <2>1, Zenon DEF StaysPut, Pins, Occupied
  <2>3. /\ Cardinality(Occupied') <= Cardinality(Occupied)
        /\ Cardinality(Occupied) \in Nat /\ Cardinality(Occupied') \in Nat
    BY <2>2, OccupiedShrinks, OccupiedCount, Zenon
  <2>4. Balances(t)
    BY <1>1, <1>2, <1>3, <1>8, <2>1, <2>3 DEF Balances
  <2> QED  BY <1>6, <1>7, <2>4, OneThreadStep, Zenon
<1>10. CASE op[t] # "alloc"
  <2>1. /\ page[t] \in Pages /\ malloced'[t] = malloced[t]
        /\ frame' = [frame EXCEPT ![page[t]] = file[page[t]]]
        /\ word' = [word EXCEPT ![page[t]] = withDirty(@, 0)]
    BY <1>1, <1>10, Zenon DEF Reserved, IInv, Types, PlaceInv, loading
  <2>2. size[t] = 1
    BY <1>1, <1>10, Zenon DEF MemoryInv, SizeInv, loading
  <2>3. Occupied' \subseteq Occupied \cup {page[t]}
    <3> SUFFICES ASSUME NEW p \in Pages, p # page[t],
                        frame'[p] # None \/ (word'[p].state = "LOCKED" /\ ~Loads(p)')
                 PROVE  frame[p] # None \/ (word[p].state = "LOCKED" /\ ~Loads(p))
      BY Zenon DEF Occupied
    <3>1. frame'[p] = frame[p] /\ word'[p] = word[p]
      BY <2>1, Zenon DEF IInv, Types, PageTypes
    <3>2. ~Loads(p)' => ~Loads(p)
      BY <1>5, Zenon DEF Loads, Pins
    <3> QED  BY <3>1, <3>2, Zenon
  <2>4. /\ Cardinality(Occupied') <= Cardinality(Occupied) + 1
        /\ Cardinality(Occupied) \in Nat /\ Cardinality(Occupied') \in Nat
    BY <2>1, <2>3, OccupiedCount, Zenon
  <2>5. Balances(t)
    BY <1>1, <1>2, <1>3, <1>8, <2>1, <2>2, <2>4 DEF Balances
  <2> QED  BY <1>6, <1>7, <2>5, OneThreadStep, Zenon
<1> QED  BY <1>9, <1>10, Zenon

\* Freeing a buffer.
LEMMA FreeBufferMemory ==
    ASSUME IInv, MemoryInv, NEW t \in Threads, FreeBuffer(t)
    PROVE  MemoryInv'
<1>1. /\ usedMemory' = usedMemory - malloced[t] /\ malloced' = [malloced EXCEPT ![t] = 0]
      /\ UNCHANGED <<word, frame, pc, op, page, size, claimed, freed>>
  BY Zenon DEF FreeBuffer, contents, reserving, evicting
<1>2. /\ usedMemory \in Int /\ size[t] \in Nat /\ claimed[t] \in Nat /\ freed[t] \in Nat
      /\ malloced[t] \in Nat /\ PoolSize \in Nat /\ inFlight(t) \in {0, 1}
  BY Numbers, Zenon
<1>3. usedMemory' \in Int
  BY <1>1, <1>2
<1>4. MemoryTypes'
  BY <1>1, <1>3, Numbers, 0 \in Nat, Zenon DEF MemoryTypes
<1>5. OthersKeep(t)
  BY <1>1, Numbers, Zenon DEF OthersKeep, MemoryInv, SizeInv
<1>6. StaysPut
  BY <1>1, Zenon DEF StaysPut, Pins, Occupied
<1>7. /\ Cardinality(Occupied') <= Cardinality(Occupied)
      /\ Cardinality(Occupied) \in Nat /\ Cardinality(Occupied') \in Nat
  BY <1>6, OccupiedShrinks, OccupiedCount, Zenon
<1>8. /\ malloced'[t] = 0 /\ claimed'[t] = claimed[t] /\ freed'[t] = freed[t] /\ size'[t] = size[t]
      /\ inFlight(t)' = inFlight(t)
  BY <1>1, Numbers, Zenon DEF inFlight
<1>9. Balances(t)
  BY <1>1, <1>2, <1>7, <1>8 DEF Balances
<1> QED  BY <1>4, <1>5, <1>9, OneThreadStep, Zenon

\* The memory of a page that is evicted is with the thread that evicts it.
LEMMA EvictMemory ==
    ASSUME IInv, MemoryInv, NEW t \in Threads, EvictVictim(t), queue[Head(cands[t])] = victim[t]
    PROVE  MemoryInv'
<1> DEFINE q == victim[t]
<1>1. /\ pc[t] = "recheck" /\ pc' = [pc EXCEPT ![t] = "clear"]
      /\ frame' = [frame EXCEPT ![q] = None] /\ word' = [word EXCEPT ![q] = Evicted]
      /\ UNCHANGED <<op, page, usedMemory, size, claimed, freed, malloced>>
  BY Zenon DEF EvictVictim, goto, reserving
<1>2. q \in Pages /\ frame[q] # None
  <2>1. q \in Pages /\ Evicts(t, q)
    BY <1>1, Zenon DEF IInv, Types, PlaceInv, Evicts
  <2> QED  BY <2>1, CachedHasFrame, Zenon
<1>3. \A p \in Pages : p # q => frame'[p] = frame[p] /\ word'[p] = word[p]
  BY <1>1, <1>2, Zenon DEF IInv, Types, PageTypes
<1>4. frame'[q] = None /\ word'[q].state # "LOCKED"
  BY <1>1, <1>2, Zenon DEF IInv, Types, PageTypes, Evicted
<1>5. \A p \in Pages : Loads(p) => Loads(p)'
  BY <1>1, Zenon DEF Loads, Pins, loading, IInv, Types, ThreadTypes
<1>6. q \in Occupied /\ Occupied' \subseteq Occupied \ {q}
  BY <1>2, <1>3, <1>4, <1>5, Zenon DEF Occupied
<1>7. /\ Cardinality(Occupied') <= Cardinality(Occupied) - 1
      /\ Cardinality(Occupied) \in Nat /\ Cardinality(Occupied') \in Nat
  BY <1>6, OccupiedCount, Zenon
<1>8. MemoryTypes'
  BY <1>1, Zenon DEF MemoryInv, MemoryTypes
<1>9. OthersKeep(t)
  BY <1>1, Zenon DEF OthersKeep, MemoryInv, SizeInv, loading, IInv, Types, ThreadTypes
<1>10. inFlight(t) = 0 /\ inFlight(t)' = 1
  BY <1>1, Zenon DEF inFlight, IInv, Types, ThreadTypes
<1>11. /\ usedMemory \in Int /\ size[t] \in Nat /\ claimed[t] \in Nat /\ freed[t] \in Nat
       /\ malloced[t] \in Nat /\ PoolSize \in Nat
       /\ usedMemory' = usedMemory /\ malloced'[t] = malloced[t] /\ claimed'[t] = claimed[t]
       /\ freed'[t] = freed[t] /\ size'[t] = size[t]
  BY <1>1, Numbers, Zenon
<1>12. Balances(t)
  BY <1>7, <1>10, <1>11 DEF Balances
<1> QED  BY <1>8, <1>9, <1>12, OneThreadStep, Zenon

\* Clearing the candidate counts the page; if that throws, the thread loses
\* what it has evicted, and its page stays locked.
LEMMA ClearMemory ==
    ASSUME IInv, MemoryInv, NEW t \in Threads, ClearCandidate(t)
    PROVE  MemoryInv'
<1>1. pc[t] = "clear" /\ UNCHANGED <<word, frame, usedMemory, malloced>>
  BY Zenon DEF ClearCandidate, contents
<1>2. /\ usedMemory \in Int /\ size[t] \in Nat /\ claimed[t] \in Nat /\ freed[t] \in Nat
      /\ malloced[t] \in Nat /\ PoolSize \in Nat
      /\ usedMemory' = usedMemory /\ malloced'[t] = malloced[t] /\ inFlight(t) = 1
  BY <1>1, Numbers, Zenon DEF inFlight
<1>3. CASE queue[Head(cands[t])] # None
  <2>1. /\ pc' = [pc EXCEPT ![t] = "try"] /\ freed' = [freed EXCEPT ![t] = @ + 1]
        /\ UNCHANGED <<op, page, size, claimed>>
    BY <1>3, Zenon DEF ClearCandidate, NextCandidate, goto, reserving
  <2>2. StaysPut
    BY <1>1, <2>1, Zenon DEF StaysPut, Pins, loading, Occupied, IInv, Types, ThreadTypes
  <2>3. /\ Cardinality(Occupied') <= Cardinality(Occupied)
        /\ Cardinality(Occupied) \in Nat /\ Cardinality(Occupied') \in Nat
    BY <2>2, OccupiedShrinks, OccupiedCount, Zenon
  <2>4. /\ size'[t] = size[t] /\ claimed'[t] = claimed[t] /\ freed'[t] = freed[t] + 1
        /\ inFlight(t)' = 0
    BY <2>1, Numbers, Zenon DEF inFlight, IInv, Types, ThreadTypes
  <2>5. freed[t] + 1 \in Nat
    BY <1>2
  <2>6. MemoryTypes'
    BY <1>1, <2>1, <2>5, Zenon DEF MemoryInv, MemoryTypes
  <2>7. OthersKeep(t)
    BY <1>1, <2>1, Numbers, Zenon DEF OthersKeep, MemoryInv, SizeInv, loading, IInv, Types, ThreadTypes
  <2>8. Balances(t)
    BY <1>2, <2>3, <2>4 DEF Balances
  <2> QED  BY <2>6, <2>7, <2>8, OneThreadStep, Zenon
<1>4. CASE queue[Head(cands[t])] = None
  <2>1. Return(t) /\ freed' = [freed EXCEPT ![t] = 0]
    BY <1>4, Zenon DEF ClearCandidate
  <2>2. /\ size' = [size EXCEPT ![t] = 0] /\ claimed' = [claimed EXCEPT ![t] = 0] /\ pc'[t] = "idle"
        /\ \A u \in Threads \ {t} : pc'[u] = pc[u] /\ op'[u] = op[u] /\ page'[u] = page[u]
    BY <2>1, Zenon DEF Return, goto, IInv, Types, ThreadTypes
  <2>3. PICK p \in Pages : Occupied' \subseteq Occupied \cup {p}
    <3>1. victim[t] \in Pages /\ (page[t] \in Pages \/ page[t] = None)
      BY <1>1, Zenon DEF IInv, Types, PlaceInv, ThreadTypes
    <3>2. \A p \in Pages : p # page[t] /\ Loads(p) => Loads(p)'
      BY <2>2, Zenon DEF Loads, Pins
    <3>3. \A p \in Pages : p \in Occupied' => p \in Occupied \/ p = page[t]
      BY <1>1, <3>2, Zenon DEF Occupied
    <3>4. None \notin Pages
      BY ConstantsAssumption, Zenon
    <3>5. CASE page[t] \in Pages
      BY <3>3, <3>5, Zenon DEF Occupied
    <3>6. CASE page[t] = None
      BY <3>1, <3>3, <3>4, <3>6, Zenon DEF Occupied
    <3> QED  BY <3>1, <3>5, <3>6, Zenon
  <2>4. /\ Cardinality(Occupied') <= Cardinality(Occupied) + 1
        /\ Cardinality(Occupied) \in Nat /\ Cardinality(Occupied') \in Nat
    BY <2>3, OccupiedCount, Zenon
  <2>5. size'[t] = 0 /\ claimed'[t] = 0 /\ freed'[t] = 0 /\ inFlight(t)' = 0
    BY <2>1, <2>2, Numbers, Zenon DEF inFlight
  <2>6. MemoryTypes'
    BY <1>1, <2>1, <2>2, 0 \in Nat, Zenon DEF MemoryInv, MemoryTypes
  <2>7. OthersKeep(t)
    BY <1>1, <2>1, <2>2, Numbers, Zenon DEF OthersKeep, loading
  <2>8. Balances(t)
    BY <1>2, <2>4, <2>5 DEF Balances
  <2> QED  BY <2>6, <2>7, <2>8, OneThreadStep, Zenon
<1> QED  BY <1>3, <1>4, Zenon

\* Back in reserve, what was evicted is claimed; a reservation that fails gives
\* everything back.
LEMMA EvictedMemory ==
    ASSUME IInv, MemoryInv, NEW t \in Threads, PagesEvicted(t)
    PROVE  MemoryInv'
<1> DEFINE fails == freed[t] = 0 /\ needMoreMemory(t) /\ failed[t] = Retries
<1>1. /\ pc[t] \in {"try", "next"} /\ freed' = [freed EXCEPT ![t] = 0] /\ UNCHANGED <<frame, malloced>>
  BY Zenon DEF PagesEvicted, contents
<1>2. /\ usedMemory \in Int /\ size[t] \in Nat /\ claimed[t] \in Nat /\ freed[t] \in Nat
      /\ malloced[t] \in Nat /\ PoolSize \in Nat
      /\ malloced'[t] = malloced[t] /\ freed'[t] = 0 /\ inFlight(t) = 0
  BY <1>1, Numbers, Zenon DEF inFlight
<1>3. CASE fails
  <2>1. /\ Return(t) /\ usedMemory' = usedMemory - (size[t] + claimed[t]) /\ freed[t] = 0
        /\ word' = [p \in Pages |-> IF p = page[t] THEN Evicted ELSE word[p]]
    BY <1>3, Zenon DEF PagesEvicted
  <2>2. /\ size' = [size EXCEPT ![t] = 0] /\ claimed' = [claimed EXCEPT ![t] = 0] /\ pc'[t] = "idle"
        /\ \A u \in Threads \ {t} : pc'[u] = pc[u] /\ op'[u] = op[u] /\ page'[u] = page[u]
    BY <2>1, Zenon DEF Return, goto, IInv, Types, ThreadTypes
  <2>3. Occupied' \subseteq Occupied
    <3>1. \A p \in Pages : p # page[t] /\ Loads(p) => Loads(p)'
      BY <2>2, Zenon DEF Loads, Pins
    <3>2. \A p \in Pages : word'[p].state = "LOCKED" => p # page[t] /\ word[p].state = "LOCKED"
      BY <2>1, Zenon DEF Evicted
    <3> QED  BY <1>1, <3>1, <3>2, Zenon DEF Occupied
  <2>4. /\ Cardinality(Occupied') <= Cardinality(Occupied)
        /\ Cardinality(Occupied) \in Nat /\ Cardinality(Occupied') \in Nat
    BY <2>3, OccupiedCount, Zenon
  <2>5. size'[t] = 0 /\ claimed'[t] = 0 /\ inFlight(t)' = 0
    BY <2>2, Numbers, Zenon DEF inFlight
  <2>6. usedMemory' \in Int
    BY <1>2, <2>1
  <2>7. MemoryTypes'
    BY <1>1, <2>2, <2>6, 0 \in Nat, Zenon DEF MemoryInv, MemoryTypes
  <2>8. OthersKeep(t)
    BY <1>1, <2>2, Numbers, Zenon DEF OthersKeep, loading
  <2>9. Balances(t)
    BY <1>2, <2>1, <2>4, <2>5 DEF Balances
  <2> QED  BY <2>7, <2>8, <2>9, OneThreadStep, Zenon
<1>4. CASE ~fails
  <2>1. /\ pc' = [pc EXCEPT ![t] = "loop"] /\ claimed' = [claimed EXCEPT ![t] = @ + freed[t]]
        /\ UNCHANGED <<usedMemory, word, op, page, size>>
    BY <1>4, Zenon DEF PagesEvicted, goto
  <2>2. StaysPut
    BY <1>1, <2>1, Zenon DEF StaysPut, Pins, loading, Occupied, IInv, Types, ThreadTypes
  <2>3. /\ Cardinality(Occupied') <= Cardinality(Occupied)
        /\ Cardinality(Occupied) \in Nat /\ Cardinality(Occupied') \in Nat
    BY <2>2, OccupiedShrinks, OccupiedCount, Zenon
  <2>4. /\ size'[t] = size[t] /\ claimed'[t] = claimed[t] + freed[t] /\ inFlight(t)' = 0
        /\ usedMemory' = usedMemory
    BY <2>1, Numbers, Zenon DEF inFlight, IInv, Types, ThreadTypes
  <2>5. claimed[t] + freed[t] \in Nat
    BY <1>2
  <2>6. MemoryTypes'
    BY <1>1, <2>1, <2>5, 0 \in Nat, Zenon DEF MemoryInv, MemoryTypes
  <2>7. OthersKeep(t)
    BY <1>1, <2>1, Numbers, Zenon DEF OthersKeep, MemoryInv, SizeInv, loading, IInv, Types, ThreadTypes
  <2>8. Balances(t)
    BY <1>2, <2>3, <2>4 DEF Balances
  <2> QED  BY <2>6, <2>7, <2>8, OneThreadStep, Zenon
<1> QED  BY <1>3, <1>4, Zenon

\* Dropping a page that is occupied gives its frame back.
LEMMA ReleasedMemory ==
    ASSUME IInv, MemoryInv, NEW p \in Pages, p \in Occupied, Released(p),
           UNCHANGED <<op, page, size, claimed, freed, malloced>>,
           \A u \in Threads : pc'[u] = pc[u] \/ (pc[u] \notin loading /\ pc'[u] \notin loading)
    PROVE  MemoryInv'
<1>1. /\ usedMemory' = usedMemory - 1
      /\ frame' = [frame EXCEPT ![p] = None] /\ word' = [word EXCEPT ![p] = Evicted]
      /\ UNCHANGED <<op, page, size, claimed, freed, malloced>>
      /\ \A u \in Threads : pc'[u] = pc[u] \/ (pc[u] \notin loading /\ pc'[u] \notin loading)
  BY Zenon DEF Released
<1>2. p \in Occupied
  BY Zenon
<1>3. Occupied' \subseteq Occupied \ {p}
  <2>1. \A q \in Pages : Loads(q) => Loads(q)'
    BY <1>1, Zenon DEF Loads, Pins
  <2>2. frame'[p] = None /\ word'[p].state = "EVICTED"
    BY <1>1, Zenon DEF Evicted, IInv, Types, PageTypes
  <2>3. \A q \in Pages \ {p} : frame'[q] = frame[q] /\ word'[q] = word[q]
    BY <1>1, Zenon DEF IInv, Types, PageTypes
  <2> QED  BY <2>1, <2>2, <2>3, Zenon DEF Occupied
<1>4. /\ Cardinality(Occupied') <= Cardinality(Occupied) - 1
      /\ Cardinality(Occupied) \in Nat /\ Cardinality(Occupied') \in Nat
  BY <1>2, <1>3, OccupiedCount, Zenon
<1>5. usedMemory \in Int
  BY Zenon DEF MemoryInv, MemoryTypes
<1>6. /\ Cardinality(Occupied') + 1 <= Cardinality(Occupied) /\ usedMemory <= usedMemory' + 1
      /\ usedMemory' \in Int /\ 1 \in Nat
  BY <1>1, <1>4, <1>5
<1>7. MemoryTypes'
  BY <1>1, <1>6, Zenon DEF MemoryInv, MemoryTypes
<1>8. SizeInv'
  BY <1>1, Zenon DEF MemoryInv, SizeInv
<1>9. CoverInv' /\ PoolInv'
  <2>1. \A u \in Threads : /\ size'[u] \in {0, size[u]} /\ claimed'[u] \in {0, claimed[u]}
                           /\ pc'[u] = "clear" => pc[u] = "clear"
    BY <1>1, Zenon DEF loading
  <2> QED  BY <1>1, <1>6, <1>7, <2>1, NobodyHasMore, Zenon
<1> QED  BY <1>7, <1>8, <1>9, Zenon DEF MemoryInv

\* A checkpoint drops a page while every thread is idle.
LEMMA removePageMemory ==
    ASSUME IInv, MemoryInv, NEW p \in Pages, removePageFromFrame(p)
    PROVE  MemoryInv'
<1>1. /\ word[p].state # "EVICTED" /\ Released(p) /\ \A u \in Threads : pc[u] = "idle"
      /\ UNCHANGED <<pc, op, page, size, claimed, freed, malloced>>
  BY Zenon DEF removePageFromFrame, Quiescent, locals, reserving, evicting
<1>2. p \in Occupied
  <2>1. ~Loads(p)
    BY <1>1, Zenon DEF Loads, loading
  <2>2. word[p].state \in {"UNLOCKED", "LOCKED", "MARKED"}
    <3>1. word[p] \in PageWord
      BY Zenon DEF IInv, Types, PageTypes
    <3> QED  BY <1>1, <3>1, Zenon DEF PageWord
  <2>3. word[p].state \in {"UNLOCKED", "MARKED"} => frame[p] # None
    BY CachedHasFrame, Zenon
  <2> QED  BY <2>1, <2>2, <2>3, Zenon DEF Occupied
<1> QED  BY <1>1, <1>2, ReleasedMemory, Zenon

\* A rollback drops a page that it has locked.
LEMMA ReleaseRemovedMemory ==
    ASSUME IInv, MemoryInv, NEW t \in Threads, ReleaseRemoved(t)
    PROVE  MemoryInv'
<1>1. /\ pc[t] = "release" /\ pc' = [pc EXCEPT ![t] = "purge"] /\ Released(victim[t])
      /\ UNCHANGED <<op, page, size, claimed, freed, malloced>>
  BY Zenon DEF ReleaseRemoved, goto, reserving
<1>2. victim[t] \in Pages /\ Evicts(t, victim[t])
  BY <1>1, Zenon DEF Evicts, IInv, Types, PlaceInv
<1>3. victim[t] \in Occupied
  BY <1>2, CachedHasFrame, Zenon DEF Occupied
<1>4. \A u \in Threads : pc'[u] = pc[u] \/ (pc[u] \notin loading /\ pc'[u] \notin loading)
  BY <1>1, Zenon DEF loading, IInv, Types, ThreadTypes
<1> QED  BY <1>1, <1>2, <1>3, <1>4, ReleasedMemory, Zenon

\* At first nothing is in memory.
LEMMA InitMemory == Init => MemoryInv
<1> SUFFICES ASSUME Init PROVE MemoryInv
  OBVIOUS
<1>1. MemoryTypes
  BY 0 \in Nat, 0 \in Int, Zenon DEF Init, MemoryTypes
<1>2. SizeInv
  BY Zenon DEF Init, SizeInv, loading
<1>3. Counted
  BY <1>1, KeptTypes, Zenon
<1>4. ASSUME NEW t \in Threads
      PROVE  Kept[t] = 0 /\ Asked[t] = 0
  <2>1. malloced[t] = 0 /\ claimed[t] = 0 /\ freed[t] = 0 /\ size[t] = 0 /\ inFlight(t) = 0
    BY Zenon DEF Init, inFlight
  <2>2. Kept[t] = malloced[t] + claimed[t] + freed[t] + inFlight(t) /\ Asked[t] = Kept[t] + size[t]
    BY <1>3, Zenon DEF Counted
  <2> QED  BY <2>1, <2>2
<1>5. Total(Kept) = 0 /\ Total(Asked) = 0
  BY <1>3, <1>4, NoTotal, Zenon DEF Counted
<1>6. Occupied = {}
  BY Zenon DEF Init, Occupied, Evicted
<1>7. Cardinality(Occupied) = 0
  BY <1>6, FS_EmptySet, Zenon
<1>8. usedMemory = 0 /\ PoolSize \in Nat
  BY ConstantsAssumption, Zenon DEF Init
<1>9. CoverInv /\ PoolInv
  BY <1>5, <1>7, <1>8 DEF CoverInv, PoolInv
<1> QED  BY <1>1, <1>2, <1>9, Zenon DEF MemoryInv

\* Every step preserves the memory invariant.
LEMMA NextMemory ==
    ASSUME IInv, MemoryInv, [Next]_vars
    PROVE  MemoryInv'
<1>1. CASE \E t \in Threads : ThreadStep(t)
  BY <1>1, CallerMemory, QueueMemory, ReserveMemory, ReservedMemory, EvictMemory, ClearMemory,
     EvictedMemory, Zenon DEF ThreadStep
<1>2. CASE \E t \in Threads, p \in Pages : StartRead(t, p) \/ StartWrite(t, p)
  BY <1>2, StartMemory, Zenon
<1>3. CASE \E t \in Threads : FreeBuffer(t) \/ \E s \in AllocSizes : StartAlloc(t, s)
  BY <1>3, FreeBufferMemory, ReserveMemory, Zenon
<1>4. CASE \/ removeEvictedCandidates \/ flushAllDirtyPagesInFrames
           \/ \E p \in Pages : ApplyShadowPage(p)
  BY <1>4, CheckpointMemory, Zenon
<1>5. CASE \E p \in Pages : removePageFromFrame(p)
  BY <1>5, removePageMemory, Zenon
<1>6. CASE UNCHANGED vars
  <2>1. Frugal
    BY <1>6, Zenon DEF vars, contents, slots, reading, reserving, evicting, locals, Frugal,
       StaysPut, Pins, Occupied, MemoryInv, MemoryTypes
  <2> QED  BY <2>1, FrugalStep, Zenon
<1>7. CASE \E t \in Threads : RollbackStep(t) \/ \E p \in Pages : StartRollback(t, p)
  BY <1>7, RollbackMemory, ReleaseRemovedMemory, Zenon DEF RollbackStep
<1> QED  BY <1>1, <1>2, <1>3, <1>4, <1>5, <1>6, <1>7, ConstantsAssumption, Zenon DEF Next

\* The memory invariant holds in every reachable state: usedMemory covers what
\* is occupied, evicted and asked for, and the pool covers the first two.
THEOREM MemoryCovered ==
  ASSUME Races = {} PROVE Spec => []MemoryInv
<1>1. IInv /\ MemoryInv /\ [Next]_vars => MemoryInv'
  BY NextMemory, Zenon
<1> QED  BY <1>1, InitMemory, Invariance, PTL DEF Spec

\* Frames and buffers never exceed the pool, however many threads reserve and
\* evict at once and whatever a rollback drops beside them: reserve adds to
\* usedMemory before it looks at the limit, an evicted frame is counted for the
\* thread that evicted it only, and a dropped one is subtracted once.  The
\* hypothesis rules out that a rollback locks a page whose word it has loaded
\* as LOCKED or EVICTED, in which case the frame is subtracted twice.
THEOREM MemoryBounded ==
  ASSUME Races = {} PROVE Spec => []MemoryIsBounded
<1>1. ASSUME MemoryInv
      PROVE  MemoryIsBounded
  <2> DEFINE framed == {p \in Pages : frame[p] # None}
  <2>1. Cardinality(framed) <= Cardinality(Occupied) /\ Cardinality(framed) \in Nat
        /\ Cardinality(Occupied) \in Nat
    <3>1. framed \in SUBSET Pages /\ Occupied \in SUBSET Pages /\ framed \subseteq Occupied
      BY Zenon DEF Occupied
    <3> HIDE DEF framed
    <3> QED  BY <3>1, PageSets, Zenon
  <2>2. Counted /\ malloced \in [Threads -> Nat]
    BY <1>1, KeptTypes, Zenon DEF MemoryInv, MemoryTypes
  <2>3. ASSUME NEW t \in Threads
        PROVE  malloced[t] <= Kept[t]
    <3>1. /\ inFlight(t) \in {0, 1} /\ claimed[t] \in Nat /\ freed[t] \in Nat /\ malloced[t] \in Nat
          /\ Kept[t] = malloced[t] + claimed[t] + freed[t] + inFlight(t)
      BY <2>2, Zenon DEF Counted
    <3> QED  BY <3>1
  <2>4. Total(malloced) <= Total(Kept) /\ Total(malloced) \in Nat /\ Total(Kept) \in Nat
    BY <2>2, <2>3, TotalLess, Zenon DEF Counted
  <2>5. Cardinality(Occupied) + Total(Kept) <= PoolSize /\ PoolSize \in Nat
    BY <1>1, ConstantsAssumption, Zenon DEF MemoryInv, PoolInv
  <2>6. Cardinality(framed) + Total(malloced) <= PoolSize
    <3> HIDE DEF framed
    <3> QED  BY <2>1, <2>4, <2>5
  <2> QED  BY <2>6, Zenon DEF MemoryIsBounded, Total
<1> QED  BY <1>1, MemoryCovered, PTL

\* Every variable has its type: in particular usedMemory, from which reserve,
\* eviction and rollback subtract, never becomes negative, which asks for the
\* same hypothesis.
THEOREM TypeCorrect ==
  ASSUME Races = {} PROVE Spec => []TypeOK
<1>1. ASSUME IInv, MemoryInv
      PROVE  TypeOK
  <2>1. Counted
    BY <1>1, KeptTypes, Zenon DEF MemoryInv
  <2>2. Cardinality(Occupied) \in Nat
    BY OccupiedCount, Zenon
  <2>3. Total(Asked) \in Nat
    BY <2>1, TotalFacts, Zenon DEF Counted
  <2>4. Cardinality(Occupied) + Total(Asked) <= usedMemory /\ usedMemory \in Int
    BY <1>1, Zenon DEF MemoryInv, MemoryTypes, CoverInv
  <2>5. usedMemory \in Nat
    BY <2>2, <2>3, <2>4
  <2> QED  BY <1>1, <2>5, Zenon DEF TypeOK, IInv, Types, PageTypes, ThreadTypes, QueueTypes, PageWord
<1> QED  BY <1>1, Invariance, MemoryCovered, PTL

=============================================================================
