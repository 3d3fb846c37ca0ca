--------------------------- MODULE OSCoreProofs ---------------------------
(***************************************************************************)
(* The structure of the kernel's lists, proved for every number of         *)
(* processes and semaphores, every length of the time slice, and every set *)
(* of delays and counter values.                                           *)
(*                                                                         *)
(* First what the operations on std::list that the kernel uses (push_back, *)
(* pop_front, erase) do to a list without repetitions; then what the       *)
(* kernel's operations do to its lists, its control blocks and its         *)
(* semaphore queues.  All are stated of arbitrary ones: the steps of       *)
(* OSCore are combinations of these.                                       *)
(***************************************************************************)
EXTENDS OSCore, SequencesExt, SequenceTheorems, FiniteSetTheorems, TLAPS
-----------------------------------------------------------------------------
(* Lists *)

\* The lists the kernel is made of: no element stands twice in one.
IsList(q, S) == q \in Seq(S) /\ IsInjective(q)

\* An element of a list stands at some position of it.
LEMMA ElementsOfSeq ==
  ASSUME NEW S, NEW q \in Seq(S)
  PROVE  /\ DOMAIN q = 1..Len(q)
         /\ Len(q) \in Nat
         /\ Range(q) \subseteq S
         /\ \A i \in 1..Len(q) : q[i] \in Range(q) /\ q[i] \in S
         /\ \A x : x \in Range(q) <=> \E i \in 1..Len(q) : q[i] = x
<1>1. DOMAIN q = 1..Len(q) /\ Len(q) \in Nat
  BY LenProperties
<1>2. Range(q) \subseteq S
  BY DEF Range
<1>3. \A i \in 1..Len(q) : q[i] \in Range(q) /\ q[i] \in S
  BY DEF Range
<1>4. \A x : x \in Range(q) <=> \E i \in 1..Len(q) : q[i] = x
  BY DEF Range
<1> QED
  BY <1>1, <1>2, <1>3, <1>4

\* The empty list.
LEMMA EmptyList ==
  ASSUME NEW S
  PROVE  /\ IsList(<<>>, S)
         /\ Range(<<>>) = {}
         /\ \A q \in Seq(S) : Range(q) = {} => q = <<>>
<1>1. <<>> \in Seq(S) /\ Len(<<>>) = 0
  BY EmptySeq
<1>2. DOMAIN <<>> = {}
  BY <1>1, LenProperties
<1>3. ASSUME NEW q \in Seq(S), Range(q) = {}  PROVE q = <<>>
  <2>1. Len(q) = 0
    <3>1. SUFFICES ASSUME Len(q) # 0 PROVE FALSE
      OBVIOUS
    <3>2. 1 \in 1..Len(q)
      BY <3>1, ElementsOfSeq
    <3> QED
      BY <3>2, <1>3, ElementsOfSeq
  <2> QED
    BY <2>1, <1>1, EmptySeq
<1> QED
  BY <1>1, <1>2, <1>3 DEF IsList, IsInjective, Range

\* push_back of a new element.
LEMMA AppendToList ==
  ASSUME NEW S, NEW q, IsList(q, S), NEW x \in S, x \notin Range(q)
  PROVE  /\ IsList(Append(q, x), S)
         /\ Range(Append(q, x)) = Range(q) \cup {x}
<1> DEFINE a == Append(q, x)
<1>1. /\ q \in Seq(S)
      /\ \A i, j \in 1..Len(q) : q[i] = q[j] => i = j
  BY ElementsOfSeq DEF IsList, IsInjective
<1>2. /\ a \in Seq(S)
      /\ Len(a) = Len(q) + 1
      /\ \A i \in 1..Len(q) : a[i] = q[i]
      /\ a[Len(q) + 1] = x
  BY <1>1, AppendProperties
<1>3. Len(q) \in Nat /\ DOMAIN a = 1..Len(q) + 1
  BY <1>1, <1>2, ElementsOfSeq
<1>4. \A i \in 1..Len(q) : a[i] # x
  BY <1>1, <1>2, ElementsOfSeq
<1>5. IsInjective(a)
  BY <1>1, <1>2, <1>3, <1>4 DEF IsInjective
<1>6. Range(a) = Range(q) \cup {x}
  <2>1. \A y : y \in Range(a) <=> \E i \in 1..Len(q) + 1 : a[i] = y
    <3>1. \A y : y \in Range(a) <=> \E i \in 1..Len(a) : a[i] = y
      BY <1>2, ElementsOfSeq
    <3> QED
      BY <3>1, <1>2
  <2>2. \A y : y \in Range(q) <=> \E i \in 1..Len(q) : q[i] = y
    BY <1>1, ElementsOfSeq
  <2>3. \A y : y \in Range(a) => y \in Range(q) \cup {x}
    BY <2>1, <2>2, <1>2, <1>3
  <2>4. \A y : y \in Range(q) => y \in Range(a)
    BY <2>1, <2>2, <1>2, <1>3
  <2>5. x \in Range(a)
    BY <2>1, <1>2, <1>3
  <2> QED
    BY <2>3, <2>4, <2>5
<1> QED
  BY <1>2, <1>5, <1>6 DEF IsList

\* erase of the element at position k: what is left, and where.
LEMMA RemoveAtElements ==
  ASSUME NEW S, NEW q \in Seq(S), NEW k \in 1..Len(q)
  PROVE  /\ RemoveAt(q, k) \in Seq(S)
         /\ Len(RemoveAt(q, k)) = Len(q) - 1
         /\ \A i \in 1..Len(q) - 1 : RemoveAt(q, k)[i] = IF i < k THEN q[i] ELSE q[i + 1]
<1> DEFINE n == Len(q)
            r == RemoveAt(q, k)
<1>1. q \in Seq(S) /\ n \in Nat
  BY ElementsOfSeq
<1>2. /\ r \in Seq(S)
      /\ Len(r) = n - 1
      /\ \A i \in 1..n - 1 : r[i] = IF i < k THEN q[i] ELSE q[i + 1]
  <2>1. /\ SubSeq(q, 1, k - 1) \in Seq(S)
        /\ Len(SubSeq(q, 1, k - 1)) = k - 1
        /\ \A i \in 1..k - 1 : SubSeq(q, 1, k - 1)[i] = q[i]
    BY <1>1
  <2>2. /\ SubSeq(q, k + 1, n) \in Seq(S)
        /\ Len(SubSeq(q, k + 1, n)) = n - k
        /\ \A i \in 1..n - k : SubSeq(q, k + 1, n)[i] = q[i + k]
    BY <1>1
  <2> DEFINE u == SubSeq(q, 1, k - 1)
             v == SubSeq(q, k + 1, n)
  <2>3. /\ u \o v \in Seq(S)
        /\ Len(u \o v) = Len(u) + Len(v)
        /\ \A i \in 1..Len(u) + Len(v) :
             (u \o v)[i] = IF i <= Len(u) THEN u[i] ELSE v[i - Len(u)]
    BY <2>1, <2>2, ConcatProperties
  <2>4. r = u \o v
    BY DEF RemoveAt
  <2> HIDE DEF u, v, r
  <2>5. Len(u) = k - 1 /\ Len(v) = n - k
    BY <2>1, <2>2 DEF u, v
  <2>6. r \in Seq(S) /\ Len(r) = n - 1
    <3>1. r \in Seq(S) /\ Len(r) = Len(u) + Len(v)
      BY <2>3, <2>4
    <3>2. (k - 1) + (n - k) = n - 1
      BY <1>1
    <3> QED
      BY <3>1, <3>2, <2>5
  <2>7. ASSUME NEW i \in 1..n - 1, i < k
        PROVE  r[i] = q[i]
    <3>1. r[i] = u[i]
      BY <2>7, <2>3, <2>4, <2>5, <1>1
    <3>2. u[i] = q[i]
      BY <2>7, <2>1, <1>1 DEF u
    <3> QED
      BY <3>1, <3>2
  <2>8. ASSUME NEW i \in 1..n - 1, ~(i < k)
        PROVE  r[i] = q[i + 1]
    <3>1. r[i] = v[i - (k - 1)]
      BY <2>8, <2>3, <2>4, <2>5, <1>1
    <3>2. v[i - (k - 1)] = q[i - (k - 1) + k]
      BY <2>8, <2>2, <1>1 DEF v
    <3>3. i - (k - 1) + k = i + 1
      BY <1>1
    <3> QED
      BY <3>1, <3>2, <3>3
  <2> QED
    BY <2>6, <2>7, <2>8
<1> QED
  BY <1>2

\* It stays a list, without that element.
LEMMA RemoveAtOfList ==
  ASSUME NEW S, NEW q, IsList(q, S), NEW k \in 1..Len(q)
  PROVE  /\ IsList(RemoveAt(q, k), S)
         /\ Range(RemoveAt(q, k)) = Range(q) \ {q[k]}
<1> DEFINE n == Len(q)
            r == RemoveAt(q, k)
<1>1. /\ q \in Seq(S)
      /\ n \in Nat
      /\ \A i \in 1..n : q[i] \in S
      /\ \A i, j \in 1..n : q[i] = q[j] => i = j
  BY ElementsOfSeq DEF IsList, IsInjective
<1>2. /\ r \in Seq(S)
      /\ Len(r) = n - 1
      /\ \A i \in 1..n - 1 : r[i] = IF i < k THEN q[i] ELSE q[i + 1]
  BY <1>1, RemoveAtElements
<1> HIDE DEF r
<1>3. DOMAIN r = 1..n - 1
  BY <1>1, <1>2, ElementsOfSeq
<1>4. IsInjective(r)
  <2>1. SUFFICES ASSUME NEW i \in 1..n - 1, NEW j \in 1..n - 1, r[i] = r[j]
                 PROVE  i = j
    BY <1>3 DEF IsInjective
  <2> DEFINE at(m) == IF m < k THEN m ELSE m + 1
  <2>2. at(i) \in 1..n /\ at(j) \in 1..n /\ q[at(i)] = q[at(j)]
    BY <2>1, <1>1, <1>2
  <2>3. at(i) = at(j)
    BY <2>2, <1>1
  <2> QED
    BY <2>3
<1>5. Range(r) = Range(q) \ {q[k]}
  <2>1. ASSUME NEW i \in 1..n - 1
        PROVE  r[i] \in Range(q) \ {q[k]}
    BY <1>1, <1>2, ElementsOfSeq
  <2>2. ASSUME NEW i \in 1..n, q[i] # q[k]
        PROVE  \E j \in 1..n - 1 : r[j] = q[i]
    <3>1. CASE i < k
      BY <3>1, <1>2, <1>1
    <3>2. CASE i > k
      <4>1. i - 1 \in 1..n - 1 /\ r[i - 1] = q[i]
        BY <3>2, <1>2, <1>1
      <4> QED
        BY <4>1
    <3> QED
      BY <2>2, <3>1, <3>2, <1>1
  <2>3. \A x : x \in Range(r) <=> \E i \in 1..n - 1 : r[i] = x
    BY <1>3 DEF Range
  <2>4. \A x : x \in Range(q) <=> \E i \in 1..n : q[i] = x
    BY <1>1, ElementsOfSeq
  <2> QED
    BY <2>1, <2>2, <2>3, <2>4
<1> QED
  BY <1>2, <1>4, <1>5 DEF IsList, r

\* erase of the first element equal to p, if there is one.
LEMMA RemoveFirstIs ==
  ASSUME NEW S, NEW q, IsList(q, S), NEW p
  PROVE  \/ p \notin Range(q) /\ RemoveFirst(q, p) = q
         \/ \E k \in 1..Len(q) : q[k] = p /\ RemoveFirst(q, p) = RemoveAt(q, k)
<1>1. q \in Seq(S) /\ \A i, j \in 1..Len(q) : q[i] = q[j] => i = j
  BY ElementsOfSeq DEF IsList, IsInjective
<1>2. CASE p \notin Range(q)
  <2>1. ~ \E i \in 1..Len(q) : q[i] = p
    BY <1>1, <1>2, ElementsOfSeq
  <2> QED
    BY <2>1, <1>2 DEF RemoveFirst
<1>3. CASE p \in Range(q)
  <2>1. PICK k \in 1..Len(q) : q[k] = p
    BY <1>1, <1>3, ElementsOfSeq
  <2>2. {i \in 1..Len(q) : q[i] = p} = {k}
    BY <2>1, <1>1
  <2>3. Min({k}) = k
    BY <1>1, ElementsOfSeq DEF Min
  <2>4. RemoveFirst(q, p) = RemoveAt(q, k)
    BY <2>1, <2>2, <2>3 DEF RemoveFirst, SelectInSeq
  <2> QED
    BY <2>1, <2>4
<1> QED
  BY <1>2, <1>3

LEMMA RemoveFirstOfList ==
  ASSUME NEW S, NEW q, IsList(q, S), NEW p
  PROVE  /\ IsList(RemoveFirst(q, p), S)
         /\ Range(RemoveFirst(q, p)) = Range(q) \ {p}
BY RemoveFirstIs, RemoveAtOfList

\* pop_front.
LEMMA TailOfList ==
  ASSUME NEW S, NEW q, IsList(q, S), q # <<>>
  PROVE  /\ IsList(Tail(q), S)
         /\ Head(q) \in Range(q)
         /\ Head(q) \in S
         /\ Range(Tail(q)) = Range(q) \ {Head(q)}
<1> DEFINE t == Tail(q)
<1>1. /\ q \in Seq(S)
      /\ Len(q) \in Nat \ {0}
      /\ \A i, j \in 1..Len(q) : q[i] = q[j] => i = j
  BY ElementsOfSeq, EmptySeq DEF IsList, IsInjective
<1>2. Head(q) = q[1] /\ 1 \in 1..Len(q)
  BY <1>1
<1>3. /\ t \in Seq(S)
      /\ Len(t) = Len(q) - 1
      /\ \A i \in 1..Len(q) - 1 : t[i] = q[i + 1]
  BY <1>1, HeadTailProperties
<1> HIDE DEF t
<1>4. DOMAIN t = 1..Len(q) - 1
  BY <1>3, ElementsOfSeq
<1>5. IsInjective(t)
  BY <1>1, <1>3, <1>4 DEF IsInjective
<1>6. Range(t) = Range(q) \ {Head(q)}
  <2>1. \A x : x \in Range(t) <=> \E i \in 1..Len(q) - 1 : t[i] = x
    BY <1>4 DEF Range
  <2>2. \A x : x \in Range(q) <=> \E i \in 1..Len(q) : q[i] = x
    BY <1>1, ElementsOfSeq
  <2>3. ASSUME NEW i \in 1..Len(q) - 1
        PROVE  t[i] \in Range(q) /\ t[i] # q[1]
    BY <1>1, <1>3, <2>2
  <2>4. ASSUME NEW i \in 1..Len(q), q[i] # q[1]
        PROVE  q[i] \in Range(t)
    <3>1. i - 1 \in 1..Len(q) - 1 /\ t[i - 1] = q[i]
      BY <2>4, <1>1, <1>3
    <3> QED
      BY <3>1, <2>1
  <2> QED
    BY <2>1, <2>2, <2>3, <2>4, <1>2
<1> QED
  BY <1>1, <1>2, <1>3, <1>5, <1>6, ElementsOfSeq DEF IsList, t
-----------------------------------------------------------------------------
(* Order *)

\* What is in both lists is in the same order in both, and what is new in r comes
\* behind it.
KeepsOrder(q, r) ==
  /\ \A i, j \in DOMAIN q, k, l \in DOMAIN r :
       i < j /\ q[i] = r[k] /\ q[j] = r[l] => k < l
  /\ \A k, l \in DOMAIN r :
       k < l /\ r[l] \in Range(q) => r[k] \in Range(q)

\* The first n elements of r are taken from places of q that increase, and the
\* others are new.
LEMMA Drawn ==
  ASSUME NEW S, NEW q, IsList(q, S), NEW r \in Seq(S), NEW n \in Nat, n <= Len(r),
         NEW at \in [1..n -> 1..Len(q)],
         \A k, l \in 1..n : k < l => at[k] < at[l],
         \A k \in 1..n : r[k] = q[at[k]],
         \A k \in n + 1 .. Len(r) : r[k] \notin Range(q)
  PROVE  KeepsOrder(q, r)
<1>1. /\ DOMAIN q = 1..Len(q) /\ Len(q) \in Nat
      /\ \A i \in 1..Len(q) : q[i] \in Range(q)
      /\ \A i, j \in 1..Len(q) : q[i] = q[j] => i = j
      /\ DOMAIN r = 1..Len(r) /\ Len(r) \in Nat
  BY ElementsOfSeq DEF IsList, IsInjective
<1>2. \A k \in 1..Len(r) : r[k] \in Range(q) => k \in 1..n
  BY <1>1
<1>3. ASSUME NEW i \in 1..Len(q), NEW j \in 1..Len(q), NEW k \in 1..Len(r), NEW l \in 1..Len(r),
             i < j, q[i] = r[k], q[j] = r[l]
      PROVE  k < l
  <2>1. k \in 1..n /\ l \in 1..n
    BY <1>1, <1>2, <1>3
  <2>2. at[k] = i /\ at[l] = j
    BY <1>1, <1>3, <2>1
  <2> QED
    BY <1>1, <1>3, <2>1, <2>2
<1>4. ASSUME NEW k \in 1..Len(r), NEW l \in 1..Len(r), k < l, r[l] \in Range(q)
      PROVE  r[k] \in Range(q)
  <2>1. k \in 1..n
    BY <1>1, <1>2, <1>4
  <2> QED
    BY <1>1, <2>1
<1> QED
  BY <1>1, <1>3, <1>4 DEF KeepsOrder

LEMMA SameOrder ==
  ASSUME NEW S, NEW q, IsList(q, S)
  PROVE  KeepsOrder(q, q)
<1>1. q \in Seq(S) /\ Len(q) \in Nat
  BY ElementsOfSeq DEF IsList
<1> DEFINE at == [k \in 1..Len(q) |-> k]
<1>2. /\ at \in [1..Len(q) -> 1..Len(q)]
      /\ \A k \in 1..Len(q) : at[k] = k /\ q[k] = q[at[k]]
  OBVIOUS
<1> HIDE DEF at
<1>3. \A k, l \in 1..Len(q) : k < l => at[k] < at[l]
  BY <1>2
<1>4. \A k \in Len(q) + 1 .. Len(q) : q[k] \notin Range(q)
  BY <1>1
<1> QED
  BY <1>1, <1>2, <1>3, <1>4, Drawn

LEMMA AppendOrder ==
  ASSUME NEW S, NEW q, IsList(q, S), NEW x \in S, x \notin Range(q)
  PROVE  KeepsOrder(q, Append(q, x))
<1> DEFINE r == Append(q, x)
           at == [k \in 1..Len(q) |-> k]
<1>1. /\ q \in Seq(S) /\ Len(q) \in Nat /\ r \in Seq(S) /\ Len(r) = Len(q) + 1
      /\ r[Len(q) + 1] = x /\ \A k \in 1..Len(q) : r[k] = q[k]
  BY ElementsOfSeq DEF IsList
<1>2. /\ at \in [1..Len(q) -> 1..Len(q)]
      /\ \A k \in 1..Len(q) : at[k] = k
  OBVIOUS
<1> HIDE DEF r, at
<1>3. /\ \A k, l \in 1..Len(q) : k < l => at[k] < at[l]
      /\ \A k \in 1..Len(q) : r[k] = q[at[k]]
  BY <1>1, <1>2
<1>4. \A k \in Len(q) + 1 .. Len(r) : r[k] \notin Range(q)
  BY <1>1
<1>5. Len(q) <= Len(r)
  BY <1>1
<1>6. KeepsOrder(q, r)
  BY <1>1, <1>2, <1>3, <1>4, <1>5, Drawn
<1> QED
  BY <1>6 DEF r

\* pop_front, and then perhaps push_back of a new element.
LEMMA TailOrder ==
  ASSUME NEW S, NEW q, IsList(q, S), q # <<>>
  PROVE  /\ KeepsOrder(q, Tail(q))
         /\ \A x \in S : x \notin Range(q) => KeepsOrder(q, Append(Tail(q), x))
<1> DEFINE t == Tail(q)
           at == [k \in 1..Len(q) - 1 |-> k + 1]
<1>1. /\ q \in Seq(S) /\ Len(q) \in Nat \ {0}
      /\ t \in Seq(S) /\ Len(t) = Len(q) - 1
      /\ \A k \in 1..Len(q) - 1 : t[k] = q[k + 1]
  BY ElementsOfSeq, EmptySeq, HeadTailProperties DEF IsList
<1>2. /\ Len(q) - 1 \in Nat
      /\ at \in [1..Len(q) - 1 -> 1..Len(q)]
      /\ \A k \in 1..Len(q) - 1 : at[k] = k + 1
  BY <1>1
<1> HIDE DEF t, at
<1>3. /\ \A k, l \in 1..Len(q) - 1 : k < l => at[k] < at[l]
      /\ \A k \in 1..Len(q) - 1 : t[k] = q[at[k]]
  BY <1>1, <1>2
<1>4. KeepsOrder(q, t)
  <2>1. /\ Len(q) - 1 <= Len(t)
        /\ \A k \in (Len(q) - 1) + 1 .. Len(t) : t[k] \notin Range(q)
    BY <1>1
  <2> QED
    BY <1>1, <1>2, <1>3, <2>1, Drawn
<1>5. ASSUME NEW x \in S, x \notin Range(q)
      PROVE  KeepsOrder(q, Append(t, x))
  <2> DEFINE r == Append(t, x)
  <2>1. /\ r \in Seq(S) /\ Len(r) = Len(q)
        /\ r[Len(q)] = x /\ \A k \in 1..Len(q) - 1 : r[k] = q[k + 1]
    BY <1>1
  <2> HIDE DEF r
  <2>2. /\ Len(q) - 1 <= Len(r)
        /\ \A k \in 1..Len(q) - 1 : r[k] = q[at[k]]
        /\ \A k \in (Len(q) - 1) + 1 .. Len(r) : r[k] \notin Range(q)
    BY <1>1, <1>2, <1>5, <2>1
  <2>3. KeepsOrder(q, r)
    BY <1>1, <1>2, <1>3, <2>1, <2>2, Drawn
  <2> QED
    BY <2>3 DEF r
<1> QED
  BY <1>4, <1>5 DEF t

LEMMA RemoveOrder ==
  ASSUME NEW S, NEW q, IsList(q, S)
  PROVE  /\ \A k \in 1..Len(q) : KeepsOrder(q, RemoveAt(q, k))
         /\ \A p : KeepsOrder(q, RemoveFirst(q, p))
<1>1. ASSUME NEW k \in 1..Len(q)
      PROVE  KeepsOrder(q, RemoveAt(q, k))
  <2> DEFINE r == RemoveAt(q, k)
             at == [i \in 1..Len(q) - 1 |-> IF i < k THEN i ELSE i + 1]
  <2>1. /\ q \in Seq(S) /\ Len(q) \in Nat \ {0}
        /\ r \in Seq(S) /\ Len(r) = Len(q) - 1
        /\ \A i \in 1..Len(q) - 1 : r[i] = IF i < k THEN q[i] ELSE q[i + 1]
    <3>1. q \in Seq(S) /\ Len(q) \in Nat
      BY ElementsOfSeq DEF IsList
    <3>2. Len(q) \in Nat \ {0}
      BY <3>1
    <3> QED
      BY <3>1, <3>2, RemoveAtElements
  <2> HIDE DEF r
  <2>2. at \in [1..Len(q) - 1 -> 1..Len(q)]
    BY <2>1
  <2>3. \A i \in 1..Len(q) - 1 : r[i] = q[at[i]]
    BY <2>1
  <2>4. \A i, j \in 1..Len(q) - 1 : i < j => at[i] < at[j]
    BY <2>1
  <2> HIDE DEF at
  <2>5. /\ Len(q) - 1 \in Nat /\ Len(q) - 1 <= Len(r)
        /\ \A i \in (Len(q) - 1) + 1 .. Len(r) : r[i] \notin Range(q)
    BY <2>1
  <2>6. KeepsOrder(q, r)
    BY <2>1, <2>2, <2>3, <2>4, <2>5, Drawn
  <2> QED
    BY <2>6 DEF r
<1> QED
  BY <1>1, RemoveFirstIs, SameOrder
-----------------------------------------------------------------------------
(* The kernel *)

LEMMA UINT16Bound == MaxUINT16 \in Nat /\ MaxUINT16 > 0
BY DEF MaxUINT16

\* Zero and the pids are different things, and the idle process is one of them.
LEMMA IdsDiffer ==
  /\ Idle \in Procs
  /\ NoPcb \notin Procs
  /\ NoSem \notin Sems
  /\ Procs \subseteq Nat
BY TasksAssumption, SemsAssumption, UINT16Bound DEF Idle, Procs, NoPcb, NoSem, Sems, UINT16

\* The states are different codes.
LEMMA StatesDiffer ==
  /\ READY \notin {RUNNING, WAITING, SUSPEND, TERMINATED, SWAPPED_READY}
  /\ RUNNING \notin {WAITING, SUSPEND, TERMINATED, SWAPPED_READY}
  /\ WAITING \notin {SUSPEND, TERMINATED, SWAPPED_READY, SWAPPED_WAITING}
  /\ SUSPEND \notin {TERMINATED, SWAPPED_READY, SWAPPED_WAITING}
BY DEF READY, RUNNING, WAITING, SUSPEND, TERMINATED, SWAPPED_READY, SWAPPED_WAITING,
       SWAPPED_SUSPEND

LEMMA StatesUsed ==
  /\ READY \in States /\ RUNNING \in States /\ WAITING \in States /\ SUSPEND \in States
  /\ TERMINATED \in States /\ SWAPPED_READY \in States
BY DEF States

\* Every state passes the test of isWaitingEvent, so the branches on it are
\* always taken: the macro's second operand is or-ed into the test.
LEMMA AlwaysWaitingEvent == \A P : isWaitingEvent(P)
BY DEF isWaitingEvent, Masked, WAITING, SWAPPED_WAITING, READY

\* The values the kernel writes into a PCB are PCB values.
LEMMA PcbOperations ==
  ASSUME NEW P \in Pcbs
  PROVE  /\ Cleared \in Pcbs
         /\ init(P) \in Pcbs
         /\ decDelay(P) \in Pcbs
         /\ awaken(P) \in Pcbs
         /\ expire(P) \in Pcbs
         /\ \A s \in Sems, d \in UINT16 : await(P, s, d) \in Pcbs
<1>1. Cleared \in Pcbs /\ init(P) \in Pcbs
  BY StatesUsed, UINT16Bound DEF Pcbs, Cleared, init, UINT16
<1>2. decDelay(P) \in Pcbs
  <2>1. P.delay \in UINT16 => (IF P.delay > 0 THEN P.delay - 1 ELSE P.delay) \in UINT16
    BY UINT16Bound DEF UINT16
  <2> QED
    BY <2>1 DEF Pcbs, decDelay
<1>3. awaken(P) \in Pcbs
  <2> DEFINE st == IF P.state = SWAPPED_WAITING THEN SWAPPED_READY ELSE READY
  <2>1. st \in States /\ 0 \in UINT16
    BY StatesUsed, UINT16Bound DEF UINT16
  <2>2. awaken(P) = [P EXCEPT !.state = st, !.timedOut = FALSE, !.delay = 0, !.sem = NoSem]
    BY DEF awaken
  <2> QED
    BY <2>1, <2>2 DEF Pcbs
<1>4. expire(P) \in Pcbs
  <2> DEFINE st == IF P.state = WAITING THEN READY ELSE SWAPPED_READY
  <2>1. st \in States /\ 0 \in UINT16
    BY StatesUsed, UINT16Bound DEF UINT16
  <2>2. expire(P) = [P EXCEPT !.delay = 0, !.timedOut = TRUE, !.sem = NoSem, !.state = st]
    BY AlwaysWaitingEvent DEF expire
  <2> QED
    BY <2>1, <2>2 DEF Pcbs
<1>5. \A s \in Sems, d \in UINT16 : await(P, s, d) \in Pcbs
  BY StatesUsed DEF Pcbs, await
<1> QED
  BY <1>1, <1>2, <1>3, <1>4, <1>5

\* What the operations on a control block do to its state and its pointer.
LEMMA PcbFields ==
  ASSUME NEW P \in Pcbs
  PROVE  /\ init(P).state = READY /\ init(P).sem = P.sem
         /\ decDelay(P).state = P.state /\ decDelay(P).sem = P.sem
         /\ awaken(P).state \in {READY, SWAPPED_READY} /\ awaken(P).sem = NoSem
         /\ expire(P).state \in {READY, SWAPPED_READY} /\ expire(P).sem = NoSem
         /\ \A s \in Sems, d \in UINT16 :
              await(P, s, d).state = WAITING /\ await(P, s, d).sem = s
<1>1. init(P).state = READY /\ init(P).sem = P.sem
  BY DEF Pcbs, init
<1>2. decDelay(P).state = P.state /\ decDelay(P).sem = P.sem
  BY DEF Pcbs, decDelay
<1>3. awaken(P).state \in {READY, SWAPPED_READY} /\ awaken(P).sem = NoSem
  BY DEF Pcbs, awaken
<1>4. expire(P).state \in {READY, SWAPPED_READY} /\ expire(P).sem = NoSem
  BY AlwaysWaitingEvent DEF Pcbs, expire
<1>5. \A s \in Sems, d \in UINT16 :
        await(P, s, d).state = WAITING /\ await(P, s, d).sem = s
  BY DEF Pcbs, await
<1> QED
  BY <1>1, <1>2, <1>3, <1>4, <1>5

\* The table after a process has been given the CPU.
LEMMA DispatchedPcb ==
  ASSUME NEW P \in [Procs -> Pcbs], NEW n \in Procs
  PROVE  LET D == Dispatched(P, n)
         IN  /\ D \in [Procs -> Pcbs]
             /\ D[n].state = RUNNING
             /\ \A p \in Procs : p # n => D[p] = P[p]
             /\ \A p \in Procs : D[p].sem = P[p].sem
<1>1. P[n] \in Pcbs
  OBVIOUS
<1>2. [P[n] EXCEPT !.state = RUNNING, !.delay = TicksPerSched] \in Pcbs
  BY <1>1, StatesUsed, SliceAssumption DEF Pcbs
<1> QED
  BY <1>1, <1>2 DEF Dispatched, Pcbs

\* What sched() promises its callers: someone has the CPU, and nobody has been
\* added or lost but the idle process.
Scheduled(c, r, P, S) ==
  /\ S.curr \in Procs
  /\ IsList(S.ready, Procs)
  /\ S.curr \notin Range(S.ready)
  /\ Idle \notin Range(S.ready)
  /\ Range(S.ready) \cup {S.curr, Idle, NoPcb} = Range(r) \cup {c, Idle, NoPcb}
  /\ S.pcb \in [Procs -> Pcbs]
  /\ S.pcb[S.curr].state = RUNNING
  /\ c \in Procs /\ c # S.curr => S.pcb[c].state = READY
  /\ \A p \in Procs : p \notin {c, S.curr} => S.pcb[p] = P[p]
  /\ \A p \in Procs : S.pcb[p].sem = P[p].sem

LEMMA SchedResult ==
  ASSUME NEW c \in Procs \cup {NoPcb},
         NEW r, IsList(r, Procs), c \notin Range(r), Idle \notin Range(r),
         NEW P \in [Procs -> Pcbs],
         c # NoPcb => P[c].state = RUNNING
  PROVE  Scheduled(c, r, P, sched(c, r, P))
<1> DEFINE S == sched(c, r, P)
<1>1. CASE r = <<>>
  <2>1. S = SchedNone(c, P)
    BY <1>1 DEF sched
  <2>2. IsList(<<>>, Procs) /\ Range(<<>>) = {}
    BY EmptyList
  <2>3. CASE c # NoPcb
    <3>1. c \in Procs /\ P[c] \in Pcbs
      BY <2>3
    <3>2. [P[c] EXCEPT !.delay = TicksPerSched] \in Pcbs
      BY <3>1, SliceAssumption DEF Pcbs
    <3>3. /\ S.curr = c /\ S.ready = <<>>
          /\ S.pcb = [P EXCEPT ![c] = [P[c] EXCEPT !.delay = TicksPerSched]]
      BY <2>1, <2>3 DEF SchedNone
    <3> QED
      <4> HIDE DEF S
      <4>1. S.pcb[c] = [P[c] EXCEPT !.delay = TicksPerSched]
        BY <3>1, <3>2, <3>3
      <4>2. S.pcb[c].state = RUNNING /\ S.pcb[c].sem = P[c].sem
        BY <2>3, <3>1, <4>1 DEF Pcbs
      <4>3. S.pcb \in [Procs -> Pcbs] /\ \A p \in Procs : p # c => S.pcb[p] = P[p]
        BY <3>1, <3>2, <3>3
      <4> QED
        BY <1>1, <2>2, <2>3, <3>1, <3>3, <4>2, <4>3, IdsDiffer DEF Scheduled, S
  <2>4. CASE c = NoPcb
    <3>1. S.curr = Idle /\ S.ready = <<>> /\ S.pcb = Dispatched(P, Idle)
      BY <2>1, <2>4 DEF SchedNone
    <3> QED
      BY <1>1, <2>2, <2>4, <3>1, IdsDiffer, DispatchedPcb DEF Scheduled
  <2> QED
    BY <2>3, <2>4
<1>2. CASE r # <<>>
  <2> DEFINE h == Head(r)
             Q == IF c = NoPcb THEN P ELSE [P EXCEPT ![c].state = READY]
  <2>1. /\ S.curr = h
        /\ S.ready = IF c \in {NoPcb, Idle} THEN Tail(r) ELSE Append(Tail(r), c)
        /\ S.pcb = Dispatched(Q, h)
    BY <1>2 DEF sched, SchedNext
  <2>2. /\ IsList(Tail(r), Procs)
        /\ h \in Range(r) /\ h \in Procs
        /\ Range(Tail(r)) = Range(r) \ {h}
    BY <1>2, TailOfList
  <2>3. /\ Q \in [Procs -> Pcbs]
        /\ \A p \in Procs : p # c => Q[p] = P[p]
        /\ \A p \in Procs : Q[p].sem = P[p].sem
        /\ c \in Procs => Q[c].state = READY
    <3>1. CASE c = NoPcb
      BY <3>1, IdsDiffer
    <3>2. CASE c # NoPcb
      <4>1. c \in Procs /\ P[c] \in Pcbs
        BY <3>2
      <4>2. [P[c] EXCEPT !.state = READY] \in Pcbs
        BY <4>1, StatesUsed DEF Pcbs
      <4> QED
        BY <3>2, <4>1, <4>2 DEF Pcbs
    <3> QED
      BY <3>1, <3>2
  <2>4. CASE c \in {NoPcb, Idle}
    <3> HIDE DEF Q, h
    <3>1. S.ready = Tail(r)
      BY <2>1, <2>4
    <3> QED
      BY <2>1, <2>2, <2>3, <2>4, <3>1, DispatchedPcb, IdsDiffer DEF Scheduled
  <2>5. CASE c \notin {NoPcb, Idle}
    <3> HIDE DEF Q, h
    <3>1. S.ready = Append(Tail(r), c)
      BY <2>1, <2>5
    <3>2. IsList(S.ready, Procs) /\ Range(S.ready) = Range(Tail(r)) \cup {c}
      BY <2>2, <2>5, <3>1, AppendToList
    <3> HIDE DEF S
    <3>3. /\ S.curr \in Procs /\ S.curr \notin Range(S.ready) /\ Idle \notin Range(S.ready)
          /\ Range(S.ready) \cup {S.curr, Idle, NoPcb} = Range(r) \cup {c, Idle, NoPcb}
      BY <2>1, <2>2, <2>5, <3>2
    <3>4. /\ S.pcb \in [Procs -> Pcbs]
          /\ S.pcb[h].state = RUNNING
          /\ \A p \in Procs : p # h => S.pcb[p] = Q[p]
          /\ \A p \in Procs : S.pcb[p].sem = Q[p].sem
      BY <2>1, <2>2, <2>3, DispatchedPcb
    <3> QED
      BY <2>1, <2>3, <3>2, <3>3, <3>4 DEF Scheduled, S
  <2> QED
    BY <2>4, <2>5
<1> QED
  BY <1>1, <1>2
-----------------------------------------------------------------------------
(* Where the processes are *)

\* OnePlace, and StateTells of the created processes, for any lists and table.
Placed(c, r, w, P, cr) ==
  /\ P \in [Procs -> Pcbs]
  /\ IsList(r, Procs) /\ IsList(w, Procs)
  /\ c \in Procs \cup {NoPcb}
  /\ cr \subseteq Procs
  /\ Range(r) \cap Range(w) = {}
  /\ c \notin Range(r) \cup Range(w)
  /\ Idle \notin Range(r) \cup Range(w)
  /\ cr \cup {NoPcb} = Range(r) \cup Range(w) \cup {c, Idle, NoPcb}
  /\ \A p \in Procs :
       /\ p = c => P[p].state = RUNNING
       /\ p = Idle /\ p # c => P[p].state = READY
       /\ p \in Range(r) => P[p].state \in {READY, SWAPPED_READY}
       /\ p \in Range(w) => P[p].state \in {WAITING, SUSPEND}

\* The lists of a Placed kernel hold created processes.
LEMMA PlacedIn ==
  ASSUME NEW c, NEW r, NEW w, NEW P, NEW cr, Placed(c, r, w, P, cr)
  PROVE  /\ Range(r) \subseteq cr /\ Range(w) \subseteq cr /\ Idle \in cr
         /\ c # NoPcb => c \in cr
         /\ Range(r) \subseteq Procs /\ Range(w) \subseteq Procs
         /\ NoPcb \notin Range(r) \cup Range(w)
         /\ \A p \in cr : p \in Range(r) \cup Range(w) \cup {c, Idle}
<1>1. Range(r) \subseteq Procs /\ Range(w) \subseteq Procs
  BY ElementsOfSeq DEF Placed, IsList
<1> QED
  BY <1>1, IdsDiffer DEF Placed

\* sched() keeps every process in its place, and changes no blocked process and
\* no free block.
LEMMA PlacedSched ==
  ASSUME NEW c, NEW r, NEW w, NEW P, NEW cr, Placed(c, r, w, P, cr)
  PROVE  LET S == sched(c, r, P)
         IN  /\ Placed(S.curr, S.ready, w, S.pcb, cr)
             /\ S.curr \in Procs
             /\ \A p \in Range(w) : S.pcb[p] = P[p]
             /\ \A p \in Procs \ cr : S.pcb[p] = P[p]
             /\ \A p \in Procs : S.pcb[p].sem = P[p].sem
<1> DEFINE S == sched(c, r, P)
<1>1. Scheduled(c, r, P, S)
  BY SchedResult DEF Placed
<1> HIDE DEF S
<1>2. S.curr \in Range(r) \cup {c, Idle}
  BY <1>1, IdsDiffer DEF Scheduled
<1>3. S.curr \notin Range(w)
  BY <1>2 DEF Placed
<1>4. Range(S.ready) \subseteq Range(r) \cup {c}
  <2>1. Range(S.ready) \subseteq Procs
    BY <1>1, ElementsOfSeq DEF Scheduled, IsList
  <2> QED
    BY <1>1, <2>1, IdsDiffer DEF Scheduled
<1>5. /\ Range(S.ready) \cap Range(w) = {}
      /\ cr \cup {NoPcb} = Range(S.ready) \cup Range(w) \cup {S.curr, Idle, NoPcb}
  BY <1>1, <1>4 DEF Placed, Scheduled
<1>6. \A p \in Range(w) : S.pcb[p] = P[p]
  <2>1. Range(w) \subseteq Procs
    BY ElementsOfSeq DEF Placed, IsList
  <2> QED
    BY <1>1, <1>3, <2>1 DEF Placed, Scheduled
<1>7. \A p \in Procs \ cr : S.pcb[p] = P[p]
  <2>1. Range(r) \subseteq cr /\ Idle \in cr /\ (c # NoPcb => c \in cr)
    BY PlacedIn
  <2>2. ASSUME NEW p \in Procs \ cr
        PROVE  p \notin {c, S.curr}
    BY <1>2, <2>1, IdsDiffer
  <2> QED
    BY <1>1, <2>2 DEF Scheduled
<1>8. ASSUME NEW p \in Procs
      PROVE  /\ p = S.curr => S.pcb[p].state = RUNNING
             /\ p = Idle /\ p # S.curr => S.pcb[p].state = READY
             /\ p \in Range(S.ready) => S.pcb[p].state \in {READY, SWAPPED_READY}
             /\ p \in Range(w) => S.pcb[p].state \in {WAITING, SUSPEND}
  <2>1. p = S.curr => S.pcb[p].state = RUNNING
    BY <1>1 DEF Scheduled
  <2>2. p = Idle /\ p # S.curr => S.pcb[p].state = READY
    BY <1>1 DEF Scheduled, Placed
  <2>3. p \in Range(S.ready) => S.pcb[p].state \in {READY, SWAPPED_READY}
    BY <1>1, <1>4 DEF Scheduled, Placed
  <2>4. p \in Range(w) => S.pcb[p].state \in {WAITING, SUSPEND}
    BY <1>6 DEF Placed
  <2> QED
    BY <2>1, <2>2, <2>3, <2>4
<1>9. Placed(S.curr, S.ready, w, S.pcb, cr)
  <2>1. /\ S.pcb \in [Procs -> Pcbs] /\ IsList(S.ready, Procs) /\ S.curr \in Procs
        /\ S.curr \notin Range(S.ready) /\ Idle \notin Range(S.ready)
    BY <1>1 DEF Scheduled
  <2>2. IsList(w, Procs) /\ cr \subseteq Procs /\ Idle \notin Range(w)
    BY DEF Placed
  <2> QED
    BY <1>3, <1>5, <1>8, <2>1, <2>2 DEF Placed
<1> QED
  BY <1>1, <1>6, <1>7, <1>9 DEF Scheduled, S

\* A process that is nowhere, made ready, can join the ready list.
LEMMA PlacedAddReady ==
  ASSUME NEW c, NEW r, NEW w, NEW P, NEW cr, Placed(c, r, w, P, cr),
         NEW p \in Procs \ cr, NEW b \in Pcbs, b.state \in {READY, SWAPPED_READY}
  PROVE  Placed(c, Append(r, p), w, [P EXCEPT ![p] = b], cr \cup {p})
<1> DEFINE a == Append(r, p)
           B == [P EXCEPT ![p] = b]
<1>1. p \notin Range(r) \cup Range(w) \cup {c, Idle}
  BY PlacedIn, IdsDiffer DEF Placed
<1>2. IsList(a, Procs) /\ Range(a) = Range(r) \cup {p}
  BY <1>1, AppendToList DEF Placed
<1>3. B \in [Procs -> Pcbs] /\ B[p] = b /\ \A x \in Procs : x # p => B[x] = P[x]
  BY DEF Placed
<1> HIDE DEF a, B
<1>4. ASSUME NEW x \in Procs
      PROVE  /\ x = c => B[x].state = RUNNING
             /\ x = Idle /\ x # c => B[x].state = READY
             /\ x \in Range(a) => B[x].state \in {READY, SWAPPED_READY}
             /\ x \in Range(w) => B[x].state \in {WAITING, SUSPEND}
  BY <1>1, <1>2, <1>3 DEF Placed
<1> QED
  BY <1>1, <1>2, <1>3, <1>4 DEF Placed, a, B

\* The running process, made to wait, can join the list of blocked ones.
LEMMA PlacedBlock ==
  ASSUME NEW c \in Procs, NEW r, NEW w, NEW P, NEW cr, Placed(c, r, w, P, cr),
         c # Idle, NEW b \in Pcbs, b.state \in {WAITING, SUSPEND}
  PROVE  /\ Placed(NoPcb, r, Append(w, c), [P EXCEPT ![c] = b], cr)
         /\ Range(Append(w, c)) = Range(w) \cup {c}
<1> DEFINE a == Append(w, c)
           B == [P EXCEPT ![c] = b]
<1>1. IsList(a, Procs) /\ Range(a) = Range(w) \cup {c}
  BY AppendToList DEF Placed
<1>2. B \in [Procs -> Pcbs] /\ B[c] = b /\ \A x \in Procs : x # c => B[x] = P[x]
  BY DEF Placed
<1> HIDE DEF a, B
<1>3. NoPcb \notin Range(r) \cup Range(a)
  <2>1. Range(r) \subseteq cr /\ Range(w) \subseteq cr /\ cr \subseteq Procs
    BY PlacedIn DEF Placed
  <2> QED
    BY <1>1, <2>1, IdsDiffer
<1>4. ASSUME NEW x \in Procs
      PROVE  /\ x = NoPcb => B[x].state = RUNNING
             /\ x = Idle /\ x # NoPcb => B[x].state = READY
             /\ x \in Range(r) => B[x].state \in {READY, SWAPPED_READY}
             /\ x \in Range(a) => B[x].state \in {WAITING, SUSPEND}
  BY <1>1, <1>2, IdsDiffer DEF Placed
<1>5. cr \cup {NoPcb} = Range(r) \cup Range(a) \cup {NoPcb, Idle, NoPcb}
  BY <1>1 DEF Placed
<1> QED
  BY <1>1, <1>2, <1>3, <1>4, <1>5 DEF Placed, a, B

\* What is not a state may change.
LEMMA PlacedKept ==
  ASSUME NEW c, NEW r, NEW w, NEW P, NEW cr, Placed(c, r, w, P, cr),
         NEW B \in [Procs -> Pcbs], \A p \in Procs : B[p].state = P[p].state
  PROVE  Placed(c, r, w, B, cr)
BY DEF Placed

\* A ready or a blocked process can be taken out of the lists.
LEMMA PlacedRemove ==
  ASSUME NEW c, NEW r, NEW w, NEW P, NEW cr, Placed(c, r, w, P, cr),
         NEW p \in Procs, p # c, p # Idle,
         NEW r2, IsList(r2, Procs), Range(r2) = Range(r) \ {p},
         NEW w2, IsList(w2, Procs), Range(w2) = Range(w) \ {p}
  PROVE  Placed(c, r2, w2, P, cr \ {p})
<1>1. \A x \in Procs :
        /\ x = c => P[x].state = RUNNING
        /\ x = Idle /\ x # c => P[x].state = READY
        /\ x \in Range(r2) => P[x].state \in {READY, SWAPPED_READY}
        /\ x \in Range(w2) => P[x].state \in {WAITING, SUSPEND}
  BY DEF Placed
<1>2. (cr \ {p}) \cup {NoPcb} = Range(r2) \cup Range(w2) \cup {c, Idle, NoPcb}
  BY IdsDiffer DEF Placed
<1> QED
  BY <1>1, <1>2 DEF Placed

\* A block that is not created may be cleared.
LEMMA PlacedClear ==
  ASSUME NEW c, NEW r, NEW w, NEW P, NEW cr, Placed(c, r, w, P, cr),
         NEW p \in Procs \ cr, NEW b \in Pcbs
  PROVE  Placed(c, r, w, [P EXCEPT ![p] = b], cr)
<1> DEFINE B == [P EXCEPT ![p] = b]
<1>1. B \in [Procs -> Pcbs] /\ \A x \in Procs : x # p => B[x] = P[x]
  BY DEF Placed
<1>2. p \notin Range(r) \cup Range(w) \cup {c, Idle}
  BY PlacedIn, IdsDiffer DEF Placed
<1> HIDE DEF B
<1>3. \A x \in Procs :
        /\ x = c => B[x].state = RUNNING
        /\ x = Idle /\ x # c => B[x].state = READY
        /\ x \in Range(r) => B[x].state \in {READY, SWAPPED_READY}
        /\ x \in Range(w) => B[x].state \in {WAITING, SUSPEND}
  BY <1>1, <1>2 DEF Placed
<1> QED
  BY <1>1, <1>3 DEF Placed, B
-----------------------------------------------------------------------------
(* Who waits for which semaphore *)

\* QueuesAgree and PointersAgree for any list of blocked processes, table and
\* semaphores.
Blocked(w, P, p, s) == p \in Range(w) /\ P[p].state = WAITING /\ P[p].sem = s

Linked(w, P, Q) ==
  /\ \A s \in Sems : IsList(Q[s].queue, Procs)
  /\ \A s \in Sems, p \in Procs : p \in Range(Q[s].queue) <=> Blocked(w, P, p, s)
  /\ \A p \in Procs : P[p].sem # NoSem <=> \E s \in Sems : Blocked(w, P, p, s)

\* The links hold on as long as the queues, the pointers and the states of the
\* blocked processes are left alone.
LEMMA LinkedKept ==
  ASSUME NEW w, NEW P, NEW Q, Linked(w, P, Q),
         NEW w2, Range(w2) = Range(w),
         NEW P2, \A p \in Procs : P2[p].sem = P[p].sem,
                 \A p \in Range(w) : P2[p].state = P[p].state,
         NEW Q2, \A s \in Sems : Q2[s].queue = Q[s].queue
  PROVE  Linked(w2, P2, Q2)
<1>1. \A p \in Procs, s \in Sems : Blocked(w2, P2, p, s) <=> Blocked(w, P, p, s)
  BY DEF Blocked
<1> QED
  BY <1>1 DEF Linked

\* A process that starts to wait without a semaphore changes no link ...
LEMMA LinkedPause ==
  ASSUME NEW w, NEW P, NEW Q, Linked(w, P, Q),
         NEW c \in Procs, c \notin Range(w),
         NEW w2, Range(w2) = Range(w) \cup {c},
         NEW P2, P2[c].sem = P[c].sem, P2[c].state = SUSPEND,
                 \A p \in Procs : p # c => P2[p] = P[p]
  PROVE  Linked(w2, P2, Q)
<1>1. \A s \in Sems : ~Blocked(w, P, c, s) /\ ~Blocked(w2, P2, c, s)
  BY StatesDiffer DEF Blocked
<1>2. \A p \in Procs, s \in Sems : Blocked(w2, P2, p, s) <=> Blocked(w, P, p, s)
  BY <1>1 DEF Blocked
<1> QED
  BY <1>2 DEF Linked

\* ... and with one it joins the queue it points to.
LEMMA LinkedWait ==
  ASSUME NEW w, NEW P, NEW Q, Linked(w, P, Q),
         NEW c \in Procs, c \notin Range(w), NEW s \in Sems,
         NEW w2, Range(w2) = Range(w) \cup {c},
         NEW P2, P2[c].sem = s, P2[c].state = WAITING,
                 \A p \in Procs : p # c => P2[p] = P[p],
         NEW Q2, Q2[s].queue = Append(Q[s].queue, c),
                 \A t \in Sems : t # s => Q2[t] = Q[t]
  PROVE  Linked(w2, P2, Q2)
<1>1. \A t \in Sems : ~Blocked(w, P, c, t) /\ (Blocked(w2, P2, c, t) <=> t = s)
  BY DEF Blocked
<1>2. \A p \in Procs, t \in Sems : p # c => (Blocked(w2, P2, p, t) <=> Blocked(w, P, p, t))
  BY DEF Blocked
<1>3. c \notin Range(Q[s].queue)
  BY <1>1 DEF Linked
<1>4. IsList(Q2[s].queue, Procs) /\ Range(Q2[s].queue) = Range(Q[s].queue) \cup {c}
  BY <1>3, AppendToList DEF Linked
<1>5. \A t \in Sems : IsList(Q2[t].queue, Procs)
  BY <1>4 DEF Linked
<1>6. \A t \in Sems, p \in Procs : p \in Range(Q2[t].queue) <=> Blocked(w2, P2, p, t)
  <2>1. SUFFICES ASSUME NEW t \in Sems, NEW p \in Procs
                 PROVE  p \in Range(Q2[t].queue) <=> Blocked(w2, P2, p, t)
    OBVIOUS
  <2>2. p \in Range(Q[t].queue) <=> Blocked(w, P, p, t)
    BY DEF Linked
  <2>3. Range(Q2[t].queue) = IF t = s THEN Range(Q[t].queue) \cup {c} ELSE Range(Q[t].queue)
    BY <1>4
  <2>4. CASE p = c
    BY <1>1, <2>2, <2>3, <2>4
  <2>5. CASE p # c
    BY <1>2, <2>2, <2>3, <2>5
  <2> QED
    BY <2>4, <2>5
<1>7. \A p \in Procs : P2[p].sem # NoSem <=> \E t \in Sems : Blocked(w2, P2, p, t)
  BY <1>1, <1>2, IdsDiffer DEF Linked
<1> QED
  BY <1>5, <1>6, <1>7 DEF Linked

\* The queues Q2 are the queues Q without p.
QueuesWithout(p, Q, Q2) ==
  \A s \in Sems : /\ IsList(Q2[s].queue, Procs)
                  /\ Range(Q2[s].queue) = Range(Q[s].queue) \ {p}

\* A process that is awakened, times out or is deleted leaves the queue, and
\* loses the pointer.
LEMMA LinkedLeave ==
  ASSUME NEW w, NEW P, NEW Q, Linked(w, P, Q),
         NEW p \in Procs,
         NEW w2, Range(w2) = Range(w) \ {p},
         NEW P2, P2[p].sem = NoSem, \A x \in Procs : x # p => P2[x] = P[x],
         NEW Q2, QueuesWithout(p, Q, Q2)
  PROVE  Linked(w2, P2, Q2)
<1>1. \A s \in Sems : ~Blocked(w2, P2, p, s)
  BY DEF Blocked
<1>2. \A x \in Procs, s \in Sems : x # p => (Blocked(w2, P2, x, s) <=> Blocked(w, P, x, s))
  BY DEF Blocked
<1>3. \A s \in Sems, x \in Procs : x \in Range(Q2[s].queue) <=> Blocked(w2, P2, x, s)
  BY <1>1, <1>2 DEF Linked, QueuesWithout
<1>4. \A x \in Procs : P2[x].sem # NoSem <=> \E s \in Sems : Blocked(w2, P2, x, s)
  BY <1>1, <1>2 DEF Linked
<1> QED
  BY <1>3, <1>4 DEF Linked, QueuesWithout

\* OSPcb::removeFromSem takes a process out of whatever queue it is in.
LEMMA RemovedFromSem ==
  ASSUME NEW w, Linked(w, pcb, sems), pcb \in [Procs -> Pcbs],
         sems \in [Sems -> Semaphores], NEW p \in Procs
  PROVE  /\ removeFromSem(p) \in [Sems -> Semaphores]
         /\ QueuesWithout(p, sems, removeFromSem(p))
<1> DEFINE Q == removeFromSem(p)
<1>1. CASE pcb[p].sem = NoSem
  <2>1. Q = sems
    BY <1>1 DEF removeFromSem
  <2>2. \A s \in Sems : p \notin Range(sems[s].queue)
    BY <1>1, IdsDiffer DEF Linked, Blocked
  <2> QED
    BY <2>1, <2>2 DEF Linked, QueuesWithout
<1>2. CASE pcb[p].sem # NoSem
  <2> DEFINE s == pcb[p].sem
             q == RemoveFirst(sems[s].queue, p)
  <2>1. s \in Sems
    BY <1>2 DEF Pcbs
  <2>2. Q = [sems EXCEPT ![s] = [sems[s] EXCEPT !.queue = q]]
    BY <1>2 DEF removeFromSem
  <2>3. IsList(q, Procs) /\ Range(q) = Range(sems[s].queue) \ {p}
    BY <2>1, RemoveFirstOfList DEF Linked
  <2> HIDE DEF q
  <2>4. sems[s] \in Semaphores /\ [sems[s] EXCEPT !.queue = q] \in Semaphores
    BY <2>1, <2>3 DEF Semaphores, IsList
  <2>5. /\ Q \in [Sems -> Semaphores]
        /\ Q[s].queue = q
        /\ \A t \in Sems : t # s => Q[t] = sems[t]
    BY <2>1, <2>2, <2>4 DEF Semaphores
  <2>6. \A t \in Sems : t # s => p \notin Range(sems[t].queue)
    BY DEF Linked, Blocked
  <2> HIDE DEF s, Q
  <2> QED
    BY <2>1, <2>3, <2>5, <2>6 DEF Linked, QueuesWithout, Q
<1> QED
  BY <1>1, <1>2
-----------------------------------------------------------------------------
(* The pool of control blocks *)

\* PoolAccounted, and the types, for any pool.
Pooled(cr, f, n) ==
  /\ cr \subseteq Procs
  /\ IsList(f, Procs)
  /\ Range(f) = Procs \ cr
  /\ n = Cardinality(cr)
  /\ n \in UINT16

\* The number of created processes is a number up to MaxTasks, and changes by
\* one when one is added or removed.
LEMMA CreatedCount ==
  ASSUME NEW cr, cr \subseteq Procs
  PROVE  /\ IsFiniteSet(cr)
         /\ Cardinality(cr) \in 0..MaxTasks
         /\ \A p \in Procs \ cr : Cardinality(cr \cup {p}) = Cardinality(cr) + 1
         /\ \A p \in cr : Cardinality(cr \ {p}) = Cardinality(cr) - 1
<1>1. MaxTasks \in Nat /\ MaxTasks > 0
  BY TasksAssumption, UINT16Bound
<1>2. IsFiniteSet(Procs) /\ Cardinality(Procs) = MaxTasks
  BY <1>1, FS_Interval DEF Procs
<1>3. IsFiniteSet(cr) /\ Cardinality(cr) \in Nat /\ Cardinality(cr) <= MaxTasks
  BY <1>2, FS_Subset, FS_CardinalityType
<1>4. \A p \in Procs \ cr : Cardinality(cr \cup {p}) = Cardinality(cr) + 1
  BY <1>3, FS_AddElement
<1>5. \A p \in cr : Cardinality(cr \ {p}) = Cardinality(cr) - 1
  BY <1>3, FS_RemoveElement
<1> QED
  BY <1>1, <1>3, <1>4, <1>5

\* The counter stays far from the limits of its type, where it would wrap.
LEMMA CountFits ==
  ASSUME NEW k \in 0..MaxTasks
  PROVE  k \in UINT16 /\ k % (MaxUINT16 + 1) = k
<1>1. MaxTasks \in Nat /\ MaxTasks < MaxUINT16
  BY TasksAssumption, UINT16Bound
<1>2. \A m \in Nat : k < m => k % m = k
  OBVIOUS
<1>3. MaxUINT16 + 1 \in Nat /\ k < MaxUINT16 + 1
  BY <1>1, UINT16Bound
<1> QED
  BY <1>1, <1>2, <1>3, UINT16Bound DEF UINT16

\* getFreePCB gives a block that nobody has.
LEMMA PoolTake ==
  ASSUME Pooled(created, freePcbs, procCtr), freePcbs # <<>>, getFreePCB
  PROVE  /\ Pooled(created', freePcbs', procCtr')
         /\ NextFree \in Procs \ created
         /\ created' = created \cup {NextFree}
<1>1. /\ IsList(Tail(freePcbs), Procs)
      /\ NextFree \in Procs \ created
      /\ Range(Tail(freePcbs)) = Range(freePcbs) \ {NextFree}
  BY TailOfList DEF Pooled, NextFree
<1>2. created' = created \cup {NextFree} /\ freePcbs' = Tail(freePcbs)
  BY DEF getFreePCB
<1>3. created' \subseteq Procs /\ Range(freePcbs') = Procs \ created'
  BY <1>1, <1>2 DEF Pooled
<1>4. Cardinality(created') = procCtr + 1 /\ Cardinality(created') \in 0..MaxTasks
  BY <1>1, <1>2, <1>3, CreatedCount DEF Pooled
<1>5. procCtr' = Cardinality(created') /\ procCtr' \in UINT16
  BY <1>4, CountFits DEF getFreePCB
<1> QED
  BY <1>1, <1>2, <1>3, <1>5 DEF Pooled

\* returnPCB of a created process puts its block back.
LEMMA PoolReturn ==
  ASSUME Pooled(created, freePcbs, procCtr), NEW p \in created, returnPCB(p)
  PROVE  /\ Pooled(created', freePcbs', procCtr')
         /\ created' = created \ {p}
<1>1. p \in Procs /\ p \notin Range(freePcbs)
  BY DEF Pooled
<1>2. created' = created \ {p} /\ freePcbs' = Append(freePcbs, p)
  BY DEF returnPCB
<1>3. IsList(freePcbs', Procs) /\ Range(freePcbs') = Procs \ created'
  BY <1>1, <1>2, AppendToList DEF Pooled
<1>4. created' \subseteq Procs
  BY <1>2 DEF Pooled
<1>5. Cardinality(created') = procCtr - 1 /\ Cardinality(created') \in 0..MaxTasks
  BY <1>2, <1>4, CreatedCount DEF Pooled
<1>6. procCtr' = Cardinality(created') /\ procCtr' \in UINT16
  BY <1>5, CountFits DEF returnPCB
<1> QED
  BY <1>2, <1>3, <1>4, <1>6 DEF Pooled

\* A creation that fails gives back the block it took.
LEMMA PoolPutBack ==
  ASSUME Pooled(created, freePcbs, procCtr), freePcbs # <<>>, getAndReturnPCB
  PROVE  /\ Pooled(created', freePcbs', procCtr')
         /\ NextFree \in Procs \ created
         /\ created' = created
<1>1. /\ IsList(Tail(freePcbs), Procs)
      /\ NextFree \in Procs \ created
      /\ Range(Tail(freePcbs)) = Range(freePcbs) \ {NextFree}
      /\ NextFree \in Range(freePcbs)
  BY TailOfList DEF Pooled, NextFree
<1>2. IsList(freePcbs', Procs) /\ Range(freePcbs') = Range(freePcbs)
  <2>1. /\ IsList(Append(Tail(freePcbs), NextFree), Procs)
        /\ Range(Append(Tail(freePcbs), NextFree)) = Range(Tail(freePcbs)) \cup {NextFree}
    BY <1>1, AppendToList
  <2> QED
    BY <1>1, <2>1 DEF getAndReturnPCB
<1>3. created' = created /\ procCtr' = procCtr
  BY <1>1 DEF getAndReturnPCB
<1> QED
  BY <1>1, <1>2, <1>3 DEF Pooled
-----------------------------------------------------------------------------
(* The invariant *)

\* Neither of the two deletions the kernel cannot carry out is asked for.
\* Semaphores may be misused at will.
SoundDeletions == "KillIdle" \notin Unguarded /\ "KillExpired" \notin Unguarded

\* The inductive invariant.  The lists, the states and the queues have to be
\* taken together: processDelete goes by the state to find the list, and
\* semPost and time-outs go by the queue and the pointer.
StructureInv ==
  /\ TypeOK
  /\ OnePlace
  /\ PoolAccounted
  /\ StateTells
  /\ QueuesAgree
  /\ PointersAgree

\* The types of the variables that the structure does not speak of.
RestTyped ==
  /\ sems \in [Sems -> Semaphores]
  /\ semIsFree \in [Sems -> BOOLEAN]
  /\ freeSems \in Seq(Sems)
  /\ isRunning \in BOOLEAN
  /\ tick \in Nat
  /\ isRunning <=> curr # NoPcb
  /\ tick # 0 => isRunning

FreeCleared(cr, P) == \A p \in Procs \ cr : P[p] = Cleared

\* The invariant in the words of the lemmas about arbitrary lists.
Structured ==
  /\ RestTyped
  /\ Placed(curr, ready, waiting, pcb, created)
  /\ FreeCleared(created, pcb)
  /\ Linked(waiting, pcb, sems)
  /\ Pooled(created, freePcbs, procCtr)

LEMMA SameInvariant == StructureInv <=> Structured
<1>1. ASSUME StructureInv  PROVE Structured
  <2>1. RestTyped
    BY <1>1 DEF StructureInv, TypeOK, RestTyped
  <2>2. Placed(curr, ready, waiting, pcb, created)
    BY <1>1 DEF StructureInv, TypeOK, OnePlace, StateTells, Queued, Placed, IsList
  <2>3. FreeCleared(created, pcb)
    BY <1>1 DEF StructureInv, StateTells, FreeCleared
  <2>4. Linked(waiting, pcb, sems)
    <3>1. \A s \in Sems : IsList(sems[s].queue, Procs)
      BY <1>1 DEF StructureInv, TypeOK, Semaphores, QueuesAgree, IsList
    <3> QED
      BY <1>1, <3>1 DEF StructureInv, QueuesAgree, PointersAgree, Waits, Linked, Blocked
  <2>5. Pooled(created, freePcbs, procCtr)
    BY <1>1 DEF StructureInv, TypeOK, PoolAccounted, Pooled, IsList
  <2> QED
    BY <2>1, <2>2, <2>3, <2>4, <2>5 DEF Structured
<1>2. ASSUME Structured  PROVE StructureInv
  <2>1. TypeOK
    BY <1>2 DEF Structured, RestTyped, Placed, Pooled, IsList, TypeOK
  <2>2. OnePlace
    BY <1>2 DEF Structured, Placed, OnePlace, Queued, IsList
  <2>3. PoolAccounted
    BY <1>2 DEF Structured, Pooled, PoolAccounted, IsList
  <2>4. StateTells
    BY <1>2 DEF Structured, Placed, FreeCleared, StateTells
  <2>5. QueuesAgree /\ PointersAgree
    BY <1>2 DEF Structured, Linked, Blocked, QueuesAgree, PointersAgree, Waits, IsList
  <2> QED
    BY <2>1, <2>2, <2>3, <2>4, <2>5 DEF StructureInv
<1> QED
  BY <1>1, <1>2

\* The two tests of MayDelete, when the environment is sound.
LEMMA Deletable ==
  ASSUME SoundDeletions, NEW p, MayDelete(p)
  PROVE  p # Idle /\ pcb[p].state # SWAPPED_READY
BY DEF SoundDeletions, MayDelete
-----------------------------------------------------------------------------
(* One lemma for each step of the kernel *)

LEMMA InitStructured ==
  ASSUME Init  PROVE Structured
<1>1. MaxTasks \in Nat /\ MaxTasks > 0 /\ MaxTasks < MaxUINT16
  BY TasksAssumption, UINT16Bound
<1>2. MaxSem \in Nat
  BY SemsAssumption, UINT16Bound DEF UINT16
<1>3. RestTyped
  <2>1. sems \in [Sems -> Semaphores]
    <3>1. <<>> \in Seq(Procs)
      BY EmptySeq
    <3>2. [ctr: Counts, max: Counts, queue: {<<>>}] \subseteq Semaphores
      BY <3>1, CountsAssumption DEF Semaphores
    <3> QED
      BY <3>2 DEF Init, SemInit
  <2>2. freeSems \in Seq(Sems)
    BY <1>2 DEF Init, SemInit, Sems
  <2> QED
    BY <2>1, <2>2 DEF Init, SemInit, SchedInit, RestTyped
<1>4. Placed(curr, ready, waiting, pcb, created) /\ FreeCleared(created, pcb)
  <2>1. /\ ready = <<>> /\ waiting = <<>> /\ curr = NoPcb /\ created = {Idle}
        /\ pcb = [p \in Procs |-> IF p = Idle THEN init(Cleared) ELSE Cleared]
    BY DEF Init, PoolInit, SchedInit
  <2>2. Cleared \in Pcbs /\ init(Cleared) \in Pcbs /\ init(Cleared).state = READY
    <3>1. Cleared \in Pcbs
      BY StatesUsed, UINT16Bound DEF Pcbs, Cleared, UINT16
    <3> QED
      BY <3>1, PcbOperations, PcbFields
  <2>3. IsList(<<>>, Procs) /\ Range(<<>>) = {}
    BY EmptyList
  <2>4. pcb \in [Procs -> Pcbs] /\ pcb[Idle].state = READY
    BY <2>1, <2>2, IdsDiffer
  <2>5. FreeCleared(created, pcb)
    BY <2>1 DEF FreeCleared
  <2> QED
    BY <2>1, <2>3, <2>4, <2>5, IdsDiffer DEF Placed
<1>5. Linked(waiting, pcb, sems)
  <2>1. IsList(<<>>, Procs) /\ Range(<<>>) = {}
    BY EmptyList
  <2>2. \A s \in Sems : sems[s].queue = <<>>
    BY DEF Init, SemInit
  <2>3. waiting = <<>>
    BY DEF Init, SchedInit
  <2>4. \A p \in Procs : pcb[p].sem = NoSem
    BY DEF Init, PoolInit, init, Cleared
  <2> QED
    BY <2>1, <2>2, <2>3, <2>4 DEF Linked, Blocked
<1>6. Pooled(created, freePcbs, procCtr)
  <2> DEFINE f == [i \in 1..MaxTasks - 1 |-> i + 1]
  <2>1. f \in Seq(Procs)
    BY <1>1 DEF Procs
  <2>2. \A i, j \in DOMAIN f : f[i] = f[j] => i = j
    BY <1>1
  <2>3. Range(f) = Procs \ {Idle}
    <3>1. \A p \in Procs \ {Idle} : p - 1 \in 1..MaxTasks - 1 /\ f[p - 1] = p
      BY <1>1 DEF Procs, Idle
    <3>2. \A i \in 1..MaxTasks - 1 : f[i] \in Procs \ {Idle}
      BY <1>1 DEF Procs, Idle
    <3> QED
      BY <3>1, <3>2 DEF Range
  <2>4. Cardinality({Idle}) = 1 /\ 1 \in UINT16
    BY FS_Singleton, UINT16Bound DEF UINT16
  <2>5. freePcbs = f /\ created = {Idle} /\ procCtr = 1
    BY DEF Init, PoolInit
  <2> HIDE DEF f
  <2> QED
    BY <2>1, <2>2, <2>3, <2>4, <2>5, IdsDiffer DEF Pooled, IsList, IsInjective
<1> QED
  BY <1>3, <1>4, <1>5, <1>6 DEF Structured

LEMMA StartKeeps ==
  ASSUME Structured, Start  PROVE Structured'
<1> DEFINE S == sched(NoPcb, ready, pcb)
<1>1. curr = NoPcb /\ Placed(NoPcb, ready, waiting, pcb, created)
  BY DEF Structured, RestTyped, Start
<1>2. /\ Placed(S.curr, S.ready, waiting, S.pcb, created)
      /\ S.curr \in Procs
      /\ \A p \in Range(waiting) : S.pcb[p] = pcb[p]
      /\ \A p \in Procs \ created : S.pcb[p] = pcb[p]
      /\ \A p \in Procs : S.pcb[p].sem = pcb[p].sem
  BY <1>1, PlacedSched
<1>3. /\ curr' = S.curr /\ ready' = S.ready /\ pcb' = S.pcb /\ isRunning' = TRUE
      /\ UNCHANGED <<created, freePcbs, procCtr, waiting, sems, semIsFree, freeSems, tick>>
  BY DEF Start, semVars
<1> HIDE DEF S
<1>4. RestTyped'
  BY <1>2, <1>3, IdsDiffer DEF Structured, RestTyped
<1>5. FreeCleared(created, pcb)'
  BY <1>2, <1>3 DEF Structured, FreeCleared
<1>6. Linked(waiting, pcb, sems)'
  BY <1>2, <1>3, LinkedKept DEF Structured
<1>7. Pooled(created, freePcbs, procCtr)'
  BY <1>3 DEF Structured
<1> QED
  BY <1>2, <1>3, <1>4, <1>5, <1>6, <1>7 DEF Structured

LEMMA ProcessCreateKeeps ==
  ASSUME Structured, ProcessCreate  PROVE Structured'
<1> DEFINE p == NextFree
<1>1. /\ Pooled(created', freePcbs', procCtr')
      /\ p \in Procs \ created
      /\ created' = created \cup {p}
  BY PoolTake DEF Structured, ProcessCreate
<1>2. /\ pcb' = [pcb EXCEPT ![p] = init(pcb[p])] /\ ready' = Append(ready, p)
      /\ UNCHANGED <<curr, waiting, sems, semIsFree, freeSems, isRunning, tick>>
  BY DEF ProcessCreate, semVars, coreVars
<1> HIDE DEF p
<1>3. pcb \in [Procs -> Pcbs] /\ pcb[p] = Cleared
  BY <1>1 DEF Structured, Placed, FreeCleared
<1>4. init(pcb[p]) \in Pcbs /\ init(pcb[p]).state = READY /\ init(pcb[p]).sem = pcb[p].sem
  BY <1>1, <1>3, PcbOperations, PcbFields
<1>5. Placed(curr', ready', waiting', pcb', created')
  BY <1>1, <1>2, <1>4, PlacedAddReady DEF Structured
<1>6. \A x \in Procs : pcb'[x].sem = pcb[x].sem /\ (x # p => pcb'[x] = pcb[x])
  BY <1>1, <1>2, <1>3, <1>4
<1>7. FreeCleared(created', pcb')
  BY <1>1, <1>6 DEF Structured, FreeCleared
<1>8. Linked(waiting', pcb', sems')
  <2>1. p \notin Range(waiting) /\ Range(waiting) \subseteq Procs
    BY <1>1, PlacedIn DEF Structured, Placed
  <2> QED
    <3>1. Linked(waiting, pcb, sems) /\ waiting' = waiting /\ sems' = sems
      BY <1>1, <1>2 DEF Structured
    <3>2. /\ \A x \in Procs : pcb'[x].sem = pcb[x].sem
          /\ \A x \in Range(waiting) : pcb'[x].state = pcb[x].state
      BY <1>6, <2>1
    <3> QED
      BY <3>1, <3>2, LinkedKept
<1>9. RestTyped'
  BY <1>2 DEF Structured, RestTyped
<1> QED
  BY <1>1, <1>5, <1>7, <1>8, <1>9 DEF Structured

LEMMA ProcessCreateFailsKeeps ==
  ASSUME Structured, ProcessCreateFails  PROVE Structured'
<1> DEFINE p == NextFree
<1>1. /\ Pooled(created', freePcbs', procCtr')
      /\ p \in Procs \ created
      /\ created' = created
  BY PoolPutBack DEF Structured, ProcessCreateFails
<1>2. /\ pcb' = [pcb EXCEPT ![p] = Cleared]
      /\ UNCHANGED <<curr, ready, waiting, sems, semIsFree, freeSems, isRunning, tick>>
  BY DEF ProcessCreateFails, schedVars, semVars, coreVars
<1> HIDE DEF p
<1>3. pcb \in [Procs -> Pcbs] /\ pcb[p] = Cleared
  BY <1>1 DEF Structured, Placed, FreeCleared
<1>4. pcb' = pcb
  BY <1>2, <1>3
<1>5. RestTyped'
  BY <1>2 DEF Structured, RestTyped
<1> QED
  BY <1>1, <1>2, <1>4, <1>5 DEF Structured

LEMMA DeleteCurrentKeeps ==
  ASSUME SoundDeletions, Structured, DeleteCurrent  PROVE Structured'
<1> DEFINE S == sched(NoPcb, ready, pcb)
           c == curr
<1>1. /\ curr' = S.curr /\ ready' = S.ready
      /\ pcb' = [S.pcb EXCEPT ![c] = Cleared]
      /\ returnPCB(c)
      /\ UNCHANGED <<waiting, sems, semIsFree, freeSems, isRunning, tick>>
      /\ isRunning
  BY DEF DeleteCurrent, semVars, coreVars
<1>2. c \in Procs /\ c # Idle
  BY <1>1, Deletable DEF DeleteCurrent, Structured, RestTyped, Placed
<1>3. c \in created
  BY <1>2, IdsDiffer DEF Structured, Placed
<1>4. Pooled(created', freePcbs', procCtr') /\ created' = created \ {c}
  BY <1>1, <1>3, PoolReturn DEF Structured
<1>5. Placed(NoPcb, ready, waiting, pcb, created')
  <2>1. NoPcb \notin Range(ready) \cup Range(waiting)
    BY PlacedIn DEF Structured
  <2>2. \A x \in Procs :
          /\ x = NoPcb => pcb[x].state = RUNNING
          /\ x = Idle /\ x # NoPcb => pcb[x].state = READY
          /\ x \in Range(ready) => pcb[x].state \in {READY, SWAPPED_READY}
          /\ x \in Range(waiting) => pcb[x].state \in {WAITING, SUSPEND}
    BY <1>2, IdsDiffer DEF Structured, Placed
  <2>3. created' \cup {NoPcb} = Range(ready) \cup Range(waiting) \cup {NoPcb, Idle, NoPcb}
    BY <1>2, <1>4, IdsDiffer DEF Structured, Placed
  <2> QED
    BY <1>4, <2>1, <2>2, <2>3 DEF Structured, Placed
<1>6. /\ Placed(S.curr, S.ready, waiting, S.pcb, created')
      /\ S.curr \in Procs
      /\ \A p \in Range(waiting) : S.pcb[p] = pcb[p]
      /\ \A p \in Procs \ created' : S.pcb[p] = pcb[p]
      /\ \A p \in Procs : S.pcb[p].sem = pcb[p].sem
  BY <1>5, PlacedSched
<1> HIDE DEF S, c
<1>7. c \in Procs \ created' /\ c \notin Range(waiting) /\ S.pcb \in [Procs -> Pcbs]
  BY <1>2, <1>4, <1>6 DEF Structured, Placed, c
<1>8. Cleared \in Pcbs /\ Cleared.sem = NoSem
  BY <1>7, PcbOperations DEF Cleared
<1>9. Placed(curr', ready', waiting', pcb', created')
  BY <1>1, <1>6, <1>7, <1>8, PlacedClear
<1>10. FreeCleared(created', pcb')
  BY <1>1, <1>4, <1>6, <1>7 DEF Structured, FreeCleared
<1>11. Linked(waiting', pcb', sems')
  <2>1. pcb[c].sem = NoSem
    BY <1>7 DEF Structured, Linked, Blocked
  <2>2. pcb'[c].sem = NoSem /\ \A x \in Procs : x # c => pcb'[x] = S.pcb[x]
    BY <1>1, <1>7, <1>8
  <2>3. \A x \in Procs : pcb'[x].sem = pcb[x].sem
    BY <1>6, <2>1, <2>2
  <2>4. \A x \in Range(waiting) : pcb'[x].state = pcb[x].state
    <3>1. Range(waiting) \subseteq Procs \ {c}
      BY <1>7, PlacedIn DEF Structured, Placed
    <3> QED
      BY <1>6, <2>2, <3>1
  <2>5. Linked(waiting, pcb', sems)
    BY <2>3, <2>4, LinkedKept DEF Structured
  <2> QED
    BY <1>1, <2>5
<1>12. RestTyped'
  BY <1>1, <1>6, IdsDiffer DEF Structured, RestTyped
<1> QED
  BY <1>4, <1>9, <1>10, <1>11, <1>12 DEF Structured

LEMMA DeleteReadyKeeps ==
  ASSUME SoundDeletions, Structured, NEW p \in Procs, DeleteReady(p)  PROVE Structured'
<1>1. /\ ready' = removeFromList(ready, p)
      /\ pcb' = [pcb EXCEPT ![p] = Cleared]
      /\ returnPCB(p)
      /\ UNCHANGED <<curr, waiting, sems, semIsFree, freeSems, isRunning, tick>>
      /\ p # curr /\ p \in created /\ pcb[p].state = READY
  BY DEF DeleteReady, semVars, coreVars
<1>2. p # Idle
  BY Deletable DEF DeleteReady
<1>3. Pooled(created', freePcbs', procCtr') /\ created' = created \ {p}
  BY <1>1, PoolReturn DEF Structured
<1>4. p \notin Range(waiting)
  BY <1>1, StatesDiffer DEF Structured, Placed
<1>5. IsList(ready', Procs) /\ Range(ready') = Range(ready) \ {p}
  BY <1>1, RemoveFirstOfList DEF Structured, Placed, removeFromList
<1>6. Placed(curr, ready', waiting, pcb, created')
  <2>1. IsList(waiting, Procs) /\ Range(waiting) = Range(waiting) \ {p}
    BY <1>4 DEF Structured, Placed
  <2> QED
    BY <1>1, <1>2, <1>3, <1>5, <2>1, PlacedRemove DEF Structured
<1>7. pcb \in [Procs -> Pcbs] /\ Cleared \in Pcbs /\ Cleared.sem = NoSem
  BY PcbOperations DEF Structured, Placed, Cleared
<1>8. Placed(curr', ready', waiting', pcb', created')
  BY <1>1, <1>3, <1>6, <1>7, PlacedClear
<1>9. pcb'[p] = Cleared /\ \A x \in Procs : x # p => pcb'[x] = pcb[x]
  BY <1>1, <1>7
<1>10. FreeCleared(created', pcb')
  BY <1>3, <1>9 DEF Structured, FreeCleared
<1>11. Linked(waiting', pcb', sems')
  <2>1. pcb[p].sem = NoSem
    BY <1>4 DEF Structured, Linked, Blocked
  <2>2. Range(waiting) \subseteq Procs \ {p}
    BY <1>4, PlacedIn DEF Structured
  <2>3. /\ \A x \in Procs : pcb'[x].sem = pcb[x].sem
        /\ \A x \in Range(waiting) : pcb'[x].state = pcb[x].state
    BY <1>7, <1>9, <2>1, <2>2
  <2>4. Linked(waiting, pcb', sems)
    BY <2>3, LinkedKept DEF Structured
  <2> QED
    BY <1>1, <2>4
<1>12. RestTyped'
  BY <1>1 DEF Structured, RestTyped
<1> QED
  BY <1>3, <1>8, <1>10, <1>11, <1>12 DEF Structured

LEMMA DeleteWaitingKeeps ==
  ASSUME SoundDeletions, Structured, NEW p \in Procs, DeleteWaiting(p)  PROVE Structured'
<1>1. /\ waiting' = removeFromList(waiting, p)
      /\ pcb' = [pcb EXCEPT ![p] = Cleared]
      /\ returnPCB(p)
      /\ UNCHANGED <<curr, ready, semIsFree, freeSems, isRunning, tick>>
      /\ p # curr /\ p \in created /\ pcb[p].state # READY
  BY DEF DeleteWaiting, coreVars
<1>2. sems' = removeFromSem(p)
  BY AlwaysWaitingEvent DEF DeleteWaiting
<1>3. p # Idle /\ pcb[p].state # SWAPPED_READY
  BY Deletable DEF DeleteWaiting
<1>4. Pooled(created', freePcbs', procCtr') /\ created' = created \ {p}
  BY <1>1, PoolReturn DEF Structured
<1>5. p \notin Range(ready)
  BY <1>1, <1>3 DEF Structured, Placed
<1>6. IsList(waiting', Procs) /\ Range(waiting') = Range(waiting) \ {p}
  BY <1>1, RemoveFirstOfList DEF Structured, Placed, removeFromList
<1>7. Placed(curr, ready, waiting', pcb, created')
  <2>1. IsList(ready, Procs) /\ Range(ready) = Range(ready) \ {p}
    BY <1>5 DEF Structured, Placed
  <2> QED
    BY <1>1, <1>3, <1>4, <1>6, <2>1, PlacedRemove DEF Structured
<1>8. pcb \in [Procs -> Pcbs] /\ Cleared \in Pcbs /\ Cleared.sem = NoSem
  BY PcbOperations DEF Structured, Placed, Cleared
<1>9. Placed(curr', ready', waiting', pcb', created')
  BY <1>1, <1>4, <1>7, <1>8, PlacedClear
<1>10. pcb'[p] = Cleared /\ \A x \in Procs : x # p => pcb'[x] = pcb[x]
  BY <1>1, <1>8
<1>11. FreeCleared(created', pcb')
  BY <1>4, <1>10 DEF Structured, FreeCleared
<1>12. sems' \in [Sems -> Semaphores] /\ QueuesWithout(p, sems, sems')
  BY <1>2, <1>8, RemovedFromSem DEF Structured, RestTyped
<1>13. Linked(waiting', pcb', sems')
  <2>1. Linked(waiting, pcb, sems) /\ pcb'[p].sem = NoSem
    BY <1>8, <1>10 DEF Structured
  <2> QED
    BY <1>6, <1>10, <1>12, <2>1, LinkedLeave
<1>14. RestTyped'
  BY <1>1, <1>12 DEF Structured, RestTyped
<1> QED
  BY <1>4, <1>9, <1>11, <1>13, <1>14 DEF Structured

\* The current process is one that can be made to wait.
LEMMA ExecutingProcess ==
  ASSUME Structured, Executing
  PROVE  /\ curr \in Procs /\ curr # Idle /\ curr \in created
         /\ curr \notin Range(waiting)
         /\ pcb[curr] \in Pcbs
<1>1. curr \in Procs /\ curr # Idle
  BY DEF Structured, RestTyped, Placed, Executing
<1> QED
  BY <1>1, IdsDiffer, PlacedIn DEF Structured, Placed

\* Block keeps every process in its place, when it is given a waiting state.
LEMMA BlockKeeps ==
  ASSUME Structured, Executing, NEW b \in Pcbs, b.state \in {WAITING, SUSPEND},
         Block([pcb EXCEPT ![curr] = b])
  PROVE  /\ Placed(curr', ready', waiting', pcb', created)
         /\ curr' \in Procs
         /\ Range(waiting') = Range(waiting) \cup {curr}
         /\ pcb'[curr].state = b.state
         /\ FreeCleared(created, pcb')
         /\ \A p \in Range(waiting') : pcb'[p].state = [pcb EXCEPT ![curr] = b][p].state
         /\ \A p \in Procs : pcb'[p].sem = [pcb EXCEPT ![curr] = b][p].sem
<1> DEFINE B == [pcb EXCEPT ![curr] = b]
           S == sched(NoPcb, ready, B)
<1>1. curr' = S.curr /\ ready' = S.ready /\ pcb' = S.pcb /\ waiting' = Append(waiting, curr)
  BY DEF Block
<1>2. curr \in Procs /\ curr # Idle /\ curr \in created
  BY ExecutingProcess
<1>3. /\ Placed(NoPcb, ready, Append(waiting, curr), B, created)
      /\ Range(Append(waiting, curr)) = Range(waiting) \cup {curr}
  BY <1>2, PlacedBlock DEF Structured
<1>4. pcb \in [Procs -> Pcbs] /\ B \in [Procs -> Pcbs] /\ B[curr] = b
  BY <1>2 DEF Structured, Placed
<1>5. \A x \in Procs : x # curr => B[x] = pcb[x]
  BY <1>4
<1> HIDE DEF B
<1>6. /\ Placed(S.curr, S.ready, Append(waiting, curr), S.pcb, created)
      /\ S.curr \in Procs
      /\ \A p \in Range(Append(waiting, curr)) : S.pcb[p] = B[p]
      /\ \A p \in Procs \ created : S.pcb[p] = B[p]
      /\ \A p \in Procs : S.pcb[p].sem = B[p].sem
  BY <1>3, PlacedSched
<1> HIDE DEF S
<1>7. FreeCleared(created, pcb')
  BY <1>1, <1>2, <1>5, <1>6 DEF Structured, FreeCleared
<1> QED
  BY <1>1, <1>3, <1>4, <1>6, <1>7 DEF B

LEMMA ProcessDelayKeeps ==
  ASSUME Structured, NEW d \in Delays, ProcessDelay(d)  PROVE Structured'
<1> DEFINE b == [pcb[curr] EXCEPT !.delay = d, !.state = SUSPEND]
<1>1. /\ Executing
      /\ Block([pcb EXCEPT ![curr].delay = d, ![curr].state = SUSPEND])
      /\ UNCHANGED <<created, freePcbs, procCtr, sems, semIsFree, freeSems, isRunning, tick>>
  BY DEF ProcessDelay, semVars, coreVars
<1>2. curr \in Procs /\ curr \notin Range(waiting) /\ pcb[curr] \in Pcbs
  BY <1>1, ExecutingProcess
<1>3. pcb \in [Procs -> Pcbs]
  BY DEF Structured, Placed
<1>4. b \in Pcbs /\ b.state = SUSPEND /\ b.sem = pcb[curr].sem
  BY <1>2, StatesUsed, DelaysAssumption DEF Pcbs
<1>5. [pcb EXCEPT ![curr].delay = d, ![curr].state = SUSPEND] = [pcb EXCEPT ![curr] = b]
  BY <1>2, <1>3
<1> HIDE DEF b
<1> DEFINE B == [pcb EXCEPT ![curr] = b]
<1>6. B[curr] = b /\ \A x \in Procs : x # curr => B[x] = pcb[x]
  BY <1>2, <1>3
<1>7. /\ Placed(curr', ready', waiting', pcb', created)
      /\ curr' \in Procs
      /\ Range(waiting') = Range(waiting) \cup {curr}
      /\ FreeCleared(created, pcb')
      /\ \A p \in Range(waiting') : pcb'[p].state = B[p].state
      /\ \A p \in Procs : pcb'[p].sem = B[p].sem
  BY <1>1, <1>4, <1>5, BlockKeeps
<1> HIDE DEF B
<1>8. Linked(waiting', pcb', sems)
  <2>1. Linked(waiting', B, sems)
    BY <1>2, <1>4, <1>6, <1>7, LinkedPause DEF Structured
  <2> QED
    BY <1>7, <2>1, LinkedKept
<1>9. RestTyped'
  BY <1>1, <1>7, IdsDiffer DEF Structured, RestTyped, Executing
<1> QED
  BY <1>1, <1>7, <1>8, <1>9 DEF Structured

LEMMA SemWaitKeeps ==
  ASSUME Structured, NEW s \in Sems, NEW d \in Delays, SemWait(s, d)  PROVE Structured'
<1> DEFINE b == await(pcb[curr], s, d)
           B == [pcb EXCEPT ![curr] = b]
<1>1. /\ Executing
      /\ sems' = [sems EXCEPT ![s] = enqueue(sems[s], curr)]
      /\ Block(B)
      /\ UNCHANGED <<created, freePcbs, procCtr, semIsFree, freeSems, isRunning, tick>>
  BY DEF SemWait, coreVars
<1>2. curr \in Procs /\ curr \notin Range(waiting) /\ pcb[curr] \in Pcbs
  BY <1>1, ExecutingProcess
<1>3. pcb \in [Procs -> Pcbs]
  BY DEF Structured, Placed
<1>4. b \in Pcbs /\ b.state = WAITING /\ b.sem = s
  BY <1>2, PcbOperations, PcbFields, DelaysAssumption
<1> HIDE DEF b
<1>5. B[curr] = b /\ \A x \in Procs : x # curr => B[x] = pcb[x]
  BY <1>2, <1>3
<1>6. /\ Placed(curr', ready', waiting', pcb', created)
      /\ curr' \in Procs
      /\ Range(waiting') = Range(waiting) \cup {curr}
      /\ FreeCleared(created, pcb')
      /\ \A p \in Range(waiting') : pcb'[p].state = B[p].state
      /\ \A p \in Procs : pcb'[p].sem = B[p].sem
  BY <1>1, <1>4, BlockKeeps
<1> HIDE DEF B
<1>7. sems[s] \in Semaphores /\ sems \in [Sems -> Semaphores]
  BY DEF Structured, RestTyped
<1>8. enqueue(sems[s], curr) \in Semaphores
  <2>1. Append(sems[s].queue, curr) \in Seq(Procs)
    BY <1>2, <1>7, AppendProperties DEF Semaphores
  <2> HIDE DEF B
  <2> QED
    BY <1>7, <2>1 DEF Semaphores, enqueue
<1>9. /\ sems' \in [Sems -> Semaphores]
      /\ sems'[s].queue = Append(sems[s].queue, curr)
      /\ \A t \in Sems : t # s => sems'[t] = sems[t]
  BY <1>1, <1>7, <1>8 DEF Semaphores, enqueue
<1>10. Linked(waiting', pcb', sems')
  <2>1. Linked(waiting', B, sems')
    <3>1. Linked(waiting, pcb, sems)
      BY DEF Structured
    <3> QED
      BY <1>2, <1>4, <1>5, <1>6, <1>9, <3>1, LinkedWait
  <2> QED
    BY <1>6, <2>1, LinkedKept
<1>11. RestTyped'
  BY <1>1, <1>6, <1>9, IdsDiffer DEF Structured, RestTyped, Executing
<1> QED
  BY <1>1, <1>6, <1>10, <1>11 DEF Structured

\* The calls that change no process: the queues stay as they are.
LEMMA SemOnlyKeeps ==
  ASSUME Structured,
         UNCHANGED <<pcb, created, freePcbs, procCtr, curr, ready, waiting, isRunning, tick>>,
         sems' \in [Sems -> Semaphores],
         \A s \in Sems : sems'[s].queue = sems[s].queue,
         semIsFree' \in [Sems -> BOOLEAN],
         freeSems' \in Seq(Sems)
  PROVE  Structured'
<1>1. Linked(waiting, pcb, sems')
  BY LinkedKept DEF Structured
<1>2. RestTyped'
  BY DEF Structured, RestTyped
<1> QED
  BY <1>1, <1>2 DEF Structured

LEMMA SemChange ==
  ASSUME Structured, NEW s \in Sems, NEW v \in Semaphores, v.queue = sems[s].queue
  PROVE  /\ [sems EXCEPT ![s] = v] \in [Sems -> Semaphores]
         /\ \A t \in Sems : [sems EXCEPT ![s] = v][t].queue = sems[t].queue
BY DEF Structured, RestTyped

LEMMA SemCreateKeeps ==
  ASSUME Structured, NEW c \in Counts, NEW m \in Counts, SemCreate(c, m)
  PROVE  Structured'
<1> DEFINE s == Head(freeSems)
<1>1. /\ UNCHANGED <<pcb, created, freePcbs, procCtr, curr, ready, waiting, isRunning, tick>>
      /\ freeSems # <<>>
      /\ sems' = [sems EXCEPT ![s] = initSem(sems[s], c, m)]
      /\ semIsFree' = [semIsFree EXCEPT ![s] = FALSE] /\ freeSems' = Tail(freeSems)
  BY DEF SemCreate, pcbVars, schedVars, coreVars, getFreeSem
<1>2. /\ freeSems \in Seq(Sems) /\ semIsFree \in [Sems -> BOOLEAN]
      /\ sems \in [Sems -> Semaphores]
  BY DEF Structured, RestTyped
<1>3. s \in Sems /\ Tail(freeSems) \in Seq(Sems)
  BY <1>1, <1>2
<1> HIDE DEF s
<1>4. initSem(sems[s], c, m) \in Semaphores /\ initSem(sems[s], c, m).queue = sems[s].queue
  BY <1>2, <1>3, CountsAssumption DEF initSem, Semaphores
<1>5. /\ sems' \in [Sems -> Semaphores]
      /\ \A t \in Sems : sems'[t].queue = sems[t].queue
  BY <1>1, <1>3, <1>4, SemChange
<1> QED
  BY <1>1, <1>2, <1>3, <1>5, SemOnlyKeeps

LEMMA SemDeleteKeeps ==
  ASSUME Structured, NEW s \in Sems, SemDelete(s)  PROVE Structured'
<1>1. /\ UNCHANGED <<pcb, created, freePcbs, procCtr, curr, ready, waiting, sems, isRunning, tick>>
      /\ returnSem(s)
  BY DEF SemDelete, pcbVars, schedVars, coreVars
<1>2. semIsFree' \in [Sems -> BOOLEAN] /\ freeSems' \in Seq(Sems)
  <2>1. semIsFree \in [Sems -> BOOLEAN] /\ freeSems \in Seq(Sems)
    BY DEF Structured, RestTyped
  <2>2. CASE semIsFree[s]
    BY <1>1, <2>1, <2>2 DEF returnSem
  <2>3. CASE ~semIsFree[s]
    <3>1. semIsFree' = [semIsFree EXCEPT ![s] = TRUE] /\ freeSems' = Append(freeSems, s)
      BY <1>1, <2>3 DEF returnSem
    <3> QED
      BY <2>1, <3>1
  <2> QED
    BY <2>2, <2>3
<1>3. sems' \in [Sems -> Semaphores] /\ \A t \in Sems : sems'[t].queue = sems[t].queue
  BY <1>1 DEF Structured, RestTyped
<1> QED
  BY <1>1, <1>2, <1>3, SemOnlyKeeps

\* The values of the counter after a unit is taken or given.
LEMMA CounterChange ==
  ASSUME NEW S \in Semaphores
  PROVE  /\ S.ctr > 0 => takeUnit(S) \in Semaphores
         /\ S.ctr > 0 => setCtr(S, S.ctr - 1) \in Semaphores
         /\ addUnit(S) \in Semaphores
         /\ takeUnit(S).queue = S.queue
         /\ setCtr(S, S.ctr - 1).queue = S.queue
         /\ addUnit(S).queue = S.queue
<1>1. /\ S.ctr \in 0..MaxUINT16 /\ S.max \in 0..MaxUINT16 /\ MaxUINT16 \in Nat
  BY UINT16Bound DEF Semaphores, UINT16
<1>2. /\ S.ctr > 0 => S.ctr - 1 \in UINT16
      /\ S.ctr < S.max => S.ctr + 1 \in UINT16
  BY <1>1 DEF UINT16
<1>3. \A n \in UINT16 : [S EXCEPT !.ctr = n] \in Semaphores /\ [S EXCEPT !.ctr = n].queue = S.queue
  BY DEF Semaphores
<1>4. (S.ctr > 0 => takeUnit(S) \in Semaphores) /\ takeUnit(S).queue = S.queue
  BY <1>2, <1>3 DEF takeUnit, Semaphores
<1>5. /\ S.ctr > 0 => setCtr(S, S.ctr - 1) \in Semaphores
      /\ setCtr(S, S.ctr - 1).queue = S.queue
  BY <1>2, <1>3 DEF setCtr, Semaphores
<1>6. addUnit(S) \in Semaphores /\ addUnit(S).queue = S.queue
  BY <1>2, <1>3 DEF addUnit, Semaphores
<1> QED
  BY <1>4, <1>5, <1>6

LEMMA SemAcceptKeeps ==
  ASSUME Structured, NEW s \in Sems, SemAccept(s)  PROVE Structured'
<1>1. /\ UNCHANGED <<pcb, created, freePcbs, procCtr, curr, ready, waiting, isRunning, tick>>
      /\ UNCHANGED <<semIsFree, freeSems>>
      /\ sems[s].ctr > 0
      /\ sems' = [sems EXCEPT ![s] = setCtr(sems[s], sems[s].ctr - 1)]
  BY DEF SemAccept, pcbVars, schedVars, coreVars
<1>2. sems[s] \in Semaphores /\ semIsFree' \in [Sems -> BOOLEAN] /\ freeSems' \in Seq(Sems)
  BY <1>1 DEF Structured, RestTyped
<1>3. /\ sems' \in [Sems -> Semaphores]
      /\ \A t \in Sems : sems'[t].queue = sems[t].queue
  BY <1>1, <1>2, CounterChange, SemChange
<1> QED
  BY <1>1, <1>2, <1>3, SemOnlyKeeps

LEMMA SemTakeKeeps ==
  ASSUME Structured, NEW s \in Sems, SemTake(s)  PROVE Structured'
<1>1. /\ UNCHANGED <<pcb, created, freePcbs, procCtr, curr, ready, waiting, isRunning, tick>>
      /\ UNCHANGED <<semIsFree, freeSems>>
      /\ sems[s].ctr > 0
      /\ sems' = [sems EXCEPT ![s] = takeUnit(sems[s])]
  BY DEF SemTake, pcbVars, schedVars, coreVars
<1>2. sems[s] \in Semaphores /\ semIsFree' \in [Sems -> BOOLEAN] /\ freeSems' \in Seq(Sems)
  BY <1>1 DEF Structured, RestTyped
<1>3. /\ sems' \in [Sems -> Semaphores]
      /\ \A t \in Sems : sems'[t].queue = sems[t].queue
  BY <1>1, <1>2, CounterChange, SemChange
<1> QED
  BY <1>1, <1>2, <1>3, SemOnlyKeeps

LEMMA SemReleaseKeeps ==
  ASSUME Structured, NEW s \in Sems, SemRelease(s)  PROVE Structured'
<1>1. /\ UNCHANGED <<pcb, created, freePcbs, procCtr, curr, ready, waiting, isRunning, tick>>
      /\ UNCHANGED <<semIsFree, freeSems>>
      /\ sems' = [sems EXCEPT ![s] = addUnit(sems[s])]
  BY DEF SemRelease, pcbVars, schedVars, coreVars
<1>2. sems[s] \in Semaphores /\ semIsFree' \in [Sems -> BOOLEAN] /\ freeSems' \in Seq(Sems)
  BY <1>1 DEF Structured, RestTyped
<1>3. /\ sems' \in [Sems -> Semaphores]
      /\ \A t \in Sems : sems'[t].queue = sems[t].queue
  BY <1>1, <1>2, CounterChange, SemChange
<1> QED
  BY <1>1, <1>2, <1>3, SemOnlyKeeps

\* A blocked process made ready: it moves from one list to the other, and out of
\* the queue it was in.
LEMMA UnblockKeeps ==
  ASSUME Structured,
         NEW p \in Range(waiting),
         NEW b \in Pcbs, b.state \in {READY, SWAPPED_READY}, b.sem = NoSem,
         pcb' = [pcb EXCEPT ![p] = b],
         ready' = Append(ready, p),
         IsList(waiting', Procs), Range(waiting') = Range(waiting) \ {p},
         sems' \in [Sems -> Semaphores], QueuesWithout(p, sems, sems'),
         UNCHANGED <<created, freePcbs, procCtr, curr, semIsFree, freeSems, isRunning, tick>>
  PROVE  Structured'
<1>1. /\ p \in Procs /\ p \in created /\ p # curr /\ p # Idle /\ p \notin Range(ready)
  <2>1. Placed(curr, ready, waiting, pcb, created)
    BY DEF Structured
  <2>2. Range(waiting) \subseteq created /\ Range(waiting) \subseteq Procs
    BY <2>1, PlacedIn
  <2> QED
    BY <2>1, <2>2 DEF Placed
<1>2. Placed(curr, ready, waiting', pcb, created \ {p})
  <2>1. IsList(ready, Procs) /\ Range(ready) = Range(ready) \ {p}
    BY <1>1 DEF Structured, Placed
  <2> QED
    BY <1>1, <2>1, PlacedRemove DEF Structured
<1>3. Placed(curr', ready', waiting', pcb', created')
  <2>1. (created \ {p}) \cup {p} = created /\ p \in Procs \ (created \ {p})
    BY <1>1
  <2>2. Placed(curr, Append(ready, p), waiting', [pcb EXCEPT ![p] = b], (created \ {p}) \cup {p})
    BY <1>2, <2>1, PlacedAddReady
  <2> QED
    BY <2>1, <2>2
<1>4. pcb'[p] = b /\ \A x \in Procs : x # p => pcb'[x] = pcb[x]
  BY <1>1 DEF Structured, Placed
<1>5. FreeCleared(created', pcb')
  BY <1>1, <1>4 DEF Structured, FreeCleared
<1>6. Linked(waiting', pcb', sems')
  <2>1. Linked(waiting, pcb, sems) /\ pcb'[p].sem = NoSem
    BY <1>4 DEF Structured
  <2> DEFINE w == waiting'
             P == pcb'
             Q == sems'
  <2>2. /\ Range(w) = Range(waiting) \ {p} /\ QueuesWithout(p, sems, Q)
        /\ P[p].sem = NoSem /\ \A x \in Procs : x # p => P[x] = pcb[x]
    BY <1>4, <2>1
  <2> HIDE DEF w, P, Q
  <2>3. Linked(w, P, Q)
    BY <1>1, <2>1, <2>2, LinkedLeave
  <2> QED
    BY <2>3 DEF w, P, Q
<1>7. RestTyped'
  BY DEF Structured, RestTyped
<1> QED
  BY <1>3, <1>5, <1>6, <1>7 DEF Structured

LEMMA SemWakeKeeps ==
  ASSUME Structured, NEW s \in Sems, SemWake(s)  PROVE Structured'
<1> DEFINE q == sems[s].queue
           p == Head(q)
<1>1. /\ hasPend(sems[s])
      /\ pcb' = [pcb EXCEPT ![p] = awaken(pcb[p])]
      /\ waiting' = removeFromList(waiting, p)
      /\ ready' = Append(ready, p)
      /\ sems' = [sems EXCEPT ![s] = dequeue(sems[s])]
      /\ UNCHANGED <<created, freePcbs, procCtr, curr, semIsFree, freeSems, isRunning, tick>>
  BY DEF SemWake, coreVars
<1>2. sems \in [Sems -> Semaphores] /\ sems[s] \in Semaphores
  BY DEF Structured, RestTyped
<1>3. IsList(q, Procs) /\ q # <<>>
  BY <1>1, EmptySeq DEF Structured, Linked, hasPend
<1>4. /\ IsList(Tail(q), Procs)
      /\ p \in Range(q) /\ p \in Procs
      /\ Range(Tail(q)) = Range(q) \ {p}
  BY <1>3, TailOfList
<1>5. p \in Range(waiting) /\ pcb[p].sem = s
  BY <1>4 DEF Structured, Linked, Blocked
<1>6. /\ dequeue(sems[s]) \in Semaphores
      /\ dequeue(sems[s]).queue = Tail(q)
  BY <1>2, <1>4 DEF dequeue, Semaphores, IsList
<1> HIDE DEF p
<1>7. sems' \in [Sems -> Semaphores] /\ QueuesWithout(p, sems, sems')
  <2>1. sems' \in [Sems -> Semaphores]
    BY <1>1, <1>2, <1>6
  <2>2. sems'[s].queue = Tail(q) /\ \A t \in Sems : t # s => sems'[t] = sems[t]
    BY <1>1, <1>2, <1>6
  <2>3. \A t \in Sems : t # s => p \notin Range(sems[t].queue)
    BY <1>4, <1>5 DEF Structured, Linked, Blocked
  <2>4. \A t \in Sems : IsList(sems[t].queue, Procs)
    BY DEF Structured, Linked
  <2> QED
    BY <1>4, <2>1, <2>2, <2>3, <2>4 DEF QueuesWithout
<1>8. IsList(waiting', Procs) /\ Range(waiting') = Range(waiting) \ {p}
  BY <1>1, RemoveFirstOfList DEF Structured, Placed, removeFromList
<1>9. pcb[p] \in Pcbs
  BY <1>4 DEF Structured, Placed
<1>10. /\ awaken(pcb[p]) \in Pcbs /\ awaken(pcb[p]).sem = NoSem
       /\ awaken(pcb[p]).state \in {READY, SWAPPED_READY}
  BY <1>9, PcbOperations, PcbFields
<1> QED
  BY <1>1, <1>5, <1>7, <1>8, <1>10, UnblockKeeps

LEMMA TimeTickKeeps ==
  ASSUME Structured, TimeTick  PROVE Structured'
BY DEF TimeTick, pcbVars, schedVars, semVars, Structured, RestTyped

\* Counting down a process's delay or time slice moves nothing.
LEMMA CountDownKeeps ==
  ASSUME Structured, NEW p \in created,
         NEW B, B = [pcb EXCEPT ![p] = decDelay(pcb[p])]
  PROVE  /\ Placed(curr, ready, waiting, B, created)
         /\ FreeCleared(created, B)
         /\ Linked(waiting, B, sems)
<1>1. pcb \in [Procs -> Pcbs] /\ p \in Procs /\ created \subseteq Procs
  BY DEF Structured, Placed
<1>2. /\ decDelay(pcb[p]) \in Pcbs
      /\ decDelay(pcb[p]).state = pcb[p].state /\ decDelay(pcb[p]).sem = pcb[p].sem
  BY <1>1, PcbOperations, PcbFields
<1>3. /\ B \in [Procs -> Pcbs]
      /\ \A x \in Procs : B[x].state = pcb[x].state /\ B[x].sem = pcb[x].sem
      /\ \A x \in Procs : x # p => B[x] = pcb[x]
  BY <1>1, <1>2
<1>4. Placed(curr, ready, waiting, B, created)
  BY <1>3, PlacedKept DEF Structured
<1>5. FreeCleared(created, B)
  BY <1>1, <1>3 DEF Structured, FreeCleared
<1>6. Linked(waiting, B, sems)
  <2>1. Range(waiting) \subseteq Procs
    BY PlacedIn DEF Structured
  <2> QED
    BY <1>3, <2>1, LinkedKept DEF Structured
<1> QED
  BY <1>4, <1>5, <1>6

\* The entry that the walk of the clock interrupt has reached.
LEMMA TickEntry ==
  ASSUME Structured, tick \in DOMAIN waiting
  PROVE  /\ tick \in 1..Len(waiting)
         /\ waiting[tick] \in Range(waiting)
         /\ waiting[tick] \in created
         /\ pcb[waiting[tick]] \in Pcbs
<1>1. waiting \in Seq(Procs)
  BY DEF Structured, Placed, IsList
<1>2. tick \in 1..Len(waiting) /\ waiting[tick] \in Range(waiting) /\ waiting[tick] \in Procs
  BY <1>1, ElementsOfSeq
<1> QED
  BY <1>2, PlacedIn DEF Structured, Placed

LEMMA SkipOrCountKeeps ==
  ASSUME Structured, SkipOrCount  PROVE Structured'
<1> DEFINE p == waiting[tick]
<1>1. /\ tick \in DOMAIN waiting
      /\ pcb' = [pcb EXCEPT ![p] = decDelay(pcb[p])]
      /\ tick' = tick + 1
      /\ UNCHANGED <<created, freePcbs, procCtr, curr, ready, waiting, sems, semIsFree, freeSems,
                     isRunning>>
  BY DEF SkipOrCount, schedVars, semVars
<1>2. p \in created /\ tick \in 1..Len(waiting)
  BY <1>1, TickEntry
<1>3. /\ Placed(curr, ready, waiting, pcb', created)
      /\ FreeCleared(created, pcb')
      /\ Linked(waiting, pcb', sems)
  BY <1>1, <1>2, CountDownKeeps
<1>4. tick \in Nat /\ tick # 0 /\ tick + 1 \in Nat
  BY <1>2 DEF Structured, RestTyped
<1>5. RestTyped'
  BY <1>1, <1>4 DEF Structured, RestTyped
<1> QED
  BY <1>1, <1>3, <1>5 DEF Structured

LEMMA ExpireKeeps ==
  ASSUME Structured, Expire  PROVE Structured'
<1> DEFINE p == waiting[tick]
<1>1. /\ tick \in DOMAIN waiting
      /\ pcb' = [pcb EXCEPT ![p] = expire(pcb[p])]
      /\ ready' = Append(ready, p)
      /\ waiting' = RemoveAt(waiting, tick)
      /\ UNCHANGED <<created, freePcbs, procCtr, curr, semIsFree, freeSems, isRunning, tick>>
  BY DEF Expire, coreVars
<1>2. sems' = removeFromSem(p)
  BY AlwaysWaitingEvent DEF Expire
<1>3. p \in Range(waiting) /\ p \in Procs /\ tick \in 1..Len(waiting) /\ pcb[p] \in Pcbs
  BY <1>1, TickEntry DEF Structured, Placed
<1>4. IsList(waiting', Procs) /\ Range(waiting') = Range(waiting) \ {p}
  BY <1>1, <1>3, RemoveAtOfList DEF Structured, Placed
<1> HIDE DEF p
<1>5. sems' \in [Sems -> Semaphores] /\ QueuesWithout(p, sems, sems')
  BY <1>2, <1>3, RemovedFromSem DEF Structured, RestTyped, Placed
<1>6. /\ expire(pcb[p]) \in Pcbs /\ expire(pcb[p]).sem = NoSem
      /\ expire(pcb[p]).state \in {READY, SWAPPED_READY}
  BY <1>3, PcbOperations, PcbFields
<1> QED
  BY <1>1, <1>3, <1>4, <1>5, <1>6, UnblockKeeps

LEMMA EndTickKeeps ==
  ASSUME Structured, EndTick  PROVE Structured'
<1> DEFINE P == [pcb EXCEPT ![curr] = decDelay(pcb[curr])]
           S == IF P[curr].delay = 0
                THEN sched(curr, ready, P)
                ELSE [curr |-> curr, ready |-> ready, pcb |-> P]
<1>1. /\ tick = Len(waiting) + 1
      /\ curr' = S.curr /\ ready' = S.ready /\ pcb' = S.pcb /\ tick' = 0
      /\ UNCHANGED <<created, freePcbs, procCtr, waiting, sems, semIsFree, freeSems, isRunning>>
  BY DEF EndTick, semVars
<1>2. curr \in Procs /\ curr \in created /\ isRunning
  <2>1. Len(waiting) \in Nat
    BY DEF Structured, Placed, IsList
  <2>2. isRunning /\ curr # NoPcb
    BY <1>1, <2>1 DEF Structured, RestTyped
  <2> QED
    BY <2>2, PlacedIn DEF Structured, Placed
<1>3. /\ Placed(curr, ready, waiting, P, created)
      /\ FreeCleared(created, P)
      /\ Linked(waiting, P, sems)
  BY <1>2, CountDownKeeps
<1> HIDE DEF P
<1>4. /\ Placed(S.curr, S.ready, waiting, S.pcb, created)
      /\ S.curr \in Procs
      /\ \A p \in Range(waiting) : S.pcb[p] = P[p]
      /\ \A p \in Procs \ created : S.pcb[p] = P[p]
      /\ \A p \in Procs : S.pcb[p].sem = P[p].sem
  <2>1. CASE P[curr].delay = 0
    BY <1>3, <2>1, PlacedSched
  <2>2. CASE P[curr].delay # 0
    BY <1>2, <1>3, <2>2
  <2> QED
    BY <2>1, <2>2
<1> HIDE DEF S
<1>5. FreeCleared(created, S.pcb)
  BY <1>3, <1>4 DEF FreeCleared
<1>6. Linked(waiting, S.pcb, sems)
  BY <1>3, <1>4, LinkedKept
<1>7. RestTyped'
  BY <1>1, <1>2, <1>4, IdsDiffer DEF Structured, RestTyped
<1> QED
  BY <1>1, <1>4, <1>5, <1>6, <1>7 DEF Structured
-----------------------------------------------------------------------------
\* Every step of the kernel keeps the invariant.
LEMMA NextKeeps ==
  ASSUME SoundDeletions, StructureInv, [Next]_vars  PROVE StructureInv'
<1>1. Structured
  BY SameInvariant
<1>2. Structured'
  <2>1. CASE Start
    BY <1>1, <2>1, StartKeeps
  <2>2. CASE ProcessCreate
    BY <1>1, <2>2, ProcessCreateKeeps
  <2>3. CASE ProcessCreateFails
    BY <1>1, <2>3, ProcessCreateFailsKeeps
  <2>4. CASE DeleteCurrent
    BY <1>1, <2>4, DeleteCurrentKeeps
  <2>5. CASE \E p \in Procs : DeleteReady(p)
    BY <1>1, <2>5, DeleteReadyKeeps
  <2>6. CASE \E p \in Procs : DeleteWaiting(p)
    BY <1>1, <2>6, DeleteWaitingKeeps
  <2>7. CASE \E d \in Delays : ProcessDelay(d)
    BY <1>1, <2>7, ProcessDelayKeeps
  <2>8. CASE \E c, m \in Counts : SemCreate(c, m)
    BY <1>1, <2>8, SemCreateKeeps
  <2>9. CASE \E s \in Sems : SemDelete(s)
    BY <1>1, <2>9, SemDeleteKeeps
  <2>10. CASE \E s \in Sems : SemAccept(s)
    BY <1>1, <2>10, SemAcceptKeeps
  <2>11. CASE \E s \in Sems : SemTake(s)
    BY <1>1, <2>11, SemTakeKeeps
  <2>12. CASE \E s \in Sems, d \in Delays : SemWait(s, d)
    BY <1>1, <2>12, SemWaitKeeps
  <2>13. CASE \E s \in Sems : SemRelease(s)
    BY <1>1, <2>13, SemReleaseKeeps
  <2>14. CASE \E s \in Sems : SemWake(s)
    BY <1>1, <2>14, SemWakeKeeps
  <2>15. CASE Tick
    BY <1>1, <2>15, TimeTickKeeps, SkipOrCountKeeps, ExpireKeeps, EndTickKeeps DEF Tick
  <2>16. CASE UNCHANGED vars
    BY <1>1, <2>16 DEF vars, Structured, RestTyped
  <2> QED
    BY <2>1, <2>2, <2>3, <2>4, <2>5, <2>6, <2>7, <2>8, <2>9, <2>10, <2>11, <2>12, <2>13,
       <2>14, <2>15, <2>16 DEF Next
<1>3. StructureInv' <=> Structured'
  BY SameInvariant, PTL
<1> QED
  BY <1>2, <1>3

\* The lists, the states, the pool and the queues agree in every reachable state,
\* for every number of processes and semaphores, every slice, delay and counter
\* value, and every misuse of semaphores.
THEOREM StructureHolds == ASSUME SoundDeletions  PROVE Spec => []StructureInv
<1>1. Init => StructureInv
  BY InitStructured, SameInvariant
<1>2. StructureInv /\ [Next]_vars => StructureInv'
  BY NextKeeps
<1> QED
  BY <1>1, <1>2, PTL DEF Spec

\* Type correctness.
THEOREM TypeCorrect == ASSUME SoundDeletions  PROVE Spec => []TypeOK
<1>1. StructureInv => TypeOK
  BY DEF StructureInv
<1> QED
  BY <1>1, StructureHolds, PTL

\* Every created process is in exactly one place, and no other process is in any.
THEOREM OnePlaceHolds == ASSUME SoundDeletions  PROVE Spec => []OnePlace
<1>1. StructureInv => OnePlace
  BY DEF StructureInv
<1> QED
  BY <1>1, StructureHolds, PTL

\* The pool of control blocks: the free list, the flags and the counter agree.
THEOREM PoolAccountedHolds == ASSUME SoundDeletions  PROVE Spec => []PoolAccounted
<1>1. StructureInv => PoolAccounted
  BY DEF StructureInv
<1> QED
  BY <1>1, StructureHolds, PTL

\* The state recorded in a block tells where its process is.
THEOREM StateTellsHolds == ASSUME SoundDeletions  PROVE Spec => []StateTells
<1>1. StructureInv => StateTells
  BY DEF StructureInv
<1> QED
  BY <1>1, StructureHolds, PTL

\* Queues: the processes in a semaphore's queue are those blocked on it.
THEOREM QueuesAgreeHolds == ASSUME SoundDeletions  PROVE Spec => []QueuesAgree
<1>1. StructureInv => QueuesAgree
  BY DEF StructureInv
<1> QED
  BY <1>1, StructureHolds, PTL

\* Pointers: a process points to a semaphore just as long as it is blocked on it.
THEOREM PointersAgreeHolds == ASSUME SoundDeletions  PROVE Spec => []PointersAgree
<1>1. StructureInv => PointersAgree
  BY DEF StructureInv
<1> QED
  BY <1>1, StructureHolds, PTL

\* A process chosen by sched() when others are ready is one of them.
LEMMA SchedChoosesReady ==
  ASSUME NEW c, NEW r, IsList(r, Procs), Idle \notin Range(r), r # <<>>, NEW P
  PROVE  sched(c, r, P).curr # Idle
<1>1. sched(c, r, P).curr = Head(r) /\ Head(r) \in Range(r)
  BY TailOfList DEF sched, SchedNext
<1> QED
  BY <1>1

LEMMA StepIdleLast ==
  ASSUME Structured, [Next]_vars, curr' = Idle, curr # Idle
  PROVE  ready = <<>>
<1>1. IsList(ready, Procs) /\ Idle \notin Range(ready)
  BY DEF Structured, Placed
<1>2. \/ UNCHANGED curr
      \/ \E c, P : curr' = sched(c, ready, P).curr
  <2>1. CASE Start \/ DeleteCurrent
    BY <2>1 DEF Start, DeleteCurrent
  <2>2. ASSUME NEW d \in Delays, ProcessDelay(d)  PROVE \E c, P : curr' = sched(c, ready, P).curr
    BY <2>2 DEF ProcessDelay, Block
  <2>3. ASSUME NEW s \in Sems, NEW d \in Delays, SemWait(s, d)
        PROVE  \E c, P : curr' = sched(c, ready, P).curr
    BY <2>3 DEF SemWait, Block
  <2>4. CASE EndTick
    <3> DEFINE P == [pcb EXCEPT ![curr] = decDelay(@)]
    <3>1. curr' = curr \/ curr' = sched(curr, ready, P).curr
      BY <2>4 DEF EndTick
    <3> QED
      BY <3>1
  <2>5. \/ ProcessCreate \/ ProcessCreateFails \/ TimeTick \/ SkipOrCount \/ Expire
        \/ UNCHANGED vars
        \/ \E p \in Procs : DeleteReady(p) \/ DeleteWaiting(p)
        \/ \E c, m \in Counts : SemCreate(c, m)
        \/ \E s \in Sems : \/ SemDelete(s) \/ SemAccept(s) \/ SemTake(s)
                           \/ SemRelease(s) \/ SemWake(s)
        => UNCHANGED curr
    BY DEF ProcessCreate, ProcessCreateFails, TimeTick, SkipOrCount, Expire, vars, DeleteReady,
           DeleteWaiting, SemCreate, SemDelete, SemAccept, SemTake, SemRelease, SemWake, schedVars
  <2> QED
    BY <2>1, <2>2, <2>3, <2>4, <2>5 DEF Next, Tick
<1> QED
  BY <1>1, <1>2, SchedChoosesReady

\* The idle process is given the CPU only when nobody is ready.
THEOREM IdleLastHolds == ASSUME SoundDeletions  PROVE Spec => IdleLast
<1>1. StructureInv /\ [Next]_vars => [curr' = Idle /\ curr # Idle => ready = <<>>]_vars
  BY StepIdleLast, SameInvariant
<1> QED
  BY <1>1, StructureHolds, PTL DEF Spec, IdleLast
-----------------------------------------------------------------------------
(* The orders *)

\* sched() takes the first of the list, and puts the process that had the CPU
\* behind the others.
LEMMA SchedOrder ==
  ASSUME NEW c \in Procs \cup {NoPcb}, NEW r, IsList(r, Procs), c \notin Range(r), NEW P
  PROVE  /\ sched(c, r, P).curr \in {Head(r), Idle} \/ (c # NoPcb /\ sched(c, r, P).curr = c)
         /\ KeepsOrder(r, sched(c, r, P).ready)
<1>1. CASE r = <<>>
  <2>1. sched(c, r, P).ready = r
    BY <1>1 DEF sched, SchedNone
  <2>2. sched(c, r, P).curr = Idle \/ (c # NoPcb /\ sched(c, r, P).curr = c)
    BY <1>1 DEF sched, SchedNone
  <2> QED
    BY <2>1, <2>2, SameOrder
<1>2. CASE r # <<>>
  <2>1. /\ sched(c, r, P).curr = Head(r)
        /\ sched(c, r, P).ready = IF c \in {NoPcb, Idle} THEN Tail(r) ELSE Append(Tail(r), c)
    BY <1>2 DEF sched, SchedNext
  <2>2. KeepsOrder(r, Tail(r)) /\ \A x \in Procs : x \notin Range(r) => KeepsOrder(r, Append(Tail(r), x))
    BY <1>2, TailOrder
  <2>3. c \notin {NoPcb, Idle} => c \in Procs
    OBVIOUS
  <2> QED
    BY <2>1, <2>2, <2>3
<1> QED
  BY <1>1, <1>2

\* A process that is not in the ready list joins it.
LEMMA JoinOrder ==
  ASSUME Structured, NEW p \in Procs, p \notin Range(ready), ready' = Append(ready, p)
  PROVE  KeepsOrder(ready, ready')
BY AppendOrder DEF Structured, Placed

LEMMA StepReadyInOrder ==
  ASSUME Structured, [Next]_vars
  PROVE  /\ curr' \notin {curr, Idle} => curr' = Head(ready)
         /\ KeepsOrder(ready, ready')
<1> USE DEF Structured
<1>1. /\ IsList(ready, Procs) /\ curr \in Procs \cup {NoPcb} /\ curr \notin Range(ready)
      /\ Range(ready) \cap Range(waiting) = {}
      /\ NoPcb \notin Range(ready) /\ Range(ready) \subseteq created
      /\ Range(waiting) \subseteq Procs
  BY PlacedIn DEF Placed
<1>2. KeepsOrder(ready, ready)
  BY <1>1, SameOrder
\* The scheduler is called.
<1>3. ASSUME NEW c \in {curr, NoPcb}, NEW P,
             curr' = sched(c, ready, P).curr, ready' = sched(c, ready, P).ready
      PROVE  /\ curr' \notin {curr, Idle} => curr' = Head(ready)
             /\ KeepsOrder(ready, ready')
  <2>1. c \in Procs \cup {NoPcb} /\ c \notin Range(ready)
    BY <1>1
  <2>2. /\ sched(c, ready, P).curr \in {Head(ready), Idle}
           \/ (c # NoPcb /\ sched(c, ready, P).curr = c)
        /\ KeepsOrder(ready, sched(c, ready, P).ready)
    BY <1>1, <2>1, SchedOrder
  <2> QED
    BY <1>3, <2>2
<1>4. CASE Start \/ DeleteCurrent
  BY <1>3, <1>4 DEF Start, DeleteCurrent
<1>5. ASSUME NEW P, Block(P)
      PROVE  /\ curr' \notin {curr, Idle} => curr' = Head(ready)
             /\ KeepsOrder(ready, ready')
  BY <1>3, <1>5 DEF Block
<1>6. ASSUME NEW d \in Delays, ProcessDelay(d)
      PROVE  \E P : Block(P)
  BY <1>6 DEF ProcessDelay
<1>7. ASSUME NEW s \in Sems, NEW d \in Delays, SemWait(s, d)
      PROVE  \E P : Block(P)
  BY <1>7 DEF SemWait
<1>8. CASE EndTick
  <2> DEFINE P == [pcb EXCEPT ![curr] = decDelay(@)]
  <2>1. CASE P[curr].delay = 0
    <3>1. curr' = sched(curr, ready, P).curr /\ ready' = sched(curr, ready, P).ready
      BY <1>8, <2>1 DEF EndTick
    <3> QED
      BY <1>3, <3>1
  <2>2. CASE P[curr].delay # 0
    <3>1. curr' = curr /\ ready' = ready
      BY <1>8, <2>2 DEF EndTick
    <3> QED
      BY <1>2, <3>1
  <2> QED
    BY <2>1, <2>2
\* A process joins the ready list, or leaves it.
<1>9. CASE ProcessCreate
  <2>1. NextFree \in Procs \ created
    BY <1>9, PoolTake DEF ProcessCreate
  <2> QED
    BY <1>1, <1>9, <2>1, JoinOrder DEF ProcessCreate
<1>10. CASE Expire
  <2>1. waiting[tick] \in Range(waiting)
    BY <1>10, TickEntry DEF Expire
  <2> QED
    BY <1>1, <1>10, <2>1, JoinOrder DEF Expire
<1>11. ASSUME NEW s \in Sems, SemWake(s)
       PROVE  curr' = curr /\ KeepsOrder(ready, ready')
  <2>1. IsList(sems[s].queue, Procs) /\ sems[s].queue # <<>>
    BY <1>11, EmptySeq DEF Linked, SemWake, hasPend
  <2>2. Head(sems[s].queue) \in Range(sems[s].queue) /\ Head(sems[s].queue) \in Procs
    BY <2>1, TailOfList
  <2>3. Head(sems[s].queue) \in Range(waiting)
    BY <2>2 DEF Linked, Blocked
  <2> QED
    BY <1>1, <1>11, <2>2, <2>3, JoinOrder DEF SemWake
<1>12. ASSUME NEW p \in Procs, DeleteReady(p)
       PROVE  curr' = curr /\ KeepsOrder(ready, ready')
  BY <1>1, <1>12, RemoveOrder DEF DeleteReady, removeFromList
<1>13. ASSUME NEW p \in Procs, DeleteWaiting(p)
       PROVE  curr' = curr /\ ready' = ready
  BY <1>13 DEF DeleteWaiting
<1>14. \/ ProcessCreateFails \/ TimeTick \/ SkipOrCount
       \/ UNCHANGED vars
       \/ \E c, m \in Counts : SemCreate(c, m)
       \/ \E s \in Sems : SemDelete(s) \/ SemAccept(s) \/ SemTake(s) \/ SemRelease(s)
       => curr' = curr /\ ready' = ready
  BY DEF ProcessCreateFails, TimeTick, SkipOrCount, vars, SemCreate, SemDelete, SemAccept,
         SemTake, SemRelease, schedVars
<1> QED
  BY <1>2, <1>4, <1>5, <1>6, <1>7, <1>8, <1>9, <1>10, <1>11, <1>12, <1>13, <1>14
     DEF Next, Tick, ProcessCreate, Expire

\* Round robin: the first of the ready list gets the CPU, nobody is overtaken there,
\* and who joins comes last.
THEOREM ReadyInOrderHolds == ASSUME SoundDeletions  PROVE Spec => ReadyInOrder
<1>1. StructureInv /\ [Next]_vars =>
        [/\ curr' \notin {curr, Idle} => curr' = Head(ready)
         /\ \A i, j \in DOMAIN ready, k, l \in DOMAIN ready' :
               /\ i < j
               /\ ready[i] = ready'[k]
               /\ ready[j] = ready'[l]
               => k < l
         /\ \A k, l \in DOMAIN ready' :
               k < l /\ ready'[l] \in Range(ready) => ready'[k] \in Range(ready)]_vars
  BY StepReadyInOrder, SameInvariant DEF KeepsOrder
<1> QED
  BY <1>1, StructureHolds, PTL DEF Spec, ReadyInOrder

\* Whoever leaves a queue was the first, or has timed out, or is deleted.
LeavesInOrder(s) ==
  \A i \in DOMAIN sems[s].queue :
    LET p == sems[s].queue[i]
    IN  p \notin Range(sems'[s].queue) => \/ i = 1
                                          \/ pcb'[p].timedOut
                                          \/ p \notin created'

\* removeFromSem takes out one process.
LEMMA OneLeaves ==
  ASSUME Structured, NEW p \in Procs, sems' = removeFromSem(p), NEW s \in Sems,
         pcb'[p].timedOut \/ p \notin created'
  PROVE  LeavesInOrder(s)
<1>1. Range(sems'[s].queue) = Range(sems[s].queue) \ {p}
  BY RemovedFromSem DEF Structured, RestTyped, Placed, QueuesWithout
<1>2. \A i \in DOMAIN sems[s].queue : sems[s].queue[i] \in Range(sems[s].queue)
  BY DEF Range
<1> QED
  BY <1>1, <1>2 DEF LeavesInOrder

LEMMA StepWakeInOrder ==
  ASSUME Structured, [Next]_vars, NEW s \in Sems
  PROVE  LeavesInOrder(s)
<1>1. /\ sems \in [Sems -> Semaphores] /\ pcb \in [Procs -> Pcbs]
      /\ Range(waiting) \subseteq Procs
      /\ \A t \in Sems : IsList(sems[t].queue, Procs)
      /\ \A i \in DOMAIN sems[s].queue : sems[s].queue[i] \in Range(sems[s].queue)
  <2>1. sems \in [Sems -> Semaphores] /\ \A t \in Sems : IsList(sems[t].queue, Procs)
    BY DEF Structured, RestTyped, Linked
  <2>2. pcb \in [Procs -> Pcbs] /\ Range(waiting) \subseteq Procs
    BY PlacedIn DEF Structured, Placed
  <2>3. \A i \in DOMAIN sems[s].queue : sems[s].queue[i] \in Range(sems[s].queue)
    BY DEF Range
  <2> QED
    BY <2>1, <2>2, <2>3
\* Nobody leaves.
<1>2. ASSUME Range(sems[s].queue) \subseteq Range(sems'[s].queue)
      PROVE  LeavesInOrder(s)
  BY <1>1, <1>2 DEF LeavesInOrder
<1>3. CASE sems' = sems
  BY <1>2, <1>3
<1>4. ASSUME NEW c \in Counts, NEW m \in Counts, SemCreate(c, m)
      PROVE  LeavesInOrder(s)
  <2>1. sems'[s].queue = sems[s].queue
    BY <1>1, <1>4 DEF SemCreate, initSem, Semaphores
  <2> QED
    BY <1>2, <2>1
<1>5. ASSUME NEW t \in Sems, SemAccept(t) \/ SemTake(t) \/ SemRelease(t)
      PROVE  LeavesInOrder(s)
  <2>1. PICK v \in {setCtr(sems[t], sems[t].ctr - 1), takeUnit(sems[t]), addUnit(sems[t])} :
          sems' = [sems EXCEPT ![t] = v]
    BY <1>5 DEF SemAccept, SemTake, SemRelease
  <2>2. v.queue = sems[t].queue
    BY <1>1, <2>1, CounterChange
  <2>3. sems'[s].queue = sems[s].queue
    BY <1>1, <2>1, <2>2
  <2> QED
    BY <1>2, <2>3
<1>6. ASSUME NEW t \in Sems, NEW d \in Delays, SemWait(t, d)
      PROVE  LeavesInOrder(s)
  <2>1. curr \in Procs /\ curr \notin Range(waiting)
    BY <1>6, ExecutingProcess DEF SemWait
  <2>2. sems' = [sems EXCEPT ![t] = enqueue(@, curr)]
    BY <1>6 DEF SemWait
  <2>3. CASE s = t
    <3>1. sems'[s].queue = Append(sems[s].queue, curr)
      BY <1>1, <2>2, <2>3 DEF enqueue, Semaphores
    <3>2. curr \notin Range(sems[s].queue)
      BY <2>1 DEF Structured, Linked, Blocked
    <3>3. Range(Append(sems[s].queue, curr)) = Range(sems[s].queue) \cup {curr}
      BY <1>1, <2>1, <3>2, AppendToList
    <3> QED
      BY <1>2, <3>1, <3>3
  <2>4. CASE s # t
    BY <1>1, <1>2, <2>2, <2>4
  <2> QED
    BY <2>3, <2>4
\* The first one leaves.
<1>7. ASSUME NEW t \in Sems, SemWake(t)
      PROVE  LeavesInOrder(s)
  <2>1. sems' = [sems EXCEPT ![t] = dequeue(@)] /\ sems[t].queue # <<>>
    BY <1>1, <1>7, EmptySeq DEF SemWake, hasPend
  <2>2. CASE s = t
    <3> DEFINE q == sems[s].queue
    <3>1. sems'[s].queue = Tail(q)
      BY <1>1, <2>1, <2>2 DEF dequeue, Semaphores
    <3>2. Range(Tail(q)) = Range(q) \ {Head(q)} /\ Head(q) = q[1]
      <4>1. IsList(q, Procs) /\ q # <<>>
        BY <1>1, <2>1, <2>2
      <4>2. q \in Seq(Procs)
        BY <4>1 DEF IsList
      <4> QED
        BY <4>1, <4>2, TailOfList DEF Head
    <3>3. /\ \A i, j \in DOMAIN q : q[i] = q[j] => i = j
          /\ 1 \in DOMAIN q
      <4>1. Len(q) # 0 /\ DOMAIN q = 1..Len(q) /\ Len(q) \in Nat
        BY <1>1, <2>1, <2>2, ElementsOfSeq, EmptySeq DEF IsList
      <4> QED
        BY <1>1, <4>1 DEF IsList, IsInjective
    <3>4. ASSUME NEW i \in DOMAIN q, q[i] \notin Range(sems'[s].queue)
          PROVE  i = 1
      BY <1>1, <3>1, <3>2, <3>3, <3>4
    <3> QED
      BY <3>4 DEF LeavesInOrder
  <2>3. CASE s # t
    BY <1>1, <1>2, <2>1, <2>3
  <2> QED
    BY <2>2, <2>3
\* One leaves from anywhere.
<1>8. CASE Expire
  <2> DEFINE p == waiting[tick]
  <2>1. p \in Procs
    BY <1>1, <1>8, TickEntry DEF Expire
  <2>2. pcb' = [pcb EXCEPT ![p] = expire(@)] /\ sems' = removeFromSem(p)
    BY <1>8, AlwaysWaitingEvent DEF Expire
  <2>3. expire(pcb[p]).timedOut
    BY <1>1, <2>1, AlwaysWaitingEvent DEF expire, Pcbs
  <2>4. pcb'[p].timedOut
    BY <1>1, <2>1, <2>2, <2>3
  <2> HIDE DEF p
  <2> QED
    BY <2>1, <2>2, <2>4, OneLeaves
<1>9. ASSUME NEW p \in Procs, DeleteWaiting(p)
      PROVE  LeavesInOrder(s)
  <2>1. sems' = removeFromSem(p)
    BY <1>9, AlwaysWaitingEvent DEF DeleteWaiting
  <2>2. p \notin created'
    BY <1>9 DEF DeleteWaiting, returnPCB
  <2> QED
    BY <2>1, <2>2, OneLeaves
<1>10. \/ Start \/ ProcessCreate \/ ProcessCreateFails \/ DeleteCurrent
       \/ TimeTick \/ SkipOrCount \/ EndTick \/ UNCHANGED vars
       \/ \E p \in Procs : DeleteReady(p)
       \/ \E d \in Delays : ProcessDelay(d)
       \/ \E t \in Sems : SemDelete(t)
       => sems' = sems
  BY DEF Start, ProcessCreate, ProcessCreateFails, DeleteCurrent, TimeTick, SkipOrCount, EndTick,
         vars, DeleteReady, ProcessDelay, SemDelete, semVars
<1> QED
  BY <1>3, <1>4, <1>5, <1>6, <1>7, <1>8, <1>9, <1>10 DEF Next, Tick

\* Semaphores are served in the order of arrival.
THEOREM WakeInOrderHolds == ASSUME SoundDeletions  PROVE Spec => WakeInOrder
<1>1. StructureInv /\ [Next]_vars => [\A s \in Sems : LeavesInOrder(s)]_vars
  BY StepWakeInOrder, SameInvariant
<1>2. WakeInOrder <=> [][\A s \in Sems : LeavesInOrder(s)]_vars
  BY PTL DEF WakeInOrder, LeavesInOrder
<1> QED
  BY <1>1, <1>2, StructureHolds, PTL DEF Spec
-----------------------------------------------------------------------------
(***************************************************************************)
(* The kernel implements module Kernel: each of its steps is one of        *)
(* Kernel's, or changes nothing that Kernel tells apart.                   *)
(***************************************************************************)

\* Programs and the shell make only the calls that the kernel can carry out.
SoundCalls == Unguarded = {}

LEMMA SoundCallsDelete == SoundCalls => SoundDeletions
BY DEF SoundCalls, SoundDeletions

\* The invariant: the structure, and the semaphores' units and pool.
KernelInv ==
  /\ StructureInv
  /\ NoUnitWhileWaiting
  /\ SemPoolAccounted

\* What it says of a semaphore that a program may use.
LEMMA Usable ==
  ASSUME SoundCalls, KernelInv, NEW s \in Sems, MayUse(s)
  PROVE  /\ ~semIsFree[s]
         /\ sems[s] \in Semaphores
         /\ sems[s].ctr \in Nat /\ sems[s].max \in Nat
         /\ sems[s].ctr <= sems[s].max
         /\ hasPend(sems[s]) => sems[s].ctr = 0
<1>1. ~semIsFree[s]
  BY DEF SoundCalls, MayUse
<1>2. sems[s] \in Semaphores
  BY DEF KernelInv, StructureInv, TypeOK
<1> QED
  BY <1>1, <1>2, UINT16Bound DEF KernelInv, NoUnitWhileWaiting, Semaphores, UINT16

\* A queue is empty when it holds nobody.
LEMMA NobodyWaits ==
  ASSUME Structured, NEW s \in Sems
  PROVE  hasPend(sems[s]) <=> Range(sems[s].queue) # {}
<1>1. sems[s].queue \in Seq(Procs)
  BY DEF Structured, Linked, IsList
<1>2. Range(sems[s].queue) = {} => sems[s].queue = <<>>
  BY <1>1, EmptyList
<1>3. Range(<<>>) = {}
  BY EmptyList
<1>4. Len(sems[s].queue) = 0 <=> sems[s].queue = <<>>
  BY <1>1, EmptySeq
<1> QED
  BY <1>2, <1>3, <1>4 DEF hasPend
-----------------------------------------------------------------------------
(* Units and the pool of semaphores *)

\* The invariant of one semaphore.
UnitsFit(S) == (hasPend(S) => S.ctr = 0) /\ S.ctr <= S.max

\* Steps that take waiters away, and change no semaphore otherwise.
LEMMA UnitsKept ==
  ASSUME KernelInv, StructureInv', UNCHANGED <<semIsFree, freeSems>>,
         \A s \in Sems : /\ sems'[s].ctr = sems[s].ctr /\ sems'[s].max = sems[s].max
                         /\ Range(sems'[s].queue) \subseteq Range(sems[s].queue)
  PROVE  KernelInv'
<1>1. Structured /\ Structured'
  <2>1. StructureInv' <=> Structured'
    BY SameInvariant, PTL
  <2> QED
    BY <2>1, SameInvariant DEF KernelInv
<1>2. ASSUME NEW s \in Sems
      PROVE  hasPend(sems'[s]) => hasPend(sems[s])
  <2>1. hasPend(sems[s]) <=> Range(sems[s].queue) # {}
    BY <1>1, NobodyWaits
  <2>2. (hasPend(sems[s]) <=> Range(sems[s].queue) # {})'
    BY <1>1, NobodyWaits, PTL
  <2> QED
    BY <2>1, <2>2
<1> QED
  BY <1>2 DEF KernelInv, NoUnitWhileWaiting, SemPoolAccounted

\* A step that changes one created semaphore.
LEMMA UnitsChanged ==
  ASSUME KernelInv, StructureInv', NEW s \in Sems, ~semIsFree[s],
         NEW v, sems' = [sems EXCEPT ![s] = v], UnitsFit(v),
         UNCHANGED <<semIsFree, freeSems>>
  PROVE  KernelInv'
<1>1. /\ sems'[s] = v
      /\ \A t \in Sems : t # s => sems'[t] = sems[t]
  BY DEF KernelInv, StructureInv, TypeOK
<1>2. NoUnitWhileWaiting'
  BY <1>1 DEF KernelInv, NoUnitWhileWaiting, UnitsFit
<1>3. SemPoolAccounted'
  BY <1>1 DEF KernelInv, SemPoolAccounted
<1> QED
  BY <1>2, <1>3 DEF KernelInv

\* What a semaphore's operations do to its numbers.
LEMMA Numbers ==
  ASSUME NEW S \in Semaphores, S.ctr <= S.max
  PROVE  /\ S.ctr \in Nat /\ S.max \in Nat
         /\ S.ctr > 0 => /\ takeUnit(S).ctr = S.ctr - 1
                         /\ setCtr(S, S.ctr - 1).ctr = S.ctr - 1
         /\ takeUnit(S).max = S.max
         /\ setCtr(S, S.ctr - 1).max = S.max
         /\ addUnit(S).max = S.max
         /\ addUnit(S).ctr = IF S.ctr < S.max THEN S.ctr + 1 ELSE S.ctr
         /\ \A p \in Procs : enqueue(S, p).ctr = S.ctr /\ enqueue(S, p).max = S.max
         /\ dequeue(S).ctr = S.ctr /\ dequeue(S).max = S.max
BY UINT16Bound DEF Semaphores, UINT16, takeUnit, setCtr, addUnit, enqueue, dequeue

\* OSPcb::removeFromSem leaves the numbers alone.
LEMMA RemovedNumbers ==
  ASSUME sems \in [Sems -> Semaphores], NEW p
  PROVE  \A s \in Sems : /\ removeFromSem(p)[s].ctr = sems[s].ctr
                         /\ removeFromSem(p)[s].max = sems[s].max
BY DEF removeFromSem, Semaphores

\* semCreate takes a semaphore that is free, and that nobody waits for.
LEMMA FreeTaken ==
  ASSUME KernelInv, freeSems # <<>>
  PROVE  /\ Head(freeSems) \in Sems
         /\ semIsFree[Head(freeSems)]
         /\ ~hasPend(sems[Head(freeSems)])
         /\ IsInjective(Tail(freeSems))
         /\ Range(Tail(freeSems)) = Range(freeSems) \ {Head(freeSems)}
<1>1. IsList(freeSems, Sems)
  BY DEF KernelInv, SemPoolAccounted, StructureInv, TypeOK, IsList
<1>2. /\ Head(freeSems) \in Range(freeSems)
      /\ Range(Tail(freeSems)) = Range(freeSems) \ {Head(freeSems)}
      /\ IsInjective(Tail(freeSems))
  BY <1>1, TailOfList DEF IsList
<1> QED
  BY <1>2 DEF KernelInv, SemPoolAccounted

LEMMA SemCreateUnits ==
  ASSUME SoundCalls, KernelInv, StructureInv', NEW c \in Counts, NEW m \in Counts, SemCreate(c, m)
  PROVE  KernelInv'
<1> DEFINE s == Head(freeSems)
<1>1. /\ s \in Sems /\ semIsFree[s] /\ ~hasPend(sems[s])
      /\ IsInjective(Tail(freeSems)) /\ Range(Tail(freeSems)) = Range(freeSems) \ {s}
  BY FreeTaken DEF SemCreate
<1>2. /\ freeSems' = Tail(freeSems)
      /\ semIsFree' = [semIsFree EXCEPT ![s] = FALSE]
      /\ sems' = [sems EXCEPT ![s] = initSem(sems[s], c, m)]
      /\ c <= m
  <2>1. c \in Nat /\ m \in Nat
    BY CountsAssumption, UINT16Bound DEF UINT16
  <2> QED
    BY <2>1 DEF SemCreate, getFreeSem, SoundCalls
<1> HIDE DEF s
<1>3. sems \in [Sems -> Semaphores] /\ semIsFree \in [Sems -> BOOLEAN]
  BY DEF KernelInv, StructureInv, TypeOK
<1>4. /\ initSem(sems[s], c, m).ctr = c /\ initSem(sems[s], c, m).max = m
      /\ initSem(sems[s], c, m).queue = sems[s].queue
  BY <1>1, <1>3 DEF initSem, Semaphores
<1>5. /\ sems'[s].ctr <= sems'[s].max /\ ~hasPend(sems'[s])
      /\ \A t \in Sems : t # s => sems'[t] = sems[t] /\ semIsFree'[t] = semIsFree[t]
      /\ ~semIsFree'[s]
  BY <1>1, <1>2, <1>3, <1>4 DEF hasPend
<1>6. NoUnitWhileWaiting'
  BY <1>5 DEF KernelInv, NoUnitWhileWaiting
<1>7. SemPoolAccounted'
  BY <1>1, <1>2, <1>5 DEF KernelInv, SemPoolAccounted
<1> QED
  BY <1>6, <1>7 DEF KernelInv

\* semDelete puts back one that nobody waits for.
LEMMA SemDeleteUnits ==
  ASSUME SoundCalls, KernelInv, StructureInv', NEW s \in Sems, SemDelete(s)
  PROVE  KernelInv'
<1>1. ~semIsFree[s] /\ ~hasPend(sems[s])
  BY Usable DEF SemDelete
<1>2. /\ freeSems' = Append(freeSems, s)
      /\ semIsFree' = [semIsFree EXCEPT ![s] = TRUE]
      /\ sems' = sems
  BY <1>1 DEF SemDelete, returnSem
<1>3. IsList(freeSems, Sems) /\ s \notin Range(freeSems)
  BY <1>1 DEF KernelInv, SemPoolAccounted, StructureInv, TypeOK, IsList
<1>4. IsInjective(freeSems') /\ Range(freeSems') = Range(freeSems) \cup {s}
  BY <1>2, <1>3, AppendToList DEF IsList
<1>5. semIsFree \in [Sems -> BOOLEAN]
  BY DEF KernelInv, StructureInv, TypeOK
<1>6. semIsFree'[s] /\ \A t \in Sems : t # s => semIsFree'[t] = semIsFree[t]
  BY <1>2, <1>5
<1>7. NoUnitWhileWaiting'
  BY <1>2, <1>6 DEF KernelInv, NoUnitWhileWaiting
<1>8. SemPoolAccounted'
  BY <1>1, <1>2, <1>4, <1>6 DEF KernelInv, SemPoolAccounted
<1> QED
  BY <1>7, <1>8 DEF KernelInv

\* The calls that take a unit, give one, or begin to wait.
LEMMA SemCallUnits ==
  ASSUME SoundCalls, KernelInv, StructureInv', NEW s \in Sems,
         \/ SemAccept(s) \/ SemTake(s) \/ SemRelease(s)
         \/ \E d \in Delays : SemWait(s, d)
  PROVE  KernelInv'
<1>1. MayUse(s) /\ UNCHANGED <<semIsFree, freeSems>>
  BY DEF SemAccept, SemTake, SemRelease, SemWait
<1> DEFINE S == sems[s]
<1>2. /\ ~semIsFree[s] /\ S \in Semaphores /\ S.ctr <= S.max
      /\ hasPend(S) => S.ctr = 0
  BY <1>1, Usable
<1>3. S.ctr \in Nat /\ S.max \in Nat
  BY <1>2, Numbers
<1>4. S.ctr > 0 => UnitsFit(setCtr(S, S.ctr - 1)) /\ UnitsFit(takeUnit(S))
  <2> SUFFICES ASSUME S.ctr > 0  PROVE UnitsFit(setCtr(S, S.ctr - 1)) /\ UnitsFit(takeUnit(S))
    OBVIOUS
  <2>1. ~hasPend(S)
    BY <1>2
  <2>2. setCtr(S, S.ctr - 1).queue = S.queue /\ takeUnit(S).queue = S.queue
    BY <1>2, CounterChange
  <2>3. ~hasPend(setCtr(S, S.ctr - 1)) /\ ~hasPend(takeUnit(S))
    BY <2>1, <2>2 DEF hasPend
  <2>4. /\ takeUnit(S).ctr = S.ctr - 1 /\ takeUnit(S).max = S.max
        /\ setCtr(S, S.ctr - 1).ctr = S.ctr - 1 /\ setCtr(S, S.ctr - 1).max = S.max
    BY <1>2, Numbers
  <2> QED
    BY <1>2, <1>3, <2>3, <2>4 DEF UnitsFit
<1>5. ~hasPend(S) => UnitsFit(addUnit(S))
  <2> SUFFICES ASSUME ~hasPend(S)  PROVE UnitsFit(addUnit(S))
    OBVIOUS
  <2>1. addUnit(S).queue = S.queue
    BY <1>2, CounterChange
  <2>2. ~hasPend(addUnit(S))
    BY <2>1 DEF hasPend
  <2>3. addUnit(S).max = S.max /\ addUnit(S).ctr = IF S.ctr < S.max THEN S.ctr + 1 ELSE S.ctr
    BY <1>2, Numbers
  <2> QED
    BY <1>2, <1>3, <2>2, <2>3 DEF UnitsFit
<1>6. S.ctr = 0 /\ curr \in Procs => UnitsFit(enqueue(S, curr))
  <2> SUFFICES ASSUME S.ctr = 0, curr \in Procs  PROVE UnitsFit(enqueue(S, curr))
    OBVIOUS
  <2>1. enqueue(S, curr).ctr = 0 /\ enqueue(S, curr).max = S.max
    BY <1>2, Numbers
  <2> QED
    BY <1>2, <2>1 DEF UnitsFit
<1>7. CASE SemAccept(s)
  BY <1>1, <1>2, <1>4, <1>7, UnitsChanged DEF SemAccept
<1>8. CASE SemTake(s)
  BY <1>1, <1>2, <1>4, <1>8, UnitsChanged DEF SemTake
<1>9. CASE SemRelease(s)
  BY <1>1, <1>2, <1>5, <1>9, UnitsChanged DEF SemRelease
<1>10. CASE \E d \in Delays : SemWait(s, d)
  <2>1. Structured
    BY SameInvariant DEF KernelInv
  <2>2. curr \in Procs
    BY <1>10, <2>1, ExecutingProcess DEF SemWait
  <2>3. S.ctr = 0 /\ sems' = [sems EXCEPT ![s] = enqueue(S, curr)]
    BY <1>10 DEF SemWait
  <2> QED
    BY <1>1, <1>2, <1>6, <2>2, <2>3, UnitsChanged
<1> QED
  BY <1>7, <1>8, <1>9, <1>10

\* The steps in which a process leaves a queue.
LEMMA LeavingUnits ==
  ASSUME KernelInv, StructureInv',
         \/ Expire
         \/ \E p \in Procs : DeleteWaiting(p)
         \/ \E s \in Sems : SemWake(s)
  PROVE  KernelInv'
<1>1. Structured /\ sems \in [Sems -> Semaphores] /\ pcb \in [Procs -> Pcbs]
  BY SameInvariant DEF KernelInv, StructureInv, TypeOK
<1>2. ASSUME NEW p \in Procs, sems' = removeFromSem(p), UNCHANGED <<semIsFree, freeSems>>
      PROVE  KernelInv'
  <2>1. QueuesWithout(p, sems, removeFromSem(p))
    BY <1>1, RemovedFromSem DEF Structured
  <2> QED
    BY <1>1, <1>2, <2>1, RemovedNumbers, UnitsKept DEF QueuesWithout
<1>3. CASE Expire
  <2>1. waiting[tick] \in Procs
    BY <1>1, <1>3, TickEntry DEF Expire, Structured, Placed
  <2> QED
    BY <1>2, <1>3, <2>1, AlwaysWaitingEvent DEF Expire
<1>4. ASSUME NEW p \in Procs, DeleteWaiting(p)  PROVE KernelInv'
  BY <1>2, <1>4, AlwaysWaitingEvent DEF DeleteWaiting
<1>5. ASSUME NEW s \in Sems, SemWake(s)  PROVE KernelInv'
  <2>1. sems' = [sems EXCEPT ![s] = dequeue(sems[s])] /\ UNCHANGED <<semIsFree, freeSems>>
    BY <1>5 DEF SemWake
  <2>2. IsList(sems[s].queue, Procs) /\ sems[s].queue # <<>>
    BY <1>1, <1>5, EmptySeq DEF Structured, Linked, SemWake, hasPend
  <2>3. /\ dequeue(sems[s]).queue = Tail(sems[s].queue)
        /\ dequeue(sems[s]).ctr = sems[s].ctr /\ dequeue(sems[s]).max = sems[s].max
    BY <1>1 DEF dequeue, Semaphores
  <2>4. Range(Tail(sems[s].queue)) \subseteq Range(sems[s].queue)
    BY <2>2, TailOfList
  <2>5. \A t \in Sems : /\ sems'[t].ctr = sems[t].ctr /\ sems'[t].max = sems[t].max
                        /\ Range(sems'[t].queue) \subseteq Range(sems[t].queue)
    BY <1>1, <2>1, <2>3, <2>4
  <2> QED
    BY <2>1, <2>5, UnitsKept
<1> QED
  BY <1>3, <1>4, <1>5

\* Every step of the kernel keeps the invariant.
LEMMA KernelKeeps ==
  ASSUME SoundCalls, KernelInv, [Next]_vars  PROVE KernelInv'
<1>1. StructureInv'
  BY SoundCallsDelete, NextKeeps DEF KernelInv
<1>2. CASE UNCHANGED semVars
  BY <1>1, <1>2, UnitsKept DEF semVars
<1>3. CASE \E c, m \in Counts : SemCreate(c, m)
  BY <1>1, <1>3, SemCreateUnits
<1>4. CASE \E s \in Sems : SemDelete(s)
  BY <1>1, <1>4, SemDeleteUnits
<1>5. CASE \E s \in Sems : \/ SemAccept(s) \/ SemTake(s) \/ SemRelease(s)
                           \/ \E d \in Delays : SemWait(s, d)
  BY <1>1, <1>5, SemCallUnits
<1>6. CASE \/ Expire
           \/ \E p \in Procs : DeleteWaiting(p)
           \/ \E s \in Sems : SemWake(s)
  BY <1>1, <1>6, LeavingUnits
<1>7. \/ UNCHANGED vars \/ Start \/ ProcessCreate \/ ProcessCreateFails \/ DeleteCurrent
      \/ \E p \in Procs : DeleteReady(p)
      \/ \E d \in Delays : ProcessDelay(d)
      \/ TimeTick \/ SkipOrCount \/ EndTick
      => UNCHANGED semVars
  BY DEF vars, semVars, Start, ProcessCreate, ProcessCreateFails, DeleteCurrent, DeleteReady,
         ProcessDelay, TimeTick, SkipOrCount, EndTick
<1> QED
  BY <1>2, <1>3, <1>4, <1>5, <1>6, <1>7 DEF Next, Tick

\* The units and the pool hold initially: no semaphore is created.
LEMMA KernelInit ==
  ASSUME Init  PROVE KernelInv
<1>1. Structured /\ StructureInv
  BY InitStructured, SameInvariant
<1>2. /\ freeSems = [i \in 1..MaxSem |-> i - 1]
      /\ \A s \in Sems : semIsFree[s] /\ sems[s].queue = <<>>
  BY DEF Init, SemInit
<1>3. MaxSem \in Nat
  BY SemsAssumption, UINT16Bound DEF UINT16
<1>4. IsInjective(freeSems) /\ Range(freeSems) = Sems
  <2>1. \A s \in Sems : s + 1 \in 1..MaxSem /\ freeSems[s + 1] = s
    BY <1>2, <1>3 DEF Sems
  <2>2. \A i \in 1..MaxSem : freeSems[i] \in Sems
    BY <1>2, <1>3 DEF Sems
  <2> QED
    BY <1>2, <1>3, <2>1, <2>2 DEF IsInjective, Range
<1>5. \A s \in Sems : ~hasPend(sems[s])
  BY <1>2, EmptySeq DEF hasPend
<1> QED
  BY <1>1, <1>2, <1>4, <1>5 DEF KernelInv, NoUnitWhileWaiting, SemPoolAccounted

\* Units and pool, for every number of processes and semaphores, every slice, delay
\* and counter value.
THEOREM KernelInvHolds == ASSUME SoundCalls  PROVE Spec => []KernelInv
<1>1. Init => KernelInv
  BY KernelInit
<1>2. KernelInv /\ [Next]_vars => KernelInv'
  BY KernelKeeps
<1> QED
  BY <1>1, <1>2, PTL DEF Spec

\* No wake-up is lost: no process waits for a semaphore that has a unit.
THEOREM NoUnitWhileWaitingHolds == ASSUME SoundCalls  PROVE Spec => []NoUnitWhileWaiting
<1>1. KernelInv => NoUnitWhileWaiting
  BY DEF KernelInv
<1> QED
  BY <1>1, KernelInvHolds, PTL

\* The pool of semaphores: what is free is free once, and nobody waits for it.
THEOREM SemPoolAccountedHolds == ASSUME SoundCalls  PROVE Spec => []SemPoolAccounted
<1>1. KernelInv => SemPoolAccounted
  BY DEF KernelInv
<1> QED
  BY <1>1, KernelInvHolds, PTL
-----------------------------------------------------------------------------
(* The sets of module Kernel *)

\* Who waits for a semaphore is blocked, points to it and waits for no other.
LEMMA WaitersAre ==
  ASSUME Structured
  PROVE  /\ \A s \in Sems : Waiters[s] \subseteq Range(waiting)
         /\ \A s, t \in Sems, p \in Procs : p \in Waiters[s] /\ p \in Waiters[t] => s = t
         /\ Range(waiting) \subseteq Procs
<1>1. Range(waiting) \subseteq Procs
  BY PlacedIn DEF Structured
<1>2. \A s \in Sems : Range(sems[s].queue) \subseteq Procs
  <2>1. \A s \in Sems : sems[s].queue \in Seq(Procs)
    BY DEF Structured, Linked, IsList
  <2> QED
    BY <2>1, ElementsOfSeq
<1> QED
  BY <1>1, <1>2 DEF Structured, Linked, Blocked, Waiters

\* Blocked processes, and those that exist.
LEMMA PlacesAre ==
  ASSUME Structured
  PROVE  /\ Promise!Blocked = Range(waiting)
         /\ Promise!Existing = created \cup {curr}
         /\ curr \in Procs \cup {NoPcb}
         /\ curr \notin Range(waiting) /\ Idle \in created
<1>1. Promise!Blocked = Range(waiting)
  BY WaitersAre DEF Promise!Blocked, Paused, Waiters
<1>2. /\ created \cup {NoPcb} = Range(ready) \cup Range(waiting) \cup {curr, Idle, NoPcb}
      /\ Idle \in created /\ curr \in Procs \cup {NoPcb}
      /\ curr \notin Range(waiting)
      /\ NoPcb \notin Range(ready) \cup Range(waiting) \cup {Idle} \cup created
  <2>1. Placed(curr, ready, waiting, pcb, created)
    BY DEF Structured
  <2>2. Idle \in created /\ NoPcb \notin Range(ready) \cup Range(waiting)
    BY <2>1, PlacedIn
  <2>3. NoPcb \notin created
    BY <2>1, IdsDiffer DEF Placed
  <2> QED
    BY <2>1, <2>2, <2>3 DEF Placed
<1>3. Range(ready) \cup Range(waiting) \cup {curr, Idle} = created \cup {curr}
  BY <1>2
<1> QED
  BY <1>1, <1>2, <1>3 DEF Promise!Existing

\* A process that has been blocked leaves the set it was in.
LEMMA Unblocks ==
  ASSUME Structured, NEW p,
         Range(waiting') = Range(waiting) \ {p}, QueuesWithout(p, sems, sems')
  PROVE  Promise!Unblocked(p)
BY DEF QueuesWithout, Promise!Unblocked, Paused, Waiters

\* The scheduler gives a free CPU to a ready process, or to the idle one.
LEMMA Dispatches ==
  ASSUME Structured, NEW P,
         curr' = sched(NoPcb, ready, P).curr, ready' = sched(NoPcb, ready, P).ready
  PROVE  Promise!Dispatch(Range(ready))
<1>1. IsList(ready, Procs)
  BY DEF Structured, Placed
<1>2. CASE ready = <<>>
  <2>1. curr' = Idle /\ ready' = <<>>
    BY <1>2 DEF sched, SchedNone
  <2> QED
    BY <1>2, <2>1, EmptyList DEF Promise!Dispatch
<1>3. CASE ready # <<>>
  <2>1. curr' = Head(ready) /\ ready' = Tail(ready)
    BY <1>3 DEF sched, SchedNext
  <2> QED
    BY <1>1, <1>3, <2>1, TailOfList DEF Promise!Dispatch
<1> QED
  BY <1>2, <1>3

\* Steps that change no semaphore.
LEMMA SemsStay ==
  ASSUME UNCHANGED <<sems, semIsFree>>
  PROVE  UNCHANGED <<Open, Units, Largest, Waiters>>
BY DEF Open, Units, Largest, Waiters
-----------------------------------------------------------------------------
(* Each step of the kernel is one of module Kernel *)

LEMMA StartBoots ==
  ASSUME Structured, Start  PROVE Promise!Boot
<1>1. curr = NoPcb /\ UNCHANGED <<waiting, sems, semIsFree>>
  BY DEF Structured, RestTyped, Start, semVars
<1>2. Promise!Dispatch(Range(ready))
  BY Dispatches DEF Start
<1>3. UNCHANGED Paused
  BY <1>1 DEF Paused
<1> QED
  BY <1>1, <1>2, <1>3, SemsStay DEF Promise!Boot, Promise!semaphores

LEMMA CreateBegins ==
  ASSUME Structured, ProcessCreate  PROVE \E p \in Procs : Promise!Begin(p)
<1> DEFINE p == NextFree
<1>1. p \in Procs \ created
  BY PoolTake DEF Structured, ProcessCreate
<1>2. ready' = Append(ready, p) /\ UNCHANGED <<curr, waiting, sems, semIsFree>>
  BY DEF ProcessCreate, semVars
<1> HIDE DEF p
<1>3. p # curr /\ p \notin Range(ready)
  BY <1>1, PlacedIn, IdsDiffer DEF Structured
<1>4. p \in Procs \ Promise!Existing
  BY <1>1, <1>3, PlacesAre
<1>5. Range(ready') = Range(ready) \cup {p}
  BY <1>1, <1>2, <1>3, AppendToList DEF Structured, Placed
<1>6. UNCHANGED Paused
  BY <1>2 DEF Paused
<1> QED
  BY <1>2, <1>4, <1>5, <1>6, SemsStay DEF Promise!Begin, Promise!semaphores

LEMMA DeleteEndsCurrent ==
  ASSUME SoundCalls, Structured, DeleteCurrent  PROVE \E p \in Procs : Promise!End(p)
<1>1. curr \in Procs /\ curr # Idle /\ curr # NoPcb /\ UNCHANGED <<waiting, sems, semIsFree>>
  <2>1. curr # Idle
    BY SoundCallsDelete, Deletable DEF DeleteCurrent
  <2>2. curr \in Procs /\ curr # NoPcb
    BY IdsDiffer DEF DeleteCurrent, Structured, RestTyped, Placed
  <2> QED
    BY <2>1, <2>2 DEF DeleteCurrent, semVars
<1>2. curr \in Promise!Existing \ {Idle, NoPcb} /\ curr \notin Range(waiting)
  BY <1>1, PlacesAre
<1>3. Promise!Unblocked(curr)
  BY <1>1, <1>2, WaitersAre DEF Promise!Unblocked, Paused, Waiters
<1>4. Promise!Dispatch(Range(ready))
  BY Dispatches DEF DeleteCurrent
<1> QED
  BY <1>1, <1>2, <1>3, <1>4, SemsStay DEF Promise!End, Promise!semaphores

LEMMA DeleteEndsReady ==
  ASSUME SoundCalls, Structured, NEW p \in Procs, DeleteReady(p)  PROVE Promise!End(p)
<1>1. /\ p # Idle /\ p # curr /\ p \in created /\ pcb[p].state = READY
      /\ UNCHANGED <<curr, waiting, sems, semIsFree>>
      /\ ready' = removeFromList(ready, p)
  BY SoundCallsDelete, Deletable DEF DeleteReady, semVars
<1>2. p \notin Range(waiting) /\ IsList(ready, Procs)
  BY <1>1, StatesDiffer DEF Structured, Placed
<1>3. Range(ready') = Range(ready) \ {p}
  BY <1>1, <1>2, RemoveFirstOfList DEF removeFromList
<1>4. p \in Promise!Existing \ {Idle, NoPcb}
  BY <1>1, PlacesAre, IdsDiffer
<1>5. Promise!Unblocked(p)
  BY <1>1, <1>2, WaitersAre DEF Promise!Unblocked, Paused, Waiters
<1> QED
  BY <1>1, <1>3, <1>4, <1>5, SemsStay DEF Promise!End, Promise!semaphores

\* A blocked process taken out of a queue leaves the numbers of the semaphores alone.
LEMMA NumbersStay ==
  ASSUME semIsFree' = semIsFree,
         \A s \in Sems : sems'[s].ctr = sems[s].ctr /\ sems'[s].max = sems[s].max
  PROVE  UNCHANGED <<Open, Units, Largest>>
BY DEF Open, Units, Largest

LEMMA DeleteEndsWaiting ==
  ASSUME SoundCalls, Structured, NEW p \in Procs, DeleteWaiting(p)  PROVE Promise!End(p)
<1>1. /\ p # Idle /\ p # curr /\ p \in created
      /\ pcb[p].state \notin {READY, SWAPPED_READY}
      /\ UNCHANGED <<curr, ready, semIsFree>>
      /\ waiting' = removeFromList(waiting, p)
      /\ sems' = removeFromSem(p)
  BY SoundCallsDelete, Deletable, AlwaysWaitingEvent DEF DeleteWaiting
<1>2. p \notin Range(ready) /\ IsList(waiting, Procs)
  BY <1>1 DEF Structured, Placed
<1>3. Range(waiting') = Range(waiting) \ {p}
  BY <1>1, <1>2, RemoveFirstOfList DEF removeFromList
<1>4. p \in Promise!Existing \ {Idle, NoPcb}
  BY <1>1, PlacesAre, IdsDiffer
<1>5. sems \in [Sems -> Semaphores] /\ QueuesWithout(p, sems, sems')
  BY <1>1, RemovedFromSem DEF Structured, RestTyped, Placed
<1>6. Promise!Unblocked(p)
  BY <1>3, <1>5, Unblocks
<1>7. UNCHANGED <<Open, Units, Largest>>
  BY <1>1, <1>5, RemovedNumbers, NumbersStay
<1> QED
  BY <1>1, <1>2, <1>4, <1>6, <1>7 DEF Promise!End, Promise!semaphores

\* The process that executes makes a call of Kernel.
LEMMA ExecutingCalls ==
  ASSUME Structured, Executing
  PROVE  /\ Promise!Calls
         /\ curr \notin Range(waiting) /\ IsList(waiting, Procs)
         /\ \A s \in Sems : curr \notin Waiters[s]
<1>1. curr \in Procs \ {Idle} /\ curr \notin Range(waiting) /\ IsList(waiting, Procs)
  BY ExecutingProcess DEF Structured, Placed
<1> QED
  BY <1>1, WaitersAre DEF Promise!Calls

\* A process that blocks joins the others.
LEMMA Blocks ==
  ASSUME Structured, Executing, NEW P, Block(P)
  PROVE  Range(waiting') = Range(waiting) \cup {curr} /\ Promise!Dispatch(Range(ready))
<1>1. curr \in Procs /\ curr \notin Range(waiting) /\ IsList(waiting, Procs)
  BY ExecutingProcess DEF Structured, Placed
<1>2. Range(waiting') = Range(waiting) \cup {curr}
  BY <1>1, AppendToList DEF Block
<1>3. Promise!Dispatch(Range(ready))
  BY Dispatches DEF Block
<1> QED
  BY <1>2, <1>3

LEMMA DelayPauses ==
  ASSUME Structured, NEW d \in Delays, ProcessDelay(d)  PROVE Promise!Pause
<1>1. Executing /\ UNCHANGED <<sems, semIsFree>>
  BY DEF ProcessDelay, semVars
<1>2. Range(waiting') = Range(waiting) \cup {curr} /\ Promise!Dispatch(Range(ready))
  BY <1>1, Blocks DEF ProcessDelay
<1>3. Paused' = Paused \cup {curr}
  BY <1>1, <1>2, ExecutingCalls DEF Paused, Waiters
<1> QED
  BY <1>1, <1>2, <1>3, ExecutingCalls, SemsStay DEF Promise!Pause, Promise!semaphores

\* A step that changes the numbers of one created semaphore only.
LEMMA NumbersChange ==
  ASSUME SoundCalls, KernelInv, NEW s \in Sems, MayUse(s),
         UNCHANGED <<curr, ready, waiting, semIsFree>>,
         NEW v, sems' = [sems EXCEPT ![s] = v], v.queue = sems[s].queue, v.max = sems[s].max
  PROVE  /\ s \in Open
         /\ Units[s] = sems[s].ctr /\ Largest[s] = sems[s].max
         /\ Units' = [Units EXCEPT ![s] = v.ctr]
         /\ UNCHANGED <<Paused, Waiters, Open, Largest>>
<1>1. ~semIsFree[s] /\ sems \in [Sems -> Semaphores]
  BY Usable DEF KernelInv, StructureInv, TypeOK
<1>2. /\ sems'[s] = v
      /\ \A t \in Sems : t # s => sems'[t] = sems[t]
  BY <1>1
<1>3. \A t \in Sems : sems'[t].queue = sems[t].queue /\ sems'[t].max = sems[t].max
  BY <1>2
<1>4. Units' = [Units EXCEPT ![s] = v.ctr]
  BY <1>1, <1>2 DEF Units
<1>5. UNCHANGED <<Paused, Waiters, Largest>>
  BY <1>3 DEF Paused, Waiters, Largest
<1> QED
  BY <1>1, <1>4, <1>5 DEF Open, Units, Largest

LEMMA TakesUnit ==
  ASSUME SoundCalls, KernelInv, NEW s \in Sems, SemAccept(s) \/ SemTake(s)
  PROVE  Promise!Take(s)
<1> DEFINE S == sems[s]
<1>1. /\ Executing /\ MayUse(s) /\ S.ctr > 0
      /\ UNCHANGED <<curr, ready, waiting, semIsFree>>
  BY DEF SemAccept, SemTake, schedVars
<1>2. S \in Semaphores /\ S.ctr <= S.max
  BY <1>1, Usable
<1>3. PICK v : /\ v \in {setCtr(S, S.ctr - 1), takeUnit(S)}
               /\ sems' = [sems EXCEPT ![s] = v]
  BY DEF SemAccept, SemTake
<1>4. v.queue = S.queue /\ v.max = S.max /\ v.ctr = S.ctr - 1
  BY <1>1, <1>2, <1>3, CounterChange, Numbers
<1>5. Promise!Calls
  BY <1>1, SameInvariant, ExecutingCalls DEF KernelInv
<1>6. /\ s \in Open /\ Units[s] = S.ctr /\ Units' = [Units EXCEPT ![s] = v.ctr]
      /\ UNCHANGED <<Paused, Waiters, Open, Largest>>
  <2>1. sems' = [sems EXCEPT ![s] = v]
    BY <1>3
  <2> QED
    BY <1>1, <1>4, <2>1, NumbersChange
<1> QED
  BY <1>1, <1>4, <1>5, <1>6 DEF Promise!Take

LEMMA ReleasePuts ==
  ASSUME SoundCalls, KernelInv, NEW s \in Sems, SemRelease(s)
  PROVE  Promise!Put(s) \/ UNCHANGED Promise!vars
<1> DEFINE S == sems[s]
<1>1. /\ Executing /\ MayUse(s) /\ ~hasPend(S)
      /\ UNCHANGED <<curr, ready, waiting, semIsFree>>
      /\ sems' = [sems EXCEPT ![s] = addUnit(S)]
  BY DEF SemRelease, schedVars
<1>2. S \in Semaphores /\ S.ctr <= S.max /\ Structured
  <2>1. Structured
    BY SameInvariant DEF KernelInv
  <2> QED
    BY <1>1, <2>1, Usable
<1>3. /\ addUnit(S).queue = S.queue /\ addUnit(S).max = S.max
      /\ addUnit(S).ctr = IF S.ctr < S.max THEN S.ctr + 1 ELSE S.ctr
  BY <1>2, CounterChange, Numbers
<1>4. Promise!Calls /\ Waiters[s] = {}
  BY <1>1, <1>2, ExecutingCalls, NobodyWaits DEF Waiters
<1>5. /\ s \in Open /\ Units[s] = S.ctr /\ Largest[s] = S.max
      /\ Units' = [Units EXCEPT ![s] = addUnit(S).ctr]
      /\ UNCHANGED <<Paused, Waiters, Open, Largest>>
  BY <1>1, <1>3, NumbersChange
<1>6. CASE S.ctr < S.max
  BY <1>1, <1>3, <1>4, <1>5, <1>6 DEF Promise!Put
<1>7. CASE ~(S.ctr < S.max)
  <2>1. Units' = Units
    BY <1>3, <1>5, <1>7 DEF Units
  <2> QED
    BY <1>1, <1>5, <2>1 DEF Promise!vars
<1> QED
  BY <1>6, <1>7

LEMMA CreateOpens ==
  ASSUME SoundCalls, KernelInv, NEW c \in Counts, NEW m \in Counts, SemCreate(c, m)
  PROVE  \E s \in Sems : Promise!Create(s)
<1> DEFINE s == Head(freeSems)
<1>1. s \in Sems /\ semIsFree[s]
  BY FreeTaken DEF SemCreate
<1>2. /\ semIsFree' = [semIsFree EXCEPT ![s] = FALSE]
      /\ sems' = [sems EXCEPT ![s] = initSem(sems[s], c, m)]
      /\ UNCHANGED <<curr, ready, waiting>>
      /\ Executing
  BY DEF SemCreate, getFreeSem, schedVars
<1>3. c <= m
  <2>1. c \in Nat /\ m \in Nat
    BY CountsAssumption, UINT16Bound DEF UINT16
  <2> QED
    BY <2>1 DEF SemCreate, SoundCalls
<1> HIDE DEF s
<1>4. sems \in [Sems -> Semaphores] /\ semIsFree \in [Sems -> BOOLEAN] /\ Structured
  BY SameInvariant DEF KernelInv, StructureInv, TypeOK
<1>5. /\ initSem(sems[s], c, m).ctr = c /\ initSem(sems[s], c, m).max = m
      /\ initSem(sems[s], c, m).queue = sems[s].queue
  BY <1>1, <1>4 DEF initSem, Semaphores
<1>6. /\ \A t \in Sems : sems'[t].queue = sems[t].queue
      /\ \A t \in Sems : t # s => sems'[t] = sems[t] /\ semIsFree'[t] = semIsFree[t]
      /\ ~semIsFree'[s] /\ sems'[s].ctr = c /\ sems'[s].max = m
  BY <1>1, <1>2, <1>4, <1>5
<1>7. UNCHANGED <<Paused, Waiters>>
  BY <1>2, <1>6 DEF Paused, Waiters
<1>8. s \notin Open /\ Open' = Open \cup {s}
  BY <1>1, <1>6 DEF Open
<1>9. /\ Units' = [Units EXCEPT ![s] = c]
      /\ Largest' = [Largest EXCEPT ![s] = m]
  BY <1>1, <1>6 DEF Units, Largest
<1>10. Promise!Calls
  BY <1>2, <1>4, ExecutingCalls
<1> QED
  BY <1>1, <1>2, <1>3, <1>7, <1>8, <1>9, <1>10 DEF Promise!Create

LEMMA DeleteCloses ==
  ASSUME SoundCalls, KernelInv, NEW s \in Sems, SemDelete(s)
  PROVE  Promise!Delete(s)
<1>1. ~semIsFree[s] /\ ~hasPend(sems[s]) /\ Executing
  BY Usable DEF SemDelete
<1>2. semIsFree' = [semIsFree EXCEPT ![s] = TRUE] /\ UNCHANGED <<curr, ready, waiting, sems>>
  BY <1>1 DEF SemDelete, returnSem, schedVars
<1>3. semIsFree \in [Sems -> BOOLEAN] /\ Structured
  BY SameInvariant DEF KernelInv, StructureInv, TypeOK
<1>4. semIsFree'[s] /\ \A t \in Sems : t # s => semIsFree'[t] = semIsFree[t]
  BY <1>2, <1>3
<1>5. s \in Open /\ Open' = Open \ {s}
  BY <1>1, <1>4 DEF Open
<1>6. Units' = [Units EXCEPT ![s] = 0] /\ Largest' = [Largest EXCEPT ![s] = 0]
  BY <1>2, <1>4 DEF Units, Largest
<1>7. UNCHANGED <<Paused, Waiters>>
  BY <1>2 DEF Paused, Waiters
<1>8. Promise!Calls /\ Waiters[s] = {}
  BY <1>1, <1>3, ExecutingCalls, NobodyWaits DEF Waiters
<1> QED
  BY <1>2, <1>5, <1>6, <1>7, <1>8 DEF Promise!Delete

LEMMA WaitWaits ==
  ASSUME SoundCalls, KernelInv, NEW s \in Sems, NEW d \in Delays, SemWait(s, d)
  PROVE  Promise!Wait(s)
<1> DEFINE S == sems[s]
<1>1. /\ Executing /\ MayUse(s) /\ S.ctr = 0
      /\ UNCHANGED semIsFree
      /\ sems' = [sems EXCEPT ![s] = enqueue(S, curr)]
  BY DEF SemWait
<1>2. Structured
  BY SameInvariant DEF KernelInv
<1>3. ~semIsFree[s] /\ sems \in [Sems -> Semaphores]
  BY <1>1, Usable DEF KernelInv, StructureInv, TypeOK
<1>4. Range(waiting') = Range(waiting) \cup {curr} /\ Promise!Dispatch(Range(ready))
  BY <1>1, <1>2, Blocks DEF SemWait
<1>5. curr \in Procs /\ Promise!Calls /\ curr \notin Range(waiting) /\ \A t \in Sems : curr \notin Waiters[t]
  BY <1>1, <1>2, ExecutingCalls, ExecutingProcess
<1>6. IsList(S.queue, Procs)
  BY <1>2 DEF Structured, Linked
<1>7. /\ enqueue(S, curr).queue = Append(S.queue, curr)
      /\ enqueue(S, curr).ctr = S.ctr /\ enqueue(S, curr).max = S.max
  BY <1>3 DEF enqueue, Semaphores
<1>8. Range(Append(S.queue, curr)) = Range(S.queue) \cup {curr}
  BY <1>5, <1>6, AppendToList DEF Waiters
<1>9. /\ Range(sems'[s].queue) = Range(sems[s].queue) \cup {curr}
      /\ \A t \in Sems : t # s => sems'[t] = sems[t]
      /\ \A t \in Sems : sems'[t].ctr = sems[t].ctr /\ sems'[t].max = sems[t].max
  BY <1>1, <1>3, <1>7, <1>8
<1>10. Waiters' = [Waiters EXCEPT ![s] = @ \cup {curr}]
  BY <1>9 DEF Waiters
<1>11. UNCHANGED Paused
  BY <1>4, <1>5, <1>9 DEF Paused
<1>12. UNCHANGED <<Open, Units, Largest>>
  BY <1>1, <1>9, NumbersStay
<1>13. s \in Open /\ Units[s] = 0
  BY <1>1, <1>3 DEF Open, Units
<1> QED
  BY <1>4, <1>5, <1>10, <1>11, <1>12, <1>13 DEF Promise!Wait, Promise!semaphores

LEMMA WakeHands ==
  ASSUME SoundCalls, KernelInv, NEW s \in Sems, SemWake(s)
  PROVE  Promise!Hand(s)
<1> DEFINE p == Head(sems[s].queue)
<1>1. /\ Executing /\ MayUse(s) /\ hasPend(sems[s])
      /\ UNCHANGED <<curr, semIsFree>>
      /\ sems' = [sems EXCEPT ![s] = dequeue(sems[s])]
      /\ waiting' = removeFromList(waiting, p) /\ ready' = Append(ready, p)
  BY DEF SemWake
<1>2. Structured
  BY SameInvariant DEF KernelInv
<1>3. ~semIsFree[s] /\ sems \in [Sems -> Semaphores]
  BY <1>1, Usable DEF KernelInv, StructureInv, TypeOK
<1>4. IsList(sems[s].queue, Procs) /\ sems[s].queue # <<>>
  BY <1>1, <1>2, EmptySeq DEF Structured, Linked, hasPend
<1>5. /\ p \in Range(sems[s].queue) /\ p \in Procs
      /\ Range(Tail(sems[s].queue)) = Range(sems[s].queue) \ {p}
  BY <1>4, TailOfList
<1> HIDE DEF p
<1>6. /\ dequeue(sems[s]).queue = Tail(sems[s].queue)
      /\ dequeue(sems[s]).ctr = sems[s].ctr /\ dequeue(sems[s]).max = sems[s].max
  BY <1>3 DEF dequeue, Semaphores
<1>7. /\ Range(sems'[s].queue) = Range(sems[s].queue) \ {p}
      /\ \A t \in Sems : t # s => sems'[t] = sems[t]
      /\ \A t \in Sems : sems'[t].ctr = sems[t].ctr /\ sems'[t].max = sems[t].max
  BY <1>1, <1>3, <1>5, <1>6
<1>8. p \in Waiters[s] /\ p \in Range(waiting) /\ \A t \in Sems : t # s => p \notin Waiters[t]
  BY <1>2, <1>5, WaitersAre DEF Waiters
<1>9. /\ Range(waiting') = Range(waiting) \ {p}
      /\ Range(ready') = Range(ready) \cup {p}
  <2>1. IsList(ready, Procs) /\ IsList(waiting, Procs) /\ p \notin Range(ready)
    BY <1>2, <1>8 DEF Structured, Placed
  <2> QED
    BY <1>1, <1>5, <2>1, AppendToList, RemoveFirstOfList DEF removeFromList
<1>10. Waiters' = [Waiters EXCEPT ![s] = @ \ {p}]
  BY <1>7 DEF Waiters
<1>11. UNCHANGED Paused
  <2>1. \A t \in Sems : Range(sems'[t].queue) = Range(sems[t].queue) \ {p}
    BY <1>7, <1>8 DEF Waiters
  <2> QED
    BY <1>5, <1>9, <2>1 DEF Paused
<1>12. UNCHANGED <<Open, Units, Largest>>
  BY <1>1, <1>7, NumbersStay
<1>13. Promise!Calls /\ s \in Open
  BY <1>1, <1>2, <1>3, ExecutingCalls DEF Open
<1> QED
  BY <1>1, <1>8, <1>9, <1>10, <1>11, <1>12, <1>13 DEF Promise!Hand, Promise!semaphores

LEMMA ExpireTimesOut ==
  ASSUME Structured, Expire  PROVE \E p \in Procs : Promise!TimeOut(p)
<1> DEFINE p == waiting[tick]
<1>1. /\ waiting' = RemoveAt(waiting, tick) /\ ready' = Append(ready, p)
      /\ sems' = removeFromSem(p)
      /\ UNCHANGED <<curr, semIsFree>>
      /\ tick \in DOMAIN waiting
  BY AlwaysWaitingEvent DEF Expire
<1>2. tick \in 1..Len(waiting) /\ p \in Range(waiting)
  BY <1>1, TickEntry
<1>3. /\ IsList(waiting, Procs) /\ IsList(ready, Procs) /\ p \notin Range(ready) /\ p \in Procs
  BY <1>2, WaitersAre DEF Structured, Placed
<1>4. Range(waiting') = Range(waiting) \ {p}
  BY <1>1, <1>2, <1>3, RemoveAtOfList
<1> HIDE DEF p
<1>5. Range(ready') = Range(ready) \cup {p}
  BY <1>1, <1>3, AppendToList
<1>6. sems \in [Sems -> Semaphores] /\ QueuesWithout(p, sems, sems')
  BY <1>1, <1>3, RemovedFromSem DEF Structured, RestTyped, Placed
<1>7. Promise!Unblocked(p)
  BY <1>4, <1>6, Unblocks
<1>8. UNCHANGED <<Open, Units, Largest>>
  BY <1>1, <1>6, RemovedNumbers, NumbersStay
<1>9. p \in Promise!Blocked
  BY <1>2, PlacesAre
<1> QED
  BY <1>1, <1>3, <1>5, <1>7, <1>8, <1>9 DEF Promise!TimeOut, Promise!semaphores

\* The end of a tick gives the CPU to the next ready process, or changes nothing.
LEMMA TickYields ==
  ASSUME Structured, EndTick  PROVE Promise!Yield \/ UNCHANGED Promise!vars
<1> DEFINE P == [pcb EXCEPT ![curr] = decDelay(@)]
<1>1. /\ curr # NoPcb /\ IsList(ready, Procs)
      /\ curr \in Procs /\ curr \notin Range(ready)
      /\ UNCHANGED <<waiting, sems, semIsFree>>
  <2>1. tick # 0
    <3>1. waiting \in Seq(Procs)
      BY DEF Structured, Placed, IsList
    <3> QED
      BY <3>1, LenProperties DEF EndTick
  <2> QED
    BY <2>1 DEF Structured, RestTyped, Placed, EndTick, semVars
<1>2. UNCHANGED <<Paused, Waiters, Open, Units, Largest>>
  BY <1>1, SemsStay DEF Paused
<1>3. CASE UNCHANGED <<curr, ready>>
  BY <1>2, <1>3 DEF Promise!vars
<1>4. CASE curr' = sched(curr, ready, P).curr /\ ready' = sched(curr, ready, P).ready
  <2>1. CASE ready = <<>>
    <3>1. curr' = curr /\ ready' = <<>>
      BY <1>1, <1>4, <2>1 DEF sched, SchedNone
    <3> QED
      BY <1>3, <2>1, <3>1
  <2>2. CASE ready # <<>>
    <3>1. curr' = Head(ready) /\ ready' = IF curr = Idle THEN Tail(ready) ELSE Append(Tail(ready), curr)
      BY <1>1, <1>4, <2>2 DEF sched, SchedNext
    <3>2. /\ IsList(Tail(ready), Procs) /\ Head(ready) \in Range(ready)
          /\ Range(Tail(ready)) = Range(ready) \ {Head(ready)}
      BY <1>1, <2>2, TailOfList
    <3>3. Range(Append(Tail(ready), curr)) = Range(Tail(ready)) \cup {curr}
      BY <1>1, <3>2, AppendToList
    <3>4. Range(ready') = (Range(ready) \ {curr'}) \cup ({curr} \ {Idle})
      BY <3>1, <3>2, <3>3
    <3> QED
      BY <1>1, <1>2, <3>1, <3>2, <3>4 DEF Promise!Yield, Promise!semaphores
  <2> QED
    BY <2>1, <2>2
<1> QED
  BY <1>3, <1>4 DEF EndTick

LEMMA InitMaps ==
  ASSUME Init  PROVE Promise!Init
<1>1. /\ curr = NoPcb /\ ready = <<>> /\ waiting = <<>>
      /\ \A s \in Sems : semIsFree[s] /\ sems[s].queue = <<>>
  BY DEF Init, SchedInit, SemInit
<1>2. Range(<<>>) = {}
  BY EmptyList
<1> QED
  BY <1>1, <1>2 DEF Promise!Init, Paused, Waiters, Open, Units, Largest

LEMMA StepMaps ==
  ASSUME SoundCalls, KernelInv, [Next]_vars  PROVE [Promise!Next]_(Promise!vars)
<1>1. Structured
  BY SameInvariant DEF KernelInv
<1>2. CASE Start
  BY <1>1, <1>2, StartBoots DEF Promise!Next
<1>3. CASE ProcessCreate
  BY <1>1, <1>3, CreateBegins DEF Promise!Next
<1>4. CASE DeleteCurrent
  BY <1>1, <1>4, DeleteEndsCurrent DEF Promise!Next
<1>5. ASSUME NEW p \in Procs, DeleteReady(p) \/ DeleteWaiting(p)
      PROVE  Promise!Next
  BY <1>1, <1>5, DeleteEndsReady, DeleteEndsWaiting DEF Promise!Next
<1>6. ASSUME NEW d \in Delays, ProcessDelay(d)
      PROVE  Promise!Next
  BY <1>1, <1>6, DelayPauses DEF Promise!Next
<1>7. ASSUME NEW c \in Counts, NEW m \in Counts, SemCreate(c, m)
      PROVE  Promise!Next
  BY <1>7, CreateOpens DEF Promise!Next
<1>8. ASSUME NEW s \in Sems,
             \/ SemDelete(s) \/ SemAccept(s) \/ SemTake(s) \/ SemWake(s)
             \/ \E d \in Delays : SemWait(s, d)
      PROVE  Promise!Next
  BY <1>8, DeleteCloses, TakesUnit, WaitWaits, WakeHands DEF Promise!Next
<1>9. ASSUME NEW s \in Sems, SemRelease(s)
      PROVE  [Promise!Next]_(Promise!vars)
  BY <1>9, ReleasePuts DEF Promise!Next
<1>10. CASE Expire
  BY <1>1, <1>10, ExpireTimesOut DEF Promise!Next
<1>11. CASE EndTick
  BY <1>1, <1>11, TickYields DEF Promise!Next
<1>12. CASE ProcessCreateFails \/ TimeTick \/ SkipOrCount \/ UNCHANGED vars
  <2>1. UNCHANGED <<curr, ready, waiting, sems, semIsFree>>
    BY <1>12 DEF ProcessCreateFails, TimeTick, SkipOrCount, vars, schedVars, semVars
  <2> QED
    BY <2>1, SemsStay DEF Promise!vars, Paused
<1> QED
  BY <1>2, <1>3, <1>4, <1>5, <1>6, <1>7, <1>8, <1>9, <1>10, <1>11, <1>12 DEF Next, Tick

\* The kernel implements the abstract one: through its lists, blocks, pools and clock,
\* processes are where module Kernel has them, and semaphores are numbers of units.
THEOREM PromiseHolds == ASSUME SoundCalls  PROVE Spec => PromiseKept
<1>1. Init => Promise!Init
  BY InitMaps
<1>2. KernelInv /\ [Next]_vars => [Promise!Next]_(Promise!vars)
  BY StepMaps
<1> QED
  BY <1>1, <1>2, KernelInvHolds, PTL DEF Spec, PromiseKept, Promise!Spec
=============================================================================
