---------------------------- MODULE PagingProofs ----------------------------
(***************************************************************************)
(* Proofs about Paging, for any number of processes, pages, frames and     *)
(* swap pages.  The operators of Paging take a memory to a memory: one     *)
(* lemma says what each leaves of the invariant, and the actions combine   *)
(* them.                                                                   *)
(***************************************************************************)
EXTENDS Paging, SequenceTheorems, TLAPS

\* The page table and the items agree about every item but `i', which is on its way
\* from one page to another; NoItem is nobody's.
Agrees(M, i) ==
  /\ \A k \in Keys :
        M.table[k] # NoItem => /\ M.table[k] \in HostedPages + 1..M.used
                               /\ M.table[k] # i
                               /\ M.item[M.table[k]] = k
                               /\ M.pti[k].inMemory
                               /\ M.pti[k].frame = M.table[k]
  /\ \A j \in HostedPages + 1..M.used :
        j # i => M.item[j] \in Keys /\ M.table[M.item[j]] = j

\* SwapOwned of the memory `M'.
Owned(M) ==
  /\ \A k \in Keys : hasSwapped(M.pti[k]) => M.pti[k].swapPage < M.swapAlloced
  /\ \A k \in Keys : M.pti[k].swapped => hasSwapped(M.pti[k])
  /\ \A k, l \in Keys :
        hasSwapped(M.pti[k]) /\ M.pti[k].swapPage = M.pti[l].swapPage => k = l

\* A page in memory is in a frame that is in use and not the operating system's, a
\* page is in memory or swapped out, not both; pages are swapped out only when all
\* frames are in use, and nothing was put in unused frames.
Framed(M) ==
  /\ \A k \in Keys : M.pti[k].frame \notin Hosted
  /\ \A k \in Keys : M.pti[k].inMemory => M.pti[k].frame \in 1..M.used /\ ~M.pti[k].swapped
  /\ \A k \in Keys : hasSwapped(M.pti[k]) => M.used = Capacity
  /\ \A i \in Items : i > M.used => M.frames[i] = Clean

GoodBut(M, i) == M \in Memories /\ Agrees(M, i) /\ Owned(M) /\ Framed(M)
Good(M) == GoodBut(M, NoItem)

\* From `M' to `N', pages other than `k' stay in memory or leave it, ...
NoneEnters(M, N, k) ==
  \A j \in Keys : j # k /\ N.pti[j].inMemory => M.pti[j].inMemory

\* ... and, unless a page is dropped, all pages keep what they hold.
NoneDropped(M) == \A k \in Keys : ~Dropped(M, k)
SameHeld(M, N) == \A k \in Keys : Held(N, k) = Held(M, k)
Keeps(M, N) == NoneDropped(N) => NoneDropped(M) /\ SameHeld(M, N)
-----------------------------------------------------------------------------
(* The LRU list *)

LEMMA PushType ==
  ASSUME NEW L \in Lists, NEW i \in Items
  PROVE  push(L, i) \in Lists
<1>1. L.head \in Items /\ L.next \in Links /\ L.pre \in Links
  BY DEF Lists
<1>2. [L.next EXCEPT ![i] = L.head] \in Links
  BY <1>1 DEF Links
<1>3. [L.pre EXCEPT ![L.head] = i] \in Links
  BY <1>1 DEF Links
<1> QED
  BY <1>1, <1>2, <1>3 DEF push, Lists

LEMMA UsedPageType ==
  ASSUME NEW L \in Lists, NEW i \in Items
  PROVE  usedPage(L, i) \in Lists
<1> DEFINE unlinked == IF L.pre[i] = NoItem THEN L.next
                       ELSE [L.next EXCEPT ![L.pre[i]] = L.next[i]]
           after    == unlinked[i]
           joined   == IF after = NoItem THEN L.pre
                       ELSE [L.pre EXCEPT ![after] = L.pre[i]]
<1>1. L.head \in Items /\ L.next \in Links /\ L.pre \in Links
  BY DEF Lists
<1>2. unlinked \in Links
  BY <1>1 DEF Links
<1>3. joined \in Links
  BY <1>1 DEF Links
<1>4. [unlinked EXCEPT ![i] = L.head] \in Links
  <2> HIDE DEF unlinked
  <2> QED  BY <1>1, <1>2 DEF Links
<1>5. (IF L.head = NoItem THEN joined ELSE [joined EXCEPT ![L.head] = i]) \in Links
  <2> HIDE DEF joined
  <2> QED  BY <1>1, <1>3 DEF Links
<1>6. usedPage(L, i) = [head |-> i,
                        next |-> [unlinked EXCEPT ![i] = L.head],
                        pre  |-> IF L.head = NoItem THEN joined
                                 ELSE [joined EXCEPT ![L.head] = i]]
  BY DEF usedPage
<1> HIDE DEF unlinked, joined
<1> QED
  BY <1>4, <1>5, <1>6 DEF Lists
-----------------------------------------------------------------------------
(* Operations on the memory: the fields they leave *)

LEMMA Fields ==
  ASSUME NEW M \in Memories
  PROVE  /\ M.pti \in [Keys -> ProcessItems]
         /\ M.table \in [Keys -> Items \cup {NoItem}]
         /\ M.item \in [Items -> Keys \cup {NoKey}]
         /\ M.used \in HostedPages..Capacity
         /\ M.lru \in Lists
         /\ M.frames \in [Items -> Data]
         /\ M.swap \in [Swaps -> Data]
         /\ M.swapAlloced \in 0..SwapSpacePage
  BY DEF Memories

\* A record of memories is determined by its fields.
LEMMA Built ==
  ASSUME NEW pt \in [Keys -> ProcessItems],
         NEW table \in [Keys -> Items \cup {NoItem}],
         NEW item \in [Items -> Keys \cup {NoKey}],
         NEW used \in HostedPages..Capacity,
         NEW lru \in Lists,
         NEW frames \in [Items -> Data],
         NEW swap \in [Swaps -> Data],
         NEW swapAlloced \in 0..SwapSpacePage
  PROVE  [pti |-> pt, table |-> table, item |-> item, used |-> used, lru |-> lru,
          frames |-> frames, swap |-> swap, swapAlloced |-> swapAlloced] \in Memories
  BY DEF Memories

LEMMA SwapOutFields ==
  ASSUME NEW M \in Memories, NEW k \in Keys,
         M.swapAlloced # SwapSpacePage
  PROVE  swapOutMemory(M, k) =
           [pti    |-> [M.pti EXCEPT ![k] = [@ EXCEPT !.swapPage = M.swapAlloced,
                                                      !.swapped = TRUE,
                                                      !.inMemory = FALSE]],
            table  |-> M.table,
            item   |-> M.item,
            used   |-> M.used,
            lru    |-> M.lru,
            frames |-> [M.frames EXCEPT ![M.pti[k].frame] = Clean],
            swap   |-> [M.swap EXCEPT ![M.swapAlloced] = M.frames[M.pti[k].frame]],
            swapAlloced |-> M.swapAlloced + 1]
  BY DEF Memories, swapOutMemory

LEMMA UpdateAllFields ==
  ASSUME NEW M \in Memories, NEW k \in Keys, NEW i \in Items
  PROVE  updateAll(M, k, i) =
           [pti    |-> [M.pti EXCEPT ![k] = [@ EXCEPT !.frame = i,
                                                      !.swapped = FALSE,
                                                      !.inMemory = TRUE]],
            table  |-> M.table,
            item   |-> M.item,
            used   |-> M.used,
            lru    |-> M.lru,
            frames |-> [M.frames EXCEPT ![i] = IF M.pti[k].swapped
                                               THEN M.swap[M.pti[k].swapPage] ELSE @],
            swap   |-> M.swap,
            swapAlloced |-> M.swapAlloced]
<1> DEFINE content == IF M.pti[k].swapped THEN M.swap[M.pti[k].swapPage] ELSE M.frames[i]
           entry   == [M.pti[k] EXCEPT !.frame = i, !.swapped = FALSE, !.inMemory = TRUE]
           N       == [M EXCEPT !.frames[i] = content]
<1>1. updateAll(M, k, i) = [N EXCEPT !.pti[k] = entry]
  BY DEF Memories, updateAll
<1>2. [M.frames EXCEPT ![i] = IF M.pti[k].swapped THEN M.swap[M.pti[k].swapPage] ELSE @]
        = [M.frames EXCEPT ![i] = content]
  OBVIOUS
<1> HIDE DEF content, entry
<1>3. N = [pti |-> M.pti, table |-> M.table, item |-> M.item, used |-> M.used, lru |-> M.lru,
           frames |-> [M.frames EXCEPT ![i] = content],
           swap |-> M.swap, swapAlloced |-> M.swapAlloced]
  BY DEF Memories
<1> HIDE DEF N
<1>4. [N EXCEPT !.pti[k] = entry]
        = [pti |-> [M.pti EXCEPT ![k] = entry],
           table |-> M.table, item |-> M.item, used |-> M.used, lru |-> M.lru,
           frames |-> [M.frames EXCEPT ![i] = content],
           swap |-> M.swap, swapAlloced |-> M.swapAlloced]
  BY <1>3
<1> QED
  BY <1>1, <1>2, <1>4 DEF entry

LEMMA AssignFields ==
  ASSUME NEW M \in Memories, NEW k \in Keys, NEW i \in Items, NEW L \in Lists
  PROVE  [M EXCEPT !.item[i] = k, !.table[k] = i, !.lru = L] =
           [pti    |-> M.pti,
            table  |-> [M.table EXCEPT ![k] = i],
            item   |-> [M.item EXCEPT ![i] = k],
            used   |-> M.used,
            lru    |-> L,
            frames |-> M.frames,
            swap   |-> M.swap,
            swapAlloced |-> M.swapAlloced]
<1> DEFINE N == [M EXCEPT !.item[i] = k]
           O == [N EXCEPT !.table[k] = i]
<1>1. [M EXCEPT !.item[i] = k, !.table[k] = i, !.lru = L] = [O EXCEPT !.lru = L]
  OBVIOUS
<1>2. N = [pti |-> M.pti, table |-> M.table, item |-> [M.item EXCEPT ![i] = k],
           used |-> M.used, lru |-> M.lru, frames |-> M.frames,
           swap |-> M.swap, swapAlloced |-> M.swapAlloced]
  BY DEF Memories
<1> HIDE DEF N
<1>3. O = [pti |-> M.pti, table |-> [M.table EXCEPT ![k] = i],
           item |-> [M.item EXCEPT ![i] = k],
           used |-> M.used, lru |-> M.lru, frames |-> M.frames,
           swap |-> M.swap, swapAlloced |-> M.swapAlloced]
  BY <1>2
<1> HIDE DEF O
<1> QED
  BY <1>1, <1>3

\* The changes of one field.
LEMMA FieldChanges ==
  ASSUME NEW M \in Memories
  PROVE  /\ \A k \in Keys : [M EXCEPT !.table[k] = NoItem] =
              [pti |-> M.pti, table |-> [M.table EXCEPT ![k] = NoItem], item |-> M.item,
               used |-> M.used, lru |-> M.lru, frames |-> M.frames,
               swap |-> M.swap, swapAlloced |-> M.swapAlloced]
         /\ [M EXCEPT !.used = @ + 1] =
              [pti |-> M.pti, table |-> M.table, item |-> M.item,
               used |-> M.used + 1, lru |-> M.lru, frames |-> M.frames,
               swap |-> M.swap, swapAlloced |-> M.swapAlloced]
         /\ \A L \in Lists : [M EXCEPT !.lru = L] =
              [pti |-> M.pti, table |-> M.table, item |-> M.item,
               used |-> M.used, lru |-> L, frames |-> M.frames,
               swap |-> M.swap, swapAlloced |-> M.swapAlloced]
  BY DEF Memories
-----------------------------------------------------------------------------
(* Operations on the memory: what they leave of the invariant *)

LEMMA TakenOut ==
  ASSUME NEW M, NEW N, NEW k \in Keys,
         Agrees(M, NoItem), M.table[k] # NoItem, M.used \in Nat,
         N.table[k] = NoItem, N.item = M.item, N.used = M.used,
         \A j \in Keys : j # k => N.table[j] = M.table[j] /\ N.pti[j] = M.pti[j]
  PROVE  Agrees(N, M.table[k])
<1>1. M.item[M.table[k]] = k
  BY DEF Agrees
<1>2. ASSUME NEW j \in Keys, N.table[j] # NoItem
      PROVE  /\ N.table[j] \in HostedPages + 1..N.used
             /\ N.table[j] # M.table[k]
             /\ N.item[N.table[j]] = j
             /\ N.pti[j].inMemory
             /\ N.pti[j].frame = N.table[j]
  <2>1. j # k /\ N.table[j] = M.table[j] /\ N.pti[j] = M.pti[j]
    BY <1>2
  <2>2. /\ M.table[j] \in HostedPages + 1..M.used
        /\ M.item[M.table[j]] = j
        /\ M.pti[j].inMemory
        /\ M.pti[j].frame = M.table[j]
    BY <1>2, <2>1 DEF Agrees
  <2> QED
    BY <1>1, <2>1, <2>2
<1>3. ASSUME NEW j \in HostedPages + 1..N.used, j # M.table[k]
      PROVE  N.item[j] \in Keys /\ N.table[N.item[j]] = j
  <2>1. j # NoItem
    BY FramesAssumption DEF NoItem
  <2>2. M.item[j] \in Keys /\ M.table[M.item[j]] = j
    BY <2>1 DEF Agrees
  <2> QED
    BY <1>3, <2>2
<1> QED
  BY <1>2, <1>3 DEF Agrees

LEMMA EvictGood ==
  ASSUME NEW M, Good(M), NEW k \in Keys, M.table[k] # NoItem, M.used = Capacity
  PROVE  LET N == evict(M, k)
         IN  /\ GoodBut(N, M.table[k])
             /\ N.table = [M.table EXCEPT ![k] = NoItem]
             /\ N.used = M.used
             /\ \A j \in Keys : j # k => N.pti[j] = M.pti[j]
             /\ NoneEnters(M, N, k)
             /\ Keeps(M, N)
             /\ NoneDropped(N) => N.frames[M.table[k]] = Clean
<1> DEFINE i == M.table[k]
           N == evict(M, k)
<1>1. /\ M \in Memories /\ Agrees(M, NoItem) /\ Owned(M) /\ Framed(M)
  BY DEF Good, GoodBut
<1>2. /\ i \in HostedPages + 1..M.used /\ M.item[i] = k
      /\ M.pti[k].inMemory /\ M.pti[k].frame = i
  BY <1>1 DEF Agrees
<1>3. i \in Items
  BY <1>1, <1>2, Fields, FramesAssumption DEF Items
<1>4. /\ M.pti \in [Keys -> ProcessItems]
      /\ M.table \in [Keys -> Items \cup {NoItem}]
      /\ M.item \in [Items -> Keys \cup {NoKey}]
      /\ M.used \in HostedPages..Capacity
      /\ M.lru \in Lists
      /\ M.frames \in [Items -> Data]
      /\ M.swap \in [Swaps -> Data]
      /\ M.swapAlloced \in 0..SwapSpacePage
  BY <1>1, Fields
<1>5. CASE hasSwapped(M.pti[k]) \/ M.swapAlloced = SwapSpacePage
  <2>1. N = [M EXCEPT !.table[k] = NoItem]
    BY <1>5 DEF evict, swapOutMemory
  <2>2. N = [pti |-> M.pti, table |-> [M.table EXCEPT ![k] = NoItem], item |-> M.item,
             used |-> M.used, lru |-> M.lru, frames |-> M.frames,
             swap |-> M.swap, swapAlloced |-> M.swapAlloced]
    BY <2>1, <1>1, FieldChanges
  <2>3. [M.table EXCEPT ![k] = NoItem] \in [Keys -> Items \cup {NoItem}]
    BY <1>1, Fields
  <2>4. N \in Memories
    BY <2>2, <2>3, <1>4, Built
  <2> HIDE DEF N
  <2>5. Agrees(N, i)
    <3>1. N.table[k] = NoItem /\ \A j \in Keys : j # k => N.table[j] = M.table[j]
      BY <2>2, <1>4
    <3> QED
      BY <2>2, <3>1, <1>1, <1>4, TakenOut, FramesAssumption
  <2>6. Owned(N)
    BY <2>2, <1>1 DEF Owned
  <2>7. Framed(N)
    BY <2>2, <1>1 DEF Framed
  <2>8. N.table[k] = NoItem /\ N.pti[k].inMemory
    BY <2>2, <1>1, <1>2, Fields
  <2>9. ~NoneDropped(N)
    BY <2>8 DEF NoneDropped, Dropped
  <2> QED
    BY <2>2, <2>4, <2>5, <2>6, <2>7, <2>9 DEF GoodBut, Keeps, NoneEnters, N
<1>6. CASE ~hasSwapped(M.pti[k]) /\ M.swapAlloced # SwapSpacePage
  <2> DEFINE s == M.swapAlloced
             entry == [M.pti[k] EXCEPT !.swapPage = s, !.swapped = TRUE, !.inMemory = FALSE]
             O == swapOutMemory(M, k)
  <2>1. N = [O EXCEPT !.table[k] = NoItem]
    BY <1>6 DEF evict
  <2>2. O = [pti |-> [M.pti EXCEPT ![k] = entry], table |-> M.table, item |-> M.item,
             used |-> M.used, lru |-> M.lru, frames |-> [M.frames EXCEPT ![i] = Clean],
             swap |-> [M.swap EXCEPT ![s] = M.frames[i]], swapAlloced |-> s + 1]
    BY <1>1, <1>2, <1>6, SwapOutFields
  <2>3. s \in 0..SwapSpacePage /\ s # SwapSpacePage
    BY <1>1, <1>6, Fields
  <2>4. s \in Swaps /\ s + 1 \in 0..SwapSpacePage /\ s # NoSwap
    BY <2>3, SwapAssumption DEF Swaps, NoSwap
  <2>5. M.pti[k] \in ProcessItems
    BY <1>1, Fields
  <2>6. /\ entry \in ProcessItems
        /\ entry.frame = i /\ entry.swapPage = s
        /\ entry.swapped = TRUE /\ entry.inMemory = FALSE
    BY <2>4, <2>5, <1>2 DEF ProcessItems
  <2> HIDE DEF entry
  <2>7. [M.pti EXCEPT ![k] = entry] \in [Keys -> ProcessItems]
    BY <2>6, <1>1, Fields
  <2>8. [M.frames EXCEPT ![i] = Clean] \in [Items -> Data]
    BY <1>1, Fields DEF Data
  <2>9. [M.swap EXCEPT ![s] = M.frames[i]] \in [Swaps -> Data]
    BY <1>1, <1>3, <2>4, Fields
  <2>10. O \in Memories
    BY <2>2, <2>4, <2>7, <2>8, <2>9, <1>4, Built, SMTT(30)
  <2> HIDE DEF O
  <2>11. N = [pti |-> [M.pti EXCEPT ![k] = entry],
              table |-> [M.table EXCEPT ![k] = NoItem], item |-> M.item,
              used |-> M.used, lru |-> M.lru, frames |-> [M.frames EXCEPT ![i] = Clean],
              swap |-> [M.swap EXCEPT ![s] = M.frames[i]], swapAlloced |-> s + 1]
    BY <2>1, <2>2, <2>10, FieldChanges, SMTT(30)
  <2>12. [M.table EXCEPT ![k] = NoItem] \in [Keys -> Items \cup {NoItem}]
    BY <1>1, Fields
  <2>13. N \in Memories
    <3> DEFINE pt == [M.pti EXCEPT ![k] = entry]
               tb == [M.table EXCEPT ![k] = NoItem]
               fr == [M.frames EXCEPT ![i] = Clean]
               sw == [M.swap EXCEPT ![s] = M.frames[i]]
    <3>1. N = [pti |-> pt, table |-> tb, item |-> M.item, used |-> M.used, lru |-> M.lru,
               frames |-> fr, swap |-> sw, swapAlloced |-> s + 1]
      BY <2>11
    <3>2. /\ pt \in [Keys -> ProcessItems] /\ tb \in [Keys -> Items \cup {NoItem}]
          /\ fr \in [Items -> Data] /\ sw \in [Swaps -> Data]
      BY <2>7, <2>8, <2>9, <2>12
    <3> HIDE DEF pt, tb, fr, sw, N, i, s
    <3> QED
      BY <3>1, <3>2, <2>4, <1>4, Built
  <2> HIDE DEF N, i, s
  <2>14. /\ N.pti[k] = entry
         /\ \A j \in Keys : j # k => N.pti[j] = M.pti[j]
         /\ N.table[k] = NoItem
         /\ \A j \in Keys : j # k => N.table[j] = M.table[j]
         /\ N.item = M.item /\ N.used = M.used
         /\ N.frames[i] = Clean
         /\ \A j \in Items : j # i => N.frames[j] = M.frames[j]
         /\ N.swap[s] = M.frames[i]
         /\ \A j \in Swaps : j # s => N.swap[j] = M.swap[j]
         /\ N.swapAlloced = s + 1
    BY <2>11, <1>1, <1>3, <2>4, Fields
  <2>15. Agrees(N, i)
    BY <2>14, <1>1, <1>4, TakenOut, FramesAssumption DEF i
  <2>16. Owned(N)
    <3>1. \A j \in Keys : hasSwapped(M.pti[j]) => M.pti[j].swapPage < s
      BY <1>1 DEF Owned, s
    <3>2. \A j \in Keys : M.pti[j].swapPage # s
      BY <3>1, <2>3, <2>4, SwapAssumption DEF hasSwapped, NoSwap
    <3>3. \A j \in Keys : M.pti[j].swapPage \in Nat
      BY <1>1, Fields, SwapAssumption DEF ProcessItems, Swaps, NoSwap
    <3>4. \A j \in Keys : hasSwapped(N.pti[j]) => N.pti[j].swapPage < s + 1
      BY <2>3, <2>6, <2>14, <3>1, <3>3, SwapAssumption
    <3>5. \A j \in Keys : N.pti[j].swapped => hasSwapped(N.pti[j])
      BY <1>1, <2>4, <2>6, <2>14 DEF Owned, hasSwapped
    <3>6. \A j, l \in Keys :
             hasSwapped(N.pti[j]) /\ N.pti[j].swapPage = N.pti[l].swapPage => j = l
      BY <1>1, <2>6, <2>14, <3>2 DEF Owned
    <3> QED
      BY <2>14, <3>4, <3>5, <3>6 DEF Owned
  <2>17. Framed(N)
    BY <1>1, <1>2, <2>6, <2>14 DEF Framed
  <2>18. Keeps(M, N)
    <3>1. SUFFICES ASSUME NoneDropped(N) PROVE NoneDropped(M) /\ SameHeld(M, N)
      BY DEF Keeps
    <3>2. NoneDropped(M)
      BY <3>1, <2>14, <1>3 DEF NoneDropped, Dropped, i, Items, NoItem
    <3>3. Held(N, k) = Held(M, k)
      BY <2>6, <2>14, <1>2 DEF Held
    <3>4. ASSUME NEW j \in Keys, j # k
          PROVE  Held(N, j) = Held(M, j)
      <4>1. CASE M.pti[j].inMemory
        <5>1. M.table[j] # NoItem
          BY <3>2, <4>1 DEF NoneDropped, Dropped
        <5>2. M.pti[j].frame = M.table[j] /\ M.item[M.table[j]] = j
          BY <5>1, <1>1 DEF Agrees
        <5>3. M.pti[j].frame # i
          BY <5>2, <1>2, <3>4
        <5>4. M.pti[j].frame \in Items
          BY <5>1, <5>2, <1>1, Fields
        <5> QED
          BY <4>1, <5>3, <5>4, <2>14, <3>4 DEF Held
      <4>2. CASE ~M.pti[j].inMemory /\ M.pti[j].swapped
        <5>1. hasSwapped(M.pti[j])
          BY <4>2, <1>1 DEF Owned
        <5>2. M.pti[j].swapPage < s /\ M.pti[j].swapPage \in Swaps
          BY <5>1, <1>1, Fields DEF Owned, s, hasSwapped, ProcessItems
        <5>3. M.pti[j].swapPage # s
          BY <5>2, <2>3
        <5> QED
          BY <4>2, <5>2, <5>3, <2>14, <3>4 DEF Held
      <4>3. CASE ~M.pti[j].inMemory /\ ~M.pti[j].swapped
        BY <4>3, <2>14, <3>4 DEF Held
      <4> QED
        BY <4>1, <4>2, <4>3
    <3> QED
      BY <3>2, <3>3, <3>4 DEF SameHeld
  <2> QED
    BY <2>11, <2>13, <2>14, <2>15, <2>16, <2>17, <2>18 DEF GoodBut, NoneEnters, i, N
<1> QED
  BY <1>5, <1>6

LEMMA PutIn ==
  ASSUME NEW M, NEW N, NEW k \in Keys, NEW i \in HostedPages + 1..M.used,
         Agrees(M, i), M.table[k] = NoItem,
         N.used = M.used, N.table[k] = i, N.item[i] = k,
         N.pti[k].inMemory, N.pti[k].frame = i,
         \A j \in Keys : j # k => N.table[j] = M.table[j] /\ N.pti[j] = M.pti[j],
         \A j \in HostedPages + 1..M.used : j # i => N.item[j] = M.item[j]
  PROVE  Agrees(N, NoItem)
<1>1. i # NoItem
  BY FramesAssumption DEF NoItem
<1>2. ASSUME NEW j \in Keys, N.table[j] # NoItem
      PROVE  /\ N.table[j] \in HostedPages + 1..N.used
             /\ N.item[N.table[j]] = j
             /\ N.pti[j].inMemory
             /\ N.pti[j].frame = N.table[j]
  <2>1. CASE j = k
    BY <2>1
  <2>2. CASE j # k
    <3>1. N.table[j] = M.table[j] /\ N.pti[j] = M.pti[j]
      BY <2>2
    <3>2. /\ M.table[j] \in HostedPages + 1..M.used
          /\ M.table[j] # i
          /\ M.item[M.table[j]] = j
          /\ M.pti[j].inMemory
          /\ M.pti[j].frame = M.table[j]
      BY <1>2, <3>1 DEF Agrees
    <3> QED
      BY <3>1, <3>2
  <2> QED
    BY <2>1, <2>2
<1>3. ASSUME NEW j \in HostedPages + 1..N.used
      PROVE  N.item[j] \in Keys /\ N.table[N.item[j]] = j
  <2>1. CASE j = i
    BY <2>1
  <2>2. CASE j # i
    <3>1. M.item[j] \in Keys /\ M.table[M.item[j]] = j
      BY <2>2 DEF Agrees
    <3>2. j # NoItem
      BY FramesAssumption DEF NoItem
    <3>3. M.item[j] # k
      BY <3>1, <3>2
    <3> QED
      BY <2>2, <3>1, <3>3
  <2> QED
    BY <2>1, <2>2
<1> QED
  BY <1>2, <1>3 DEF Agrees

LEMMA AssignGood ==
  ASSUME NEW M, NEW k \in Keys, NEW i \in HostedPages + 1..M.used, NEW L \in Lists,
         GoodBut(M, i), M.table[k] = NoItem, ~M.pti[k].inMemory
  PROVE  LET N == assign(M, k, i, L)
         IN  /\ Good(N)
             /\ N.pti[k].inMemory
             /\ N.table[k] = i
             /\ NoneEnters(M, N, k)
             /\ (NoneDropped(M) => M.frames[i] = Clean) => Keeps(M, N)
<1> DEFINE O == [M EXCEPT !.item[i] = k, !.table[k] = i, !.lru = L]
           N == assign(M, k, i, L)
           entry == [O.pti[k] EXCEPT !.frame = i, !.swapped = FALSE, !.inMemory = TRUE]
           content == IF M.pti[k].swapped THEN M.swap[M.pti[k].swapPage] ELSE M.frames[i]
<1>1. M \in Memories /\ Agrees(M, i) /\ Owned(M) /\ Framed(M)
  BY DEF GoodBut
<1>2. /\ M.pti \in [Keys -> ProcessItems]
      /\ M.table \in [Keys -> Items \cup {NoItem}]
      /\ M.item \in [Items -> Keys \cup {NoKey}]
      /\ M.used \in HostedPages..Capacity
      /\ M.frames \in [Items -> Data]
      /\ M.swap \in [Swaps -> Data]
      /\ M.swapAlloced \in 0..SwapSpacePage
  BY <1>1, Fields
<1>3. i \in Items /\ i \in 1..M.used /\ i \notin Hosted
  BY <1>2, FramesAssumption DEF Items, Hosted
<1>4. O = [pti |-> M.pti, table |-> [M.table EXCEPT ![k] = i],
           item |-> [M.item EXCEPT ![i] = k], used |-> M.used, lru |-> L,
           frames |-> M.frames, swap |-> M.swap, swapAlloced |-> M.swapAlloced]
  BY <1>1, <1>3, AssignFields
<1>5. /\ [M.table EXCEPT ![k] = i] \in [Keys -> Items \cup {NoItem}]
      /\ [M.item EXCEPT ![i] = k] \in [Items -> Keys \cup {NoKey}]
  BY <1>2, <1>3
<1>6. O \in Memories
  BY <1>2, <1>4, <1>5, Built
<1>7. N = updateAll(O, k, i)
  BY DEF assign
<1> HIDE DEF O
<1>8. M.pti[k].swapped => M.pti[k].swapPage \in Swaps
  <2>1. M.pti[k].swapped => hasSwapped(M.pti[k])
    BY <1>1 DEF Owned
  <2> QED
    BY <2>1, <1>2 DEF hasSwapped, ProcessItems
<1>9. content \in Data
  BY <1>2, <1>3, <1>8
<1>10. O.pti[k] = M.pti[k] /\ M.pti[k] \in ProcessItems
  BY <1>2, <1>4
<1>11. /\ entry \in ProcessItems
       /\ entry.frame = i /\ entry.swapPage = M.pti[k].swapPage
       /\ entry.swapped = FALSE /\ entry.inMemory = TRUE
  BY <1>3, <1>10 DEF ProcessItems
<1>12. N = [pti |-> [O.pti EXCEPT ![k] = entry], table |-> O.table, item |-> O.item,
            used |-> O.used, lru |-> O.lru,
            frames |-> [O.frames EXCEPT ![i] = IF O.pti[k].swapped
                                               THEN O.swap[O.pti[k].swapPage] ELSE @],
            swap |-> O.swap, swapAlloced |-> O.swapAlloced]
  BY <1>3, <1>6, <1>7, UpdateAllFields
<1>13. [O.frames EXCEPT ![i] = IF O.pti[k].swapped THEN O.swap[O.pti[k].swapPage] ELSE @]
         = [M.frames EXCEPT ![i] = content]
  BY <1>4
<1> HIDE DEF entry, content, N
<1>14. N = [pti |-> [M.pti EXCEPT ![k] = entry], table |-> [M.table EXCEPT ![k] = i],
            item |-> [M.item EXCEPT ![i] = k], used |-> M.used, lru |-> L,
            frames |-> [M.frames EXCEPT ![i] = content],
            swap |-> M.swap, swapAlloced |-> M.swapAlloced]
  BY <1>4, <1>12, <1>13
<1>15. /\ [M.pti EXCEPT ![k] = entry] \in [Keys -> ProcessItems]
       /\ [M.frames EXCEPT ![i] = content] \in [Items -> Data]
  BY <1>2, <1>9, <1>11
<1>16. N \in Memories
  BY <1>2, <1>5, <1>14, <1>15, Built
<1>17. /\ N.pti[k] = entry
       /\ \A j \in Keys : j # k => N.pti[j] = M.pti[j]
       /\ N.table[k] = i
       /\ \A j \in Keys : j # k => N.table[j] = M.table[j]
       /\ N.item[i] = k
       /\ \A j \in Items : j # i => N.item[j] = M.item[j]
       /\ N.frames[i] = content
       /\ \A j \in Items : j # i => N.frames[j] = M.frames[j]
       /\ N.used = M.used /\ N.swap = M.swap /\ N.swapAlloced = M.swapAlloced
  BY <1>2, <1>3, <1>14
<1>18. HostedPages + 1..M.used \subseteq Items
  BY <1>2, FramesAssumption DEF Items
<1>19. Agrees(N, NoItem)
  BY <1>1, <1>11, <1>17, <1>18, PutIn
<1>20. Owned(N)
  BY <1>1, <1>11, <1>17 DEF Owned, hasSwapped
<1>21. Framed(N)
  <2>1. \A j \in Keys : N.pti[j].frame \notin Hosted
    BY <1>1, <1>3, <1>11, <1>17 DEF Framed
  <2>2. \A j \in Keys : N.pti[j].inMemory => N.pti[j].frame \in 1..N.used /\ ~N.pti[j].swapped
    BY <1>1, <1>3, <1>11, <1>17 DEF Framed
  <2>3. \A j \in Keys : hasSwapped(N.pti[j]) => N.used = Capacity
    BY <1>1, <1>11, <1>17 DEF Framed, hasSwapped
  <2>4. \A j \in Items : j > N.used => N.frames[j] = Clean
    BY <1>1, <1>2, <1>3, <1>17, FramesAssumption DEF Framed, Items
  <2> QED
    BY <2>1, <2>2, <2>3, <2>4 DEF Framed
<1>22. ASSUME NoneDropped(M) => M.frames[i] = Clean, NoneDropped(N)
       PROVE  NoneDropped(M) /\ SameHeld(M, N)
  <2>1. NoneDropped(M)
    BY <1>17, <1>22 DEF NoneDropped, Dropped
  <2>2. Held(N, k) = Held(M, k)
    BY <1>11, <1>17, <1>22, <2>1 DEF Held, content
  <2>3. ASSUME NEW j \in Keys, j # k
        PROVE  Held(N, j) = Held(M, j)
    <3>1. CASE M.pti[j].inMemory
      <4>1. M.table[j] # NoItem
        BY <2>1, <3>1 DEF NoneDropped, Dropped
      <4>2. M.pti[j].frame = M.table[j] /\ M.table[j] # i /\ M.table[j] \in Items
        BY <4>1, <1>1, <1>2 DEF Agrees
      <4> QED
        BY <3>1, <4>2, <2>3, <1>17 DEF Held
    <3>2. CASE ~M.pti[j].inMemory
      BY <3>2, <2>3, <1>17 DEF Held
    <3> QED
      BY <3>1, <3>2
  <2> QED
    BY <2>1, <2>2, <2>3 DEF SameHeld
<1> QED
  BY <1>11, <1>16, <1>17, <1>19, <1>20, <1>21, <1>22
     DEF Good, GoodBut, NoneEnters, Keeps, N

\* What bringing the page `k' into the memory `M' leaves, whether it succeeds or not.
Brought(M, N, k) ==
  /\ Good(N)
  /\ NoneEnters(M, N, k)
  /\ Keeps(M, N)

LEMMA OutsideHasNoItem ==
  ASSUME NEW M, Good(M), NEW k \in Keys, ~M.pti[k].inMemory
  PROVE  M.table[k] = NoItem
  BY DEF Good, GoodBut, Agrees

LEMMA KeepsItself ==
  ASSUME NEW M, Good(M), NEW k \in Keys
  PROVE  Brought(M, M, k)
  BY DEF Brought, NoneEnters, Keeps, SameHeld

LEMMA ScheduleGood ==
  ASSUME NEW M, Good(M), NEW k \in Keys, ~M.pti[k].inMemory, M.used = Capacity
  PROVE  Brought(M, schedule(M, k), k)
<1>1. CASE ~Replaceable(M)
  BY <1>1, KeepsItself DEF schedule
<1>2. CASE Replaceable(M)
  <2> DEFINE v == walk(M.lru)
             old == M.item[v]
             E == evict(M, old)
             L == usedPage(M.lru, v)
             N == assign(E, k, v, L)
  <2>1. schedule(M, k) = N
    BY <1>2 DEF schedule
  <2>2. v \in Items /\ v \in HostedPages + 1..M.used /\ v # NoItem
    BY <1>2, FramesAssumption DEF Replaceable, Items, Hosted, NoItem
  <2>3. M \in Memories /\ Agrees(M, NoItem)
    BY DEF Good, GoodBut
  <2>4. old \in Keys /\ M.table[old] = v
    BY <2>2, <2>3 DEF Agrees
  <2>5. M.table[k] = NoItem
    BY OutsideHasNoItem
  <2>6. k # old
    BY <2>2, <2>4, <2>5
  <2>7. L \in Lists
    BY <2>2, <2>3, Fields, UsedPageType
  <2> HIDE DEF v, old, L
  <2>8. /\ GoodBut(E, v)
        /\ E.table = [M.table EXCEPT ![old] = NoItem]
        /\ E.used = M.used
        /\ \A j \in Keys : j # old => E.pti[j] = M.pti[j]
        /\ NoneEnters(M, E, old)
        /\ Keeps(M, E)
        /\ NoneDropped(E) => E.frames[v] = Clean
    BY <2>2, <2>4, EvictGood
  <2> HIDE DEF E
  <2>9. E.table[k] = NoItem /\ ~E.pti[k].inMemory
    BY <2>3, <2>5, <2>6, <2>8, Fields
  <2>10. /\ Good(N)
         /\ NoneEnters(E, N, k)
         /\ (NoneDropped(E) => E.frames[v] = Clean) => Keeps(E, N)
    BY <2>2, <2>7, <2>8, <2>9, AssignGood
  <2> HIDE DEF N
  <2>11. Keeps(M, N)
    BY <2>8, <2>10 DEF Keeps, SameHeld
  <2>12. NoneEnters(M, N, k)
    <3>1. ASSUME NEW j \in Keys, j # k, N.pti[j].inMemory
          PROVE  M.pti[j].inMemory
      <4>1. E.pti[j].inMemory
        BY <2>10, <3>1 DEF NoneEnters
      <4>2. CASE j = old
        BY <4>2, <2>2, <2>3, <2>4 DEF Agrees
      <4>3. CASE j # old
        BY <4>1, <4>3, <2>8
      <4> QED
        BY <4>2, <4>3
    <3> QED
      BY <3>1 DEF NoneEnters
  <2> QED
    BY <2>1, <2>10, <2>11, <2>12 DEF Brought
<1> QED
  BY <1>1, <1>2

LEMMA InsertPageGood ==
  ASSUME NEW M, Good(M), NEW k \in Keys, ~M.pti[k].inMemory
  PROVE  Brought(M, insertPage(M, k), k)
<1>1. M \in Memories /\ Agrees(M, NoItem) /\ Owned(M) /\ Framed(M)
  BY DEF Good, GoodBut
<1>2. M.used \in HostedPages..Capacity
  BY <1>1, Fields
<1>3. CASE ~(M.used < Capacity)
  <2>1. M.used = Capacity
    BY <1>2, <1>3, FramesAssumption
  <2>2. Brought(M, schedule(M, k), k)
    BY <2>1, ScheduleGood
  <2> QED
    BY <1>3, <2>2 DEF insertPage
<1>4. CASE M.used < Capacity
  <2> DEFINE i == M.used + 1
             E == [M EXCEPT !.used = @ + 1]
             L == push(M.lru, i)
             N == assign(E, k, i, L)
  <2>1. insertPage(M, k) = N
    BY <1>4 DEF insertPage
  <2>2. i \in Items /\ i \in HostedPages..Capacity /\ i \in HostedPages + 1..i
    BY <1>2, <1>4, FramesAssumption DEF Items
  <2>3. E = [pti |-> M.pti, table |-> M.table, item |-> M.item, used |-> i,
             lru |-> M.lru, frames |-> M.frames, swap |-> M.swap,
             swapAlloced |-> M.swapAlloced]
    BY <1>1, FieldChanges
  <2>4. /\ M.pti \in [Keys -> ProcessItems]
        /\ M.table \in [Keys -> Items \cup {NoItem}]
        /\ M.item \in [Items -> Keys \cup {NoKey}]
        /\ M.lru \in Lists
        /\ M.frames \in [Items -> Data]
        /\ M.swap \in [Swaps -> Data]
        /\ M.swapAlloced \in 0..SwapSpacePage
    BY <1>1, Fields
  <2>5. E \in Memories
    BY <2>2, <2>3, <2>4, Built
  <2>6. L \in Lists
    BY <2>2, <2>4, PushType
  <2> HIDE DEF E, L
  <2>7. Agrees(E, i)
    <3>1. E.table = M.table /\ E.item = M.item /\ E.pti = M.pti /\ E.used = i
      BY <2>3
    <3>2. \A j \in Keys :
             M.table[j] # NoItem => /\ M.table[j] \in HostedPages + 1..i
                                    /\ M.table[j] # i
      BY <1>1, <1>2, FramesAssumption DEF Agrees
    <3>3. \A j \in HostedPages + 1..i : j # i => j \in HostedPages + 1..M.used /\ j # NoItem
      BY <1>2, FramesAssumption DEF NoItem
    <3> HIDE DEF i
    <3>4. \A j \in Keys :
             E.table[j] # NoItem => /\ E.table[j] \in HostedPages + 1..E.used
                                    /\ E.table[j] # i
                                    /\ E.item[E.table[j]] = j
                                    /\ E.pti[j].inMemory
                                    /\ E.pti[j].frame = E.table[j]
      BY <1>1, <3>1, <3>2 DEF Agrees
    <3>5. \A j \in HostedPages + 1..E.used :
             j # i => E.item[j] \in Keys /\ E.table[E.item[j]] = j
      BY <1>1, <3>1, <3>3 DEF Agrees
    <3> QED
      BY <3>4, <3>5 DEF Agrees
  <2>8. Owned(E)
    BY <1>1, <2>3 DEF Owned
  <2>9. Framed(E)
    <3>1. \A j \in Keys : ~hasSwapped(M.pti[j])
      BY <1>1, <1>2, <1>4, FramesAssumption DEF Framed
    <3>2. \A j \in Keys : M.pti[j].inMemory => M.pti[j].frame \in 1..i
      BY <1>1, <1>2, FramesAssumption DEF Framed
    <3>3. \A j \in Items : j > i => M.frames[j] = Clean
      BY <1>1, <1>2, FramesAssumption DEF Framed, Items
    <3> HIDE DEF i
    <3> QED
      BY <1>1, <2>3, <3>1, <3>2, <3>3 DEF Framed
  <2>10. M.frames[i] = Clean
    BY <1>1, <1>2, <2>2, FramesAssumption DEF Framed
  <2> HIDE DEF i
  <2>11. E.table[k] = NoItem /\ ~E.pti[k].inMemory /\ E.frames[i] = Clean /\ E.used = i
    BY <2>3, <2>10, OutsideHasNoItem
  <2>12. Good(N) /\ NoneEnters(E, N, k) /\ Keeps(E, N)
    BY <2>2, <2>5, <2>6, <2>7, <2>8, <2>9, <2>11, AssignGood DEF GoodBut
  <2> HIDE DEF N
  <2>13. NoneEnters(M, N, k)
    BY <2>3, <2>12 DEF NoneEnters
  <2>14. Keeps(M, N)
    BY <2>3, <2>12 DEF Keeps, SameHeld, Held, NoneDropped, Dropped
  <2> QED
    BY <2>1, <2>12, <2>13, <2>14 DEF Brought
<1> QED
  BY <1>3, <1>4

LEMMA PageFaultGood ==
  ASSUME NEW M, Good(M), NEW k \in Keys
  PROVE  Brought(M, pageFault(M, k), k)
<1>1. CASE M.pti[k].inMemory
  BY <1>1, KeepsItself DEF pageFault
<1>2. CASE ~M.pti[k].inMemory /\ M.pti[k].swapped
  <2>1. M.used = Capacity
    BY <1>2 DEF Good, GoodBut, Owned, Framed
  <2>2. Brought(M, schedule(M, k), k)
    BY <1>2, <2>1, ScheduleGood
  <2> QED
    BY <1>2, <2>2 DEF pageFault
<1>3. CASE ~M.pti[k].inMemory /\ ~M.pti[k].swapped
  <2>1. Brought(M, insertPage(M, k), k)
    BY <1>3, InsertPageGood
  <2> QED
    BY <1>3, <2>1 DEF pageFault
<1> QED
  BY <1>1, <1>2, <1>3

\* usePage changes the LRU list only.
LEMMA UsePageGood ==
  ASSUME NEW M, Good(M), NEW k \in Keys
  PROVE  /\ Brought(M, usePage(M, k), k)
         /\ usePage(M, k).pti = M.pti
         /\ usePage(M, k).table = M.table
<1> DEFINE N == usePage(M, k)
<1>1. M \in Memories /\ Agrees(M, NoItem) /\ Owned(M) /\ Framed(M)
  BY DEF Good, GoodBut
<1>2. CASE M.table[k] = NoItem
  BY <1>2, KeepsItself DEF usePage
<1>3. CASE M.table[k] # NoItem
  <2> DEFINE L == usedPage(M.lru, M.table[k])
  <2>1. M.table[k] \in Items /\ M.lru \in Lists
    BY <1>1, <1>3, Fields
  <2>2. L \in Lists
    BY <2>1, UsedPageType
  <2>3. N = [M EXCEPT !.lru = L]
    BY <1>3 DEF usePage
  <2> HIDE DEF L
  <2>4. N = [pti |-> M.pti, table |-> M.table, item |-> M.item,
             used |-> M.used, lru |-> L, frames |-> M.frames,
             swap |-> M.swap, swapAlloced |-> M.swapAlloced]
    BY <1>1, <2>2, <2>3, FieldChanges
  <2>5. /\ M.pti \in [Keys -> ProcessItems]
        /\ M.table \in [Keys -> Items \cup {NoItem}]
        /\ M.item \in [Items -> Keys \cup {NoKey}]
        /\ M.used \in HostedPages..Capacity
        /\ M.frames \in [Items -> Data]
        /\ M.swap \in [Swaps -> Data]
        /\ M.swapAlloced \in 0..SwapSpacePage
    BY <1>1, Fields
  <2>6. N \in Memories
    BY <2>2, <2>4, <2>5, Built
  <2> HIDE DEF N
  <2>7. Agrees(N, NoItem) /\ Owned(N) /\ Framed(N)
    BY <1>1, <2>4 DEF Agrees, Owned, Framed
  <2>8. NoneEnters(M, N, k) /\ Keeps(M, N)
    BY <2>4 DEF NoneEnters, Keeps, SameHeld, Held, NoneDropped, Dropped
  <2> QED
    BY <2>4, <2>6, <2>7, <2>8 DEF Brought, Good, GoodBut, N
<1> QED
  BY <1>2, <1>3

\* Storing `d' in a page that the page table holds.
LEMMA StoreGood ==
  ASSUME NEW M, Good(M), NEW k \in Keys, M.pti[k].inMemory, NEW d \in Data
  PROVE  LET N == [M EXCEPT !.frames[M.pti[k].frame] = d]
         IN  /\ Good(N)
             /\ N.pti = M.pti /\ N.table = M.table
             /\ NoneDropped(N) => /\ NoneDropped(M)
                                  /\ Held(N, k) = d
                                  /\ \A j \in Keys : j # k => Held(N, j) = Held(M, j)
<1> DEFINE i == M.pti[k].frame
           N == [M EXCEPT !.frames[i] = d]
<1>1. M \in Memories /\ Agrees(M, NoItem) /\ Owned(M) /\ Framed(M)
  BY DEF Good, GoodBut
<1>2. /\ M.pti \in [Keys -> ProcessItems]
      /\ M.table \in [Keys -> Items \cup {NoItem}]
      /\ M.item \in [Items -> Keys \cup {NoKey}]
      /\ M.used \in HostedPages..Capacity
      /\ M.lru \in Lists
      /\ M.frames \in [Items -> Data]
      /\ M.swap \in [Swaps -> Data]
      /\ M.swapAlloced \in 0..SwapSpacePage
  BY <1>1, Fields
<1>3. i \in 1..M.used
  BY <1>1 DEF Framed
<1>4. i \in Items
  BY <1>2, <1>3, FramesAssumption DEF Items
<1> HIDE DEF i
<1>5. N = [pti |-> M.pti, table |-> M.table, item |-> M.item, used |-> M.used,
           lru |-> M.lru, frames |-> [M.frames EXCEPT ![i] = d], swap |-> M.swap,
           swapAlloced |-> M.swapAlloced]
  BY <1>1 DEF Memories
<1>6. [M.frames EXCEPT ![i] = d] \in [Items -> Data]
  BY <1>2
<1>7. N \in Memories
  BY <1>2, <1>5, <1>6, Built
<1> HIDE DEF N
<1>8. Agrees(N, NoItem) /\ Owned(N)
  BY <1>1, <1>5 DEF Agrees, Owned
<1>9. N.frames[i] = d /\ \A j \in Items : j # i => N.frames[j] = M.frames[j]
  BY <1>2, <1>4, <1>5
<1>10. N.pti = M.pti /\ N.table = M.table /\ N.used = M.used /\ N.swap = M.swap
  BY <1>5
<1>11. \A j \in Items : j > N.used => N.frames[j] = Clean
  BY <1>1, <1>2, <1>3, <1>9, <1>10, FramesAssumption DEF Framed, Items
<1>12. Framed(N)
  BY <1>1, <1>10, <1>11 DEF Framed
<1>13. ASSUME NoneDropped(N)
       PROVE  /\ NoneDropped(M)
              /\ Held(N, k) = d
              /\ \A j \in Keys : j # k => Held(N, j) = Held(M, j)
  <2>1. NoneDropped(M)
    BY <1>10, <1>13 DEF NoneDropped, Dropped
  <2>2. \A j \in Keys : M.pti[j].inMemory => /\ M.pti[j].frame = M.table[j]
                                             /\ M.item[M.pti[j].frame] = j
                                             /\ M.pti[j].frame \in Items
    BY <1>1, <1>2, <2>1 DEF NoneDropped, Dropped, Agrees
  <2>3. Held(N, k) = d
    BY <1>9, <1>10 DEF Held, i
  <2>4. ASSUME NEW j \in Keys, j # k
        PROVE  Held(N, j) = Held(M, j)
    <3>1. M.pti[j].inMemory => M.pti[j].frame # i
      BY <2>2, <2>4 DEF i
    <3> QED
      BY <1>9, <1>10, <2>2, <3>1 DEF Held
  <2> QED
    BY <2>1, <2>3, <2>4
<1> QED
  BY <1>7, <1>8, <1>10, <1>12, <1>13 DEF Good, GoodBut, N, i

LEMMA BroughtTwice ==
  ASSUME NEW M, NEW N, NEW O, NEW k \in Keys, Brought(M, N, k), Brought(N, O, k)
  PROVE  Brought(M, O, k)
  BY DEF Brought, NoneEnters, Keeps, SameHeld

LEMMA FetchedGood ==
  ASSUME NEW M, Good(M), NEW k \in Keys
  PROVE  Brought(M, Fetched(M, k), k)
<1>1. Brought(M, usePage(M, k), k)
  BY UsePageGood
<1>2. Good(usePage(M, k))
  BY <1>1 DEF Brought
<1>3. Brought(usePage(M, k), pageFault(usePage(M, k), k), k)
  BY <1>2, PageFaultGood
<1> QED
  BY <1>1, <1>3, BroughtTwice DEF Fetched
-----------------------------------------------------------------------------
(* allocProcess *)

Tasks == [op: {"count", "alloc", "copy"}, key: Keys]

\* What allocProcess has left to do: pages of known processes, allocations before
\* copies, and the pages to be allocated differ and are not in memory.
Ordered(s) ==
  /\ s \in Seq(Tasks)
  /\ \A m, n \in DOMAIN s : m < n /\ s[m].op = "copy" => s[n].op = "copy"
  /\ \A m, n \in DOMAIN s : m # n /\ s[m].op = "alloc" /\ s[n].op = "alloc"
                              => s[m].key # s[n].key

TodoInv ==
  /\ Ordered(todo)
  /\ \A n \in DOMAIN todo : todo[n].key[1] \in known
  /\ \A n \in DOMAIN todo : todo[n].op = "alloc" => ~mmu.pti[todo[n].key].inMemory
  /\ \A k \in Keys : k[1] \notin known => ~mmu.pti[k].inMemory

LEMMA StepsElements ==
  ASSUME NEW op \in {"count", "alloc", "copy"}, NEW p \in Pids, NEW first \in Nat, NEW count \in Nat,
         first + count <= PageCount
  PROVE  /\ Steps(op, p, first, count) \in Seq(Tasks)
         /\ Len(Steps(op, p, first, count)) = count
         /\ \A n \in 1..count : /\ Steps(op, p, first, count)[n].op = op
                                /\ Steps(op, p, first, count)[n].key = <<p, first + n - 1>>
<1> DEFINE S == Steps(op, p, first, count)
<1>1. \A n \in 1..count : <<p, first + n - 1>> \in Keys
  BY PagesAssumption DEF Keys
<1>2. S = [n \in 1..count |-> [op |-> op, key |-> <<p, first + n - 1>>]]
  BY DEF Steps
<1>3. \A n \in 1..count : [op |-> op, key |-> <<p, first + n - 1>>] \in Tasks
  BY <1>1 DEF Tasks
<1> HIDE DEF S
<1>4. S \in [1..count -> Tasks] /\ DOMAIN S = 1..count
  BY <1>2, <1>3
<1>5. S \in Seq(Tasks)
  BY <1>4 DEF Seq
<1>6. Len(S) = count
  BY <1>4, <1>5, LenProperties
<1>7. \A n \in 1..count : S[n].op = op /\ S[n].key = <<p, first + n - 1>>
  BY <1>2
<1> QED
  BY <1>5, <1>6, <1>7 DEF S

\* The same from the page 0.
LEMMA FirstStepsElements ==
  ASSUME NEW op \in {"count", "alloc", "copy"}, NEW p \in Pids, NEW count \in Nat, count <= PageCount
  PROVE  /\ Steps(op, p, 0, count) \in Seq(Tasks)
         /\ Len(Steps(op, p, 0, count)) = count
         /\ \A n \in 1..count : /\ Steps(op, p, 0, count)[n].op = op
                                /\ Steps(op, p, 0, count)[n].key = <<p, n - 1>>
<1> DEFINE z == 0
<1>1. z \in Nat /\ z + count <= PageCount
  BY PagesAssumption
<1>2. \A n \in 1..count : z + n - 1 = n - 1
  OBVIOUS
<1> HIDE DEF z
<1>3. /\ Steps(op, p, z, count) \in Seq(Tasks)
      /\ Len(Steps(op, p, z, count)) = count
      /\ \A n \in 1..count : /\ Steps(op, p, z, count)[n].op = op
                             /\ Steps(op, p, z, count)[n].key = <<p, z + n - 1>>
  BY <1>1, StepsElements
<1>4. \A n \in 1..count : Steps(op, p, z, count)[n].key = <<p, n - 1>>
  BY <1>2, <1>3
<1> QED
  BY <1>3, <1>4 DEF z

\* Part of what is left to do: pages of `p' to be counted and allocated, and those to
\* be allocated differ and are in `K'.
Block(s, p, K) ==
  /\ s \in Seq(Tasks)
  /\ \A n \in DOMAIN s : /\ s[n].key[1] = p
                         /\ s[n].op # "copy"
                         /\ s[n].op = "alloc" => s[n].key[2] \in K
  /\ \A m, n \in DOMAIN s : m # n /\ s[m].op = "alloc" /\ s[n].op = "alloc"
                              => s[m].key # s[n].key

LEMMA StepsBlock ==
  ASSUME NEW op \in {"count", "alloc"}, NEW p \in Pids, NEW first \in Nat, NEW count \in Nat,
         first + count <= PageCount, NEW K, op = "alloc" => first..first + count - 1 \subseteq K
  PROVE  Block(Steps(op, p, first, count), p, K)
<1> DEFINE S == Steps(op, p, first, count)
<1>1. /\ S \in Seq(Tasks) /\ Len(S) = count
      /\ \A n \in 1..count : S[n].op = op /\ S[n].key = <<p, first + n - 1>>
  <2>1. op \in {"count", "alloc", "copy"}
    OBVIOUS
  <2> QED
    BY <2>1, StepsElements
<1> HIDE DEF S
<1>2. DOMAIN S = 1..count
  BY <1>1
<1>3. ASSUME NEW n \in DOMAIN S
      PROVE  /\ S[n].key[1] = p /\ S[n].op # "copy"
             /\ S[n].op = "alloc" => S[n].key[2] \in K
  <2>1. n \in 1..count /\ first + n - 1 \in first..first + count - 1
    BY <1>2
  <2>2. S[n].op = op /\ S[n].key[1] = p /\ S[n].key[2] = first + n - 1
    BY <1>1, <2>1
  <2> QED
    BY <2>1, <2>2
<1>4. ASSUME NEW m \in DOMAIN S, NEW n \in DOMAIN S, m # n
      PROVE  S[m].key # S[n].key
  <2>1. S[m].key = <<p, first + m - 1>> /\ S[n].key = <<p, first + n - 1>>
    BY <1>1, <1>2
  <2>2. first + m - 1 # first + n - 1
    BY <1>2, <1>4
  <2> QED
    BY <2>1, <2>2
<1>5. Block(S, p, K)
  BY <1>1, <1>3, <1>4 DEF Block
<1> QED
  BY <1>5 DEF S

\* Which of two sequences an element of both together comes from.
LEMMA ConcatElements ==
  ASSUME NEW s \in Seq(Tasks), NEW t \in Seq(Tasks), NEW n \in DOMAIN (s \o t)
  PROVE  \/ n \in DOMAIN s /\ (s \o t)[n] = s[n]
         \/ n \notin DOMAIN s /\ n - Len(s) \in DOMAIN t /\ (s \o t)[n] = t[n - Len(s)]
  BY ConcatProperties, LenProperties

LEMMA BlockConcat ==
  ASSUME NEW p, NEW K, NEW L, NEW s, NEW t, Block(s, p, K), Block(t, p, L), K \cap L = {}
  PROVE  Block(s \o t, p, K \cup L)
<1> DEFINE u == s \o t
<1>1. s \in Seq(Tasks) /\ t \in Seq(Tasks)
  BY DEF Block
<1>2. u \in Seq(Tasks) /\ Len(s) \in Nat /\ DOMAIN u \subseteq Int
  BY <1>1, ConcatProperties, LenProperties
<1>3. \A n \in DOMAIN u :
        \/ n \in DOMAIN s /\ u[n] = s[n]
        \/ n \notin DOMAIN s /\ n - Len(s) \in DOMAIN t /\ u[n] = t[n - Len(s)]
  BY <1>1, ConcatElements
<1> HIDE DEF u
<1>4. \A n \in DOMAIN u : /\ u[n].key[1] = p
                          /\ u[n].op # "copy"
                          /\ u[n].op = "alloc" => u[n].key[2] \in K \cup L
  BY <1>3 DEF Block
<1>5. ASSUME NEW m \in DOMAIN u, NEW n \in DOMAIN u, m # n, u[m].op = "alloc", u[n].op = "alloc"
      PROVE  u[m].key # u[n].key
  <2>1. CASE m \in DOMAIN s /\ n \in DOMAIN s
    BY <1>3, <1>5, <2>1 DEF Block
  <2>2. CASE m \notin DOMAIN s /\ n \notin DOMAIN s
    <3>1. m - Len(s) # n - Len(s)
      BY <1>2, <1>5
    <3> QED
      BY <1>3, <1>5, <2>2, <3>1 DEF Block
  <2>3. CASE m \in DOMAIN s /\ n \notin DOMAIN s
    <3>1. u[m].key[2] \in K /\ u[n].key[2] \in L
      BY <1>3, <1>5, <2>3 DEF Block
    <3> QED
      BY <3>1
  <2>4. CASE m \notin DOMAIN s /\ n \in DOMAIN s
    <3>1. u[m].key[2] \in L /\ u[n].key[2] \in K
      BY <1>3, <1>5, <2>4 DEF Block
    <3> QED
      BY <3>1
  <2> QED
    BY <2>1, <2>2, <2>3, <2>4
<1> QED
  BY <1>2, <1>4, <1>5 DEF Block, u

LEMMA AllocationBlock ==
  ASSUME NEW p \in Pids, NEW first \in Nat, NEW count \in Nat,
         first + count <= PageCount, NEW K, first..first + count - 1 \subseteq K
  PROVE  Block(Allocation(p, first, count), p, K)
<1> DEFINE one == IF count = 0 THEN 0 ELSE 1
<1>1. one \in Nat /\ first + one <= PageCount
  BY PagesAssumption
<1> HIDE DEF one
<1>2. Block(Steps("count", p, first, one), p, {})
  BY <1>1, StepsBlock
<1>3. Block(Steps("alloc", p, first, count), p, K)
  BY StepsBlock
<1>4. {} \cap K = {} /\ {} \cup K = K
  OBVIOUS
<1> QED
  BY <1>2, <1>3, <1>4, BlockConcat DEF Allocation, one

LEMMA TodoElements ==
  ASSUME NEW p \in Pids
  PROVE  LET s == Allocation(p, PageCount - StackPageCount, StackPageCount)
                  \o Allocation(p, 0, CodePages) \o Steps("copy", p, 0, CodePages)
         IN  Ordered(s) /\ \A n \in DOMAIN s : s[n].key[1] = p
<1> DEFINE K == PageCount - StackPageCount..PageCount - 1
           L == 0..CodePages - 1
           A == Allocation(p, PageCount - StackPageCount, StackPageCount)
           B == Allocation(p, 0, CodePages)
           C == Steps("copy", p, 0, CodePages)
           AB == A \o B
           s == AB \o C
<1>1. Block(A, p, K)
  <2> DEFINE first == PageCount - StackPageCount
  <2>1. /\ first \in Nat /\ StackPageCount \in Nat /\ first + StackPageCount <= PageCount
        /\ first..first + StackPageCount - 1 \subseteq K
    BY PagesAssumption
  <2> HIDE DEF first, K
  <2>2. Block(Allocation(p, first, StackPageCount), p, K)
    BY <2>1, AllocationBlock
  <2> QED
    BY <2>2 DEF first
<1>2. Block(B, p, L)
  <2> DEFINE first == 0
  <2>1. /\ first \in Nat /\ CodePages \in Nat /\ first + CodePages <= PageCount
        /\ first..first + CodePages - 1 \subseteq L
    BY PagesAssumption
  <2> HIDE DEF first, L
  <2>2. Block(Allocation(p, first, CodePages), p, L)
    BY <2>1, AllocationBlock
  <2> QED
    BY <2>2 DEF first
<1>3. K \cap L = {}
  BY PagesAssumption
<1>4. /\ C \in Seq(Tasks)
      /\ \A n \in DOMAIN C : C[n].op = "copy" /\ C[n].key[1] = p
  <2>1. CodePages \in Nat /\ CodePages <= PageCount
    BY PagesAssumption
  <2>2. /\ C \in Seq(Tasks) /\ Len(C) = CodePages
        /\ \A n \in 1..CodePages : C[n].op = "copy" /\ C[n].key = <<p, n - 1>>
    BY <2>1, FirstStepsElements
  <2> HIDE DEF C
  <2>3. DOMAIN C = 1..CodePages
    BY <2>2
  <2> QED
    BY <2>2, <2>3
<1> HIDE DEF A, B, C, K, L
<1>5. Block(AB, p, K \cup L)
  BY <1>1, <1>2, <1>3, BlockConcat
<1> HIDE DEF AB
<1>6. AB \in Seq(Tasks)
  BY <1>5 DEF Block
<1>7. s \in Seq(Tasks) /\ DOMAIN s = 1..Len(s) /\ DOMAIN AB = 1..Len(AB)
      /\ Len(AB) \in Nat /\ Len(s) \in Nat
  BY <1>4, <1>6, ConcatProperties, LenProperties
<1>8. \A n \in DOMAIN s :
        \/ n \in DOMAIN AB /\ s[n] = AB[n]
        \/ n \notin DOMAIN AB /\ n - Len(AB) \in DOMAIN C /\ s[n] = C[n - Len(AB)]
  BY <1>4, <1>6, ConcatElements
<1> HIDE DEF s
<1>9. \A n \in DOMAIN s : /\ n \in DOMAIN AB => s[n] = AB[n] /\ s[n].op # "copy"
                          /\ n \notin DOMAIN AB => s[n].op = "copy"
                          /\ s[n].key[1] = p
  BY <1>4, <1>5, <1>8 DEF Block
<1>10. \A m, n \in DOMAIN s : m < n /\ s[m].op = "copy" => s[n].op = "copy"
  <2> SUFFICES ASSUME NEW m \in DOMAIN s, NEW n \in DOMAIN s, m < n, s[m].op = "copy"
               PROVE  s[n].op = "copy"
    OBVIOUS
  <2>1. m \notin DOMAIN AB
    BY <1>9
  <2>2. n \notin DOMAIN AB
    BY <1>7, <2>1
  <2> QED
    BY <1>9, <2>2
<1>11. \A m, n \in DOMAIN s : m # n /\ s[m].op = "alloc" /\ s[n].op = "alloc"
                               => s[m].key # s[n].key
  BY <1>5, <1>9 DEF Block
<1> QED
  BY <1>7, <1>9, <1>10, <1>11 DEF Ordered, s, AB, A, B, C
-----------------------------------------------------------------------------
(* The invariant *)

\* Unless a page has been dropped, every page holds what was stored in it.
Contents == NoneDropped(mmu) => \A k \in Keys : Held(mmu, k) = written[k]

PagingInv ==
  /\ Good(mmu)
  /\ TodoInv
  /\ known \subseteq Pids
  /\ fresh \in 0..Capacity
  /\ written \in [Keys -> Data]
  /\ Contents

LEMMA StoredType ==
  ASSUME NEW k \in Keys, NEW v \in Versions \cup {FromFile}
  PROVE  Stored(k, v) \in Data
  BY DEF Stored, Data

\* The head of what is left, and the rest.
LEMMA TodoHead ==
  ASSUME TodoInv, ~Idling
  PROVE  /\ Key \in Keys /\ Key[1] \in known
         /\ Op = "alloc" => ~mmu.pti[Key].inMemory
         /\ Ordered(Tail(todo))
         /\ \A n \in DOMAIN Tail(todo) : Tail(todo)[n].key[1] \in known
         /\ \A n \in DOMAIN Tail(todo) :
               Tail(todo)[n].op = "alloc" => /\ ~mmu.pti[Tail(todo)[n].key].inMemory
                                             /\ Op # "count" => Tail(todo)[n].key # Key
                                             /\ Tail(todo)[n].key \in Keys
<1>1. todo \in Seq(Tasks) /\ todo # <<>>
  BY DEF TodoInv, Ordered, Idling
<1> DEFINE T == Tail(todo)
<1>2. /\ Head(todo) = todo[1] /\ 1 \in DOMAIN todo
      /\ T \in Seq(Tasks)
      /\ \A n \in DOMAIN T : n \in Nat /\ n + 1 \in DOMAIN todo /\ T[n] = todo[n + 1] /\ n + 1 # 1
  BY <1>1
<1>3. \A n \in DOMAIN todo : todo[n] \in Tasks
  BY <1>1
<1> HIDE DEF T
<1>4. \A n \in DOMAIN todo : todo[n].key \in Keys
  BY <1>3 DEF Tasks
<1>5. \A n \in DOMAIN T : Op # "count" /\ T[n].op = "alloc" => Op = "alloc"
  <2>1. Op \in {"count", "alloc", "copy"}
    BY <1>2, <1>3 DEF Tasks, Op
  <2>2. \A n \in DOMAIN T : Op = "copy" => T[n].op = "copy"
    BY <1>2 DEF TodoInv, Ordered, Op
  <2> QED
    BY <2>1, <2>2
<1>6. \A n \in DOMAIN T : Op # "count" /\ T[n].op = "alloc" => T[n].key # Key
  BY <1>2, <1>5 DEF TodoInv, Ordered, Op, Key
<1>7. Ordered(T)
  <2>1. ASSUME NEW m \in DOMAIN T, NEW n \in DOMAIN T
        PROVE  /\ m < n /\ T[m].op = "copy" => T[n].op = "copy"
               /\ m # n /\ T[m].op = "alloc" /\ T[n].op = "alloc" => T[m].key # T[n].key
    <3>1. /\ m + 1 \in DOMAIN todo /\ n + 1 \in DOMAIN todo
          /\ T[m] = todo[m + 1] /\ T[n] = todo[n + 1]
          /\ m < n => m + 1 < n + 1
          /\ m # n => m + 1 # n + 1
      BY <1>2
    <3> QED
      BY <3>1 DEF TodoInv, Ordered
  <2> QED
    BY <1>2, <2>1 DEF Ordered
<1>8. Key \in Keys /\ Key[1] \in known
  BY <1>2, <1>4 DEF TodoInv, Key
<1>9. Op = "alloc" => ~mmu.pti[Key].inMemory
  BY <1>2 DEF TodoInv, Op, Key
<1>10. \A n \in DOMAIN T : T[n].key[1] \in known
  BY <1>2 DEF TodoInv
<1>11. \A n \in DOMAIN T : T[n].op = "alloc" => /\ ~mmu.pti[T[n].key].inMemory
                                                /\ T[n].key \in Keys
  BY <1>2, <1>4 DEF TodoInv
<1> QED
  BY <1>6, <1>7, <1>8, <1>9, <1>10, <1>11 DEF T

LEMMA InitGood == Init => PagingInv
<1> SUFFICES ASSUME Init PROVE PagingInv
  OBVIOUS
<1> USE DEF Init
<1>1. /\ mmu.pti = [k \in Keys |-> NewPage]
      /\ mmu.table = [k \in Keys |-> NoItem]
      /\ mmu.used = HostedPages
      /\ mmu.frames = [i \in Items |-> Clean]
  OBVIOUS
<1>2. NewPage \in ProcessItems /\ ~NewPage.inMemory /\ ~NewPage.swapped
      /\ NewPage.frame = NoItem /\ NewPage.swapPage = NoSwap
  BY DEF NewPage, ProcessItems
<1>3. [i \in Items |-> IF i \in Hosted THEN i - 1 ELSE NoItem] \in Links
  BY FramesAssumption DEF Links, Items, Hosted, NoItem
<1>4. [i \in Items |-> IF i < HostedPages THEN i + 1 ELSE NoItem] \in Links
  BY FramesAssumption DEF Links, Items, NoItem
<1>5. [head |-> HostedPages,
       next |-> [i \in Items |-> IF i \in Hosted THEN i - 1 ELSE NoItem],
       pre  |-> [i \in Items |-> IF i < HostedPages THEN i + 1 ELSE NoItem]] \in Lists
  BY <1>3, <1>4, FramesAssumption DEF Lists, Items
<1>6. /\ [k \in Keys |-> NewPage] \in [Keys -> ProcessItems]
      /\ [k \in Keys |-> NoItem] \in [Keys -> Items \cup {NoItem}]
      /\ [i \in Items |-> NoKey] \in [Items -> Keys \cup {NoKey}]
      /\ HostedPages \in HostedPages..Capacity
      /\ [i \in Items |-> Clean] \in [Items -> Data]
      /\ [s \in Swaps |-> Clean] \in [Swaps -> Data]
      /\ 0 \in 0..SwapSpacePage
  BY <1>2, FramesAssumption, SwapAssumption DEF Data
<1>7. mmu \in Memories
  BY <1>5, <1>6, Built
<1>8. Agrees(mmu, NoItem)
  BY <1>1, FramesAssumption DEF Agrees
<1>9. Owned(mmu)
  BY <1>1, <1>2 DEF Owned, hasSwapped
<1>10. Framed(mmu)
  BY <1>1, <1>2 DEF Framed, hasSwapped, Hosted, NoItem
<1>11. TodoInv
  <2>1. todo \in Seq(Tasks) /\ DOMAIN todo = {}
    BY EmptySeq
  <2> QED
    BY <1>1, <1>2, <2>1 DEF TodoInv, Ordered
<1>12. Contents
  BY <1>1, <1>2 DEF Contents, Held
<1>13. known \subseteq Pids /\ fresh \in 0..Capacity /\ written \in [Keys -> Data]
  BY FramesAssumption DEF Data
<1> QED
  BY <1>7, <1>8, <1>9, <1>10, <1>11, <1>12, <1>13 DEF PagingInv, Good, GoodBut

\* A step that brings the page `k' of a process that is not being loaded leaves what
\* is left to do possible ...
LEMMA AccessKeepsTodo ==
  ASSUME PagingInv, NEW k \in Keys, Loaded(k), UNCHANGED <<known, todo, fresh>>,
         NoneEnters(mmu, mmu', k)
  PROVE  TodoInv'
<1>1. TodoInv
  BY DEF PagingInv
<1>2. ASSUME NEW n \in DOMAIN todo, todo[n].op = "alloc"
      PROVE  ~mmu'.pti[todo[n].key].inMemory
  <2>1. todo[n] \in Tasks
    BY <1>1 DEF TodoInv, Ordered
  <2>2. todo[n].key \in Keys /\ todo[n].key # k
    BY <2>1 DEF Tasks, Loaded, Loading
  <2>3. ~mmu.pti[todo[n].key].inMemory
    BY <1>1, <1>2 DEF TodoInv
  <2> QED
    BY <2>2, <2>3 DEF NoneEnters
<1>3. Ordered(todo') /\ \A n \in DOMAIN todo' : todo'[n].key[1] \in known'
  BY <1>1 DEF TodoInv
<1>4. \A j \in Keys : j[1] \notin known' => ~mmu'.pti[j].inMemory
  BY <1>1 DEF TodoInv, NoneEnters, Loaded
<1> QED
  BY <1>2, <1>3, <1>4 DEF TodoInv

\* ... or with its own task done, keeps the rest of the invariant.
LEMMA TaskDone ==
  ASSUME PagingInv, ~Idling, Op # "count", todo' = Tail(todo), UNCHANGED known,
         NoneEnters(mmu, mmu', Key)
  PROVE  TodoInv'
<1>1. TodoInv
  BY DEF PagingInv
<1>2. \A n \in DOMAIN todo' : todo'[n].op = "alloc" => ~mmu'.pti[todo'[n].key].inMemory
  BY <1>1, TodoHead DEF NoneEnters
<1>3. Ordered(todo') /\ \A n \in DOMAIN todo' : todo'[n].key[1] \in known'
  BY <1>1, TodoHead
<1>4. \A j \in Keys : j[1] \notin known' => ~mmu'.pti[j].inMemory
  BY <1>1, TodoHead DEF TodoInv, NoneEnters
<1> QED
  BY <1>2, <1>3, <1>4 DEF TodoInv

LEMMA ContentsKept ==
  ASSUME PagingInv, UNCHANGED written, Keeps(mmu, mmu')
  PROVE  Contents'
  BY DEF PagingInv, Contents, Keeps, SameHeld

LEMMA ContentsStored ==
  ASSUME PagingInv, NEW M, NEW k \in Keys, NEW d \in Data,
         Brought(mmu, M, k), M.pti[k].inMemory,
         mmu' = [M EXCEPT !.frames[M.pti[k].frame] = d],
         written' = [written EXCEPT ![k] = d]
  PROVE  /\ Good(mmu') /\ NoneEnters(mmu, mmu', k)
         /\ Contents' /\ written' \in [Keys -> Data]
<1>1. /\ Good(mmu')
      /\ mmu'.pti = M.pti
      /\ NoneDropped(mmu') => /\ NoneDropped(M)
                              /\ Held(mmu', k) = d
                              /\ \A j \in Keys : j # k => Held(mmu', j) = Held(M, j)
  BY StoreGood DEF Brought
<1>2. NoneEnters(mmu, mmu', k)
  BY <1>1 DEF Brought, NoneEnters
<1>3. written' \in [Keys -> Data]
  BY DEF PagingInv
<1>4. ASSUME NoneDropped(mmu'), NEW j \in Keys
      PROVE  Held(mmu', j) = written'[j]
  <2>1. Held(mmu', k) = d /\ NoneDropped(M)
    BY <1>1, <1>4
  <2>2. Held(mmu, j) = written[j] /\ Held(M, j) = Held(mmu, j)
    BY <2>1, <1>4 DEF PagingInv, Contents, Brought, Keeps, SameHeld
  <2>3. j # k => Held(mmu', j) = Held(M, j)
    BY <1>1, <1>4
  <2> QED
    BY <2>1, <2>2, <2>3 DEF PagingInv
<1> QED
  BY <1>1, <1>2, <1>3, <1>4 DEF Contents
-----------------------------------------------------------------------------
(* The actions *)

LEMMA AllocProcessKeeps ==
  ASSUME PagingInv, NEW p \in Pids, AllocProcess(p)
  PROVE  PagingInv'
<1> USE DEF AllocProcess
<1>1. Ordered(todo') /\ \A n \in DOMAIN todo' : todo'[n].key[1] = p
  BY TodoElements
<1>2. ASSUME NEW n \in DOMAIN todo'
      PROVE  todo'[n].key[1] \in known' /\ ~mmu'.pti[todo'[n].key].inMemory
  <2>1. todo'[n] \in Tasks
    BY <1>1 DEF Ordered
  <2>2. todo'[n].key \in Keys
    BY <2>1 DEF Tasks
  <2> QED
    BY <1>1, <2>2 DEF PagingInv, TodoInv
<1>3. \A k \in Keys : k[1] \notin known' => ~mmu'.pti[k].inMemory
  BY DEF PagingInv, TodoInv
<1>4. TodoInv'
  BY <1>1, <1>2, <1>3 DEF TodoInv
<1>5. /\ Good(mmu') /\ Contents' /\ known' \subseteq Pids
      /\ fresh' \in 0..Capacity /\ written' \in [Keys -> Data]
  BY DEF PagingInv, Contents
<1> QED
  BY <1>4, <1>5 DEF PagingInv

LEMMA CountFramesKeeps ==
  ASSUME PagingInv, CountFrames
  PROVE  PagingInv'
<1> USE DEF CountFrames
<1>1. TodoInv'
  <2>1. TodoInv
    BY DEF PagingInv
  <2> QED
    BY <2>1, TodoHead DEF TodoInv
<1>2. fresh' \in 0..Capacity
  <2>1. mmu.used \in HostedPages..Capacity
    BY DEF PagingInv, Good, GoodBut, Memories
  <2> QED
    BY <2>1, FramesAssumption
<1>3. Good(mmu') /\ Contents' /\ known' \subseteq Pids /\ written' \in [Keys -> Data]
  BY DEF PagingInv, Contents
<1> QED
  BY <1>1, <1>2, <1>3 DEF PagingInv

LEMMA AllocPageKeeps ==
  ASSUME PagingInv, AllocPage
  PROVE  PagingInv'
<1> USE DEF AllocPage
<1>1. Key \in Keys /\ ~mmu.pti[Key].inMemory
  BY TodoHead DEF PagingInv
<1>2. Brought(mmu, mmu', Key)
  BY <1>1, InsertPageGood DEF PagingInv
<1>3. TodoInv'
  BY <1>2, TaskDone DEF Brought
<1>4. Contents'
  BY <1>2, ContentsKept DEF Brought
<1>5. fresh' \in 0..Capacity
  BY FramesAssumption DEF PagingInv
<1> QED
  BY <1>2, <1>3, <1>4, <1>5 DEF PagingInv, Brought

LEMMA PointedGood ==
  ASSUME NEW M, Good(M), NEW k \in Keys
  PROVE  Brought(M, Pointed(M, k), k)
  BY PageFaultGood, KeepsItself DEF Pointed

LEMMA CopyPageKeeps ==
  ASSUME PagingInv, CopyPage
  PROVE  PagingInv'
<1> DEFINE M == Pointed(mmu, Key)
           d == Stored(Key, FromFile)
<1>1. Key \in Keys
  BY TodoHead DEF PagingInv, CopyPage
<1>2. Brought(mmu, M, Key)
  BY <1>1, PointedGood DEF PagingInv
<1>3. M.table[Key] # NoItem
  BY DEF CopyPage
<1>4. M.pti[Key].inMemory /\ M.pti[Key].frame = M.table[Key]
  BY <1>1, <1>2, <1>3 DEF Brought, Good, GoodBut, Agrees
<1>5. d \in Data
  BY <1>1, StoredType
<1>6. mmu' = [M EXCEPT !.frames[M.pti[Key].frame] = d]
  BY <1>4 DEF CopyPage
<1>7. written' = [written EXCEPT ![Key] = d]
  BY DEF CopyPage
<1> HIDE DEF M, d
<1>8. /\ Good(mmu') /\ NoneEnters(mmu, mmu', Key)
      /\ Contents' /\ written' \in [Keys -> Data]
  BY <1>1, <1>2, <1>4, <1>5, <1>6, <1>7, ContentsStored
<1>9. TodoInv' /\ known' \subseteq Pids /\ fresh' \in 0..Capacity
  BY <1>8, TaskDone DEF CopyPage, PagingInv
<1> QED
  BY <1>8, <1>9 DEF PagingInv

LEMMA CopyLostKeeps ==
  ASSUME PagingInv, CopyLost
  PROVE  PagingInv'
<1> USE DEF CopyLost
<1>1. Key \in Keys
  BY TodoHead DEF PagingInv
<1>2. Brought(mmu, mmu', Key)
  BY <1>1, PointedGood DEF PagingInv
<1>3. TodoInv'
  BY <1>2, TaskDone DEF Brought
<1>4. Contents'
  BY <1>2, ContentsKept DEF Brought
<1> QED
  BY <1>2, <1>3, <1>4 DEF PagingInv, Brought

LEMMA WriteKeeps ==
  ASSUME PagingInv, NEW k \in Keys, NEW v \in Versions, Write(k, v)
  PROVE  PagingInv'
<1> DEFINE M == Fetched(mmu, k)
           d == Stored(k, v)
<1>1. Brought(mmu, M, k)
  BY FetchedGood DEF PagingInv
<1>2. d \in Data
  BY StoredType
<1>3. /\ M.pti[k].inMemory
      /\ mmu' = [M EXCEPT !.frames[M.pti[k].frame] = d]
      /\ written' = [written EXCEPT ![k] = d]
      /\ Loaded(k) /\ UNCHANGED <<known, todo, fresh>>
  BY DEF Write
<1> HIDE DEF M, d
<1>4. /\ Good(mmu') /\ NoneEnters(mmu, mmu', k)
      /\ Contents' /\ written' \in [Keys -> Data]
  BY <1>1, <1>2, <1>3, ContentsStored
<1>5. TodoInv'
  BY <1>3, <1>4, AccessKeepsTodo
<1> QED
  BY <1>3, <1>4, <1>5 DEF PagingInv

\* A read brings the page, and stores nothing.
LEMMA ReadKeeps ==
  ASSUME PagingInv, NEW k \in Keys, Loaded(k), UNCHANGED <<known, todo, fresh, written>>,
         Brought(mmu, mmu', k)
  PROVE  PagingInv'
<1>1. TodoInv'
  BY AccessKeepsTodo DEF Brought
<1>2. Contents'
  BY ContentsKept DEF Brought
<1> QED
  BY <1>1, <1>2 DEF PagingInv, Brought

LEMMA ReadHitKeeps ==
  ASSUME PagingInv, NEW k \in Keys, ReadHit(k)
  PROVE  PagingInv'
<1>1. Brought(mmu, mmu', k)
  BY UsePageGood DEF ReadHit, PagingInv
<1> QED
  BY <1>1, ReadKeeps DEF ReadHit

LEMMA ReadFaultKeeps ==
  ASSUME PagingInv, NEW k \in Keys, ReadFault(k)
  PROVE  PagingInv'
<1> DEFINE M == pageFault(mmu, k)
<1>1. Brought(mmu, M, k)
  BY PageFaultGood DEF PagingInv
<1>2. mmu' = usePage(M, k)
  BY DEF ReadFault
<1> HIDE DEF M
<1>3. Brought(M, mmu', k)
  BY <1>1, <1>2, UsePageGood DEF Brought
<1>4. Brought(mmu, mmu', k)
  BY <1>1, <1>3, BroughtTwice
<1> QED
  BY <1>4, ReadKeeps DEF ReadFault

LEMMA StepKeeps == PagingInv /\ [Next]_vars => PagingInv'
<1> SUFFICES ASSUME PagingInv, [Next]_vars PROVE PagingInv'
  OBVIOUS
<1>1. ASSUME NEW p \in Pids, AllocProcess(p) PROVE PagingInv'
  BY <1>1, AllocProcessKeeps
<1>2. CASE AllocPage
  BY <1>2, AllocPageKeeps
<1>3. CASE CopyPage
  BY <1>3, CopyPageKeeps
<1>4. CASE CopyLost
  BY <1>4, CopyLostKeeps
<1>5. ASSUME NEW k \in Keys, NEW v \in Versions, Write(k, v) PROVE PagingInv'
  BY <1>5, WriteKeeps
<1>6. ASSUME NEW k \in Keys, ReadHit(k) PROVE PagingInv'
  BY <1>6, ReadHitKeeps
<1>7. ASSUME NEW k \in Keys, ReadFault(k) PROVE PagingInv'
  BY <1>7, ReadFaultKeeps
<1>8. CASE UNCHANGED vars
  BY <1>8 DEF vars, PagingInv, TodoInv, Contents
<1>9. CASE CountFrames
  BY <1>9, CountFramesKeeps
<1> QED
  BY <1>1, <1>2, <1>3, <1>4, <1>5, <1>6, <1>7, <1>8, <1>9 DEF Next
-----------------------------------------------------------------------------
(* The theorems *)

\* Memory keeps its invariant: tables, items, frames and swap space agree.
THEOREM PagingHolds == Spec => []PagingInv
<1>1. Init => PagingInv
  BY InitGood
<1>2. PagingInv /\ [Next]_vars => PagingInv'
  BY StepKeeps
<1> QED
  BY <1>1, <1>2, PTL DEF Spec

LEMMA PagingTyped == PagingInv => TypeOK
  BY DEF PagingInv, Good, GoodBut, TodoInv, Ordered, Tasks, TypeOK

\* Every variable keeps its type, for any number of frames, pages and swap pages.
THEOREM TypeCorrect == Spec => []TypeOK
<1>1. PagingInv => TypeOK
  BY PagingTyped
<1> QED
  BY <1>1, PagingHolds, PTL

LEMMA PagingMapped == PagingInv => MapTells
<1> SUFFICES ASSUME PagingInv PROVE MapTells
  OBVIOUS
<1>1. Agrees(mmu, NoItem)
  BY DEF PagingInv, Good, GoodBut
<1>2. \A i \in HostedPages + 1..mmu.used : i # NoItem
  BY FramesAssumption DEF NoItem
<1> QED
  BY <1>1, <1>2 DEF Agrees, MapTells

\* The page table (mPageTableMap), its items and the processes' own page tables
\* agree: no frame is that of two pages of the page table.
THEOREM MapTellsHolds == Spec => []MapTells
<1>1. PagingInv => MapTells
  BY PagingMapped
<1> QED
  BY <1>1, PagingHolds, PTL

LEMMA PagingOwned == PagingInv => SwapOwned
  BY DEF PagingInv, Good, GoodBut, Owned, SwapOwned

\* A page of the swap space is never handed out twice (allocSwapPage).
THEOREM SwapOwnedHolds == Spec => []SwapOwned
<1>1. PagingInv => SwapOwned
  BY PagingOwned
<1> QED
  BY <1>1, PagingHolds, PTL

LEMMA PagingHosted == PagingInv => HostedStay
  BY DEF PagingInv, Good, GoodBut, Framed, HostedStay

\* No page of a process is ever put in a frame of the operating system.
THEOREM HostedStayHolds == Spec => []HostedStay
<1>1. PagingInv => HostedStay
  BY PagingHosted
<1> QED
  BY <1>1, PagingHolds, PTL

LEMMA PagingTransparent == PagingInv => Transparent
  BY DEF PagingInv, Contents, NoneDropped, Transparent

\* Until a page is dropped (replaced without being saved), every page holds what was
\* last stored in it, wherever page faults, replacement and swapping have put it.
THEOREM TransparentHolds == Spec => []Transparent
<1>1. PagingInv => Transparent
  BY PagingTransparent
<1> QED
  BY <1>1, PagingHolds, PTL
=============================================================================
