------------------------------- MODULE Paging -------------------------------
(***************************************************************************)
(* Memory: the frames, the global page table with its LRU list, the page   *)
(* tables of the processes and the swap space (MMU, PageTable,             *)
(* PageTableItem, ProcessTableItem, and the swap part of FS).              *)
(*                                                                         *)
(* A page is one cell.  The page table item made when `used' pages are in  *)
(* use gets a new frame and keeps it: nothing in the program frees memory, *)
(* so items and frames are numbered alike, and the searches for a freed    *)
(* item, frame or swap page find none.                                     *)
(*                                                                         *)
(* The state of the memory is the record `mmu', so that a method is an     *)
(* operator from one such record to the next and methods compose as their  *)
(* calls do.  A process is created once: see the README on pids reused.    *)
(***************************************************************************)
EXTENDS Integers, Sequences

CONSTANTS Pids,            \* the processes
          PageCount,       \* pages of a process
          StackPageCount,  \* its last pages, the stack
          CodePages,       \* its first pages, read from the executable file
          HostedPages,     \* frames of the operating system, never replaced
          Capacity,        \* frames
          SwapSpacePage,   \* pages of the swap space
          Versions         \* what a program may write

ASSUME PagesAssumption ==
  /\ PageCount \in Nat /\ StackPageCount \in Nat /\ CodePages \in Nat
  /\ StackPageCount + CodePages <= PageCount
ASSUME FramesAssumption ==
  /\ HostedPages \in Nat \ {0} /\ Capacity \in Nat
  /\ HostedPages <= Capacity
ASSUME SwapAssumption == SwapSpacePage \in Nat
ASSUME VersionsAssumption == Versions \subseteq Nat \ {0}

Keys == Pids \X (0..PageCount - 1)   \* a process and a logical page
Items == 1..Capacity                 \* page table items, and their frames
NoItem == 0                          \* a NULL PageTableItem*, the address 0
Hosted == 1..HostedPages             \* the items whose mHosted is set
Swaps == 0..SwapSpacePage - 1
NoSwap == SwapSpacePage              \* the mSwapPage of a page never swapped out

\* What a page holds: nothing of anybody's, or what was last stored for a page
\* of a process, by loading its executable or by its program.
NoKey == <<>>
FromFile == 0
Clean == [key |-> NoKey, version |-> FromFile]
Stored(k, v) == [key |-> k, version |-> v]
Data == {Clean} \cup [key: Keys, version: Versions \cup {FromFile}]

VARIABLES mmu,      \* the memory: see TypeOK
          known,    \* the pids of mProcessTable
          todo,     \* allocProcess in progress: what is left of it
          fresh,    \* frames that allocUserMemory has found unused and still counts on
          written   \* history: what was last stored for each page

vars == <<mmu, known, todo, fresh, written>>
-----------------------------------------------------------------------------
(* The LRU list: the head, and the links towards it (pre) and from it (next).
   mLRUStackTail is set by the first page inserted and never again. *)

Tail1 == 1

\* insertPage: the item `i', whose links are null, becomes the head.
push(L, i) ==
  [head |-> i,
   next |-> [L.next EXCEPT ![i] = L.head],
   pre  |-> IF L.head = NoItem THEN L.pre ELSE [L.pre EXCEPT ![L.head] = i]]

\* usedPage: the item leaves its place and becomes the head.  Its own `pre' is
\* not cleared, and the tail is not moved.
usedPage(L, i) ==
  LET unlinked == IF L.pre[i] = NoItem THEN L.next
                  ELSE [L.next EXCEPT ![L.pre[i]] = L.next[i]]
      after    == unlinked[i]
      joined   == IF after = NoItem THEN L.pre
                  ELSE [L.pre EXCEPT ![after] = L.pre[i]]
  IN  [head |-> i,
       next |-> [unlinked EXCEPT ![i] = L.head],
       pre  |-> IF L.head = NoItem THEN joined ELSE [joined EXCEPT ![L.head] = i]]

\* The walk of schedule(): from the tail towards the head, past hosted items.
walk(L) ==
  LET at[n \in 0..HostedPages] ==
        IF n = 0 THEN Tail1
        ELSE IF at[n - 1] \in Hosted THEN L.pre[at[n - 1]] ELSE at[n - 1]
  IN  at[HostedPages]

\* The item to replace; there may be none.
Replaceable(M) == walk(M.lru) \in Items \ Hosted
-----------------------------------------------------------------------------
(* Operations on the memory *)

NewPage == [frame |-> NoItem, swapPage |-> NoSwap, swapped |-> FALSE, inMemory |-> FALSE]

hasSwapped(P) == P.swapPage # NoSwap

\* Mutant: the frame is cleared before it is dumped.
swapOutClearFirst(M, k) ==
  IF M.swapAlloced = SwapSpacePage THEN M
  ELSE [M EXCEPT !.swapAlloced = @ + 1,
                 !.swap[M.swapAlloced] = Clean,
                 !.frames[M.pti[k].frame] = Clean,
                 !.pti[k] = [@ EXCEPT !.swapPage = M.swapAlloced,
                                      !.swapped = TRUE,
                                      !.inMemory = FALSE]]

\* Mutant: the counter of swap pages is left alone.
swapOutUncounted(M, k) ==
  IF M.swapAlloced = SwapSpacePage THEN M
  ELSE [M EXCEPT !.swap[M.swapAlloced] = M.frames[M.pti[k].frame],
                 !.frames[M.pti[k].frame] = Clean,
                 !.pti[k] = [@ EXCEPT !.swapPage = M.swapAlloced,
                                      !.swapped = TRUE,
                                      !.inMemory = FALSE]]

\* swapOutMemory of a page that has no swap page yet: allocSwapPage, dump, clear.
swapOutMemory(M, k) ==
  IF M.swapAlloced = SwapSpacePage THEN M
  ELSE [M EXCEPT !.swapAlloced = @ + 1,
                 !.swap[M.swapAlloced] = M.frames[M.pti[k].frame],
                 !.frames[M.pti[k].frame] = Clean,
                 !.pti[k] = [@ EXCEPT !.swapPage = M.swapAlloced,
                                      !.swapped = TRUE,
                                      !.inMemory = FALSE]]

\* Mutant: the page replaced stays in the page table.
evictKeepsEntry(M, k) == IF hasSwapped(M.pti[k]) THEN M ELSE swapOutMemory(M, k)

\* schedule() on the page replaced.  mChanged of a process's own item is never
\* set, so a page that has been swapped out before is dropped.
evict(M, k) ==
  [IF hasSwapped(M.pti[k]) THEN M ELSE swapOutMemory(M, k)
   EXCEPT !.table[k] = NoItem]

\* updateAll, with updatePageTable and swapIntoMemory.
updateAll(M, k, i) ==
  [M EXCEPT !.frames[i] = IF M.pti[k].swapped THEN M.swap[M.pti[k].swapPage] ELSE @,
            !.pti[k] = [@ EXCEPT !.frame = i, !.swapped = FALSE, !.inMemory = TRUE]]

\* The item `i' becomes that of the page `k', at the head of the list `L'.
assign(M, k, i, L) ==
  updateAll([M EXCEPT !.item[i] = k, !.table[k] = i, !.lru = L], k, i)

\* Mutant: the tail is taken, hosted or not.
scheduleTail(M, k) == assign(M, k, Tail1, usedPage(M.lru, Tail1))

schedule(M, k) ==
  IF Replaceable(M)
  THEN LET v == walk(M.lru)
       IN  assign(evict(M, M.item[v]), k, v, usedPage(M.lru, v))
  ELSE M

\* Mutant: one page more than there are frames.
insertPageOneMore(M, k) ==
  IF M.used <= Capacity
  THEN assign([M EXCEPT !.used = @ + 1], k, M.used + 1, push(M.lru, M.used + 1))
  ELSE schedule(M, k)

\* insertPage: a frame nobody has used, or replacement.
insertPage(M, k) ==
  IF M.used < Capacity
  THEN assign([M EXCEPT !.used = @ + 1], k, M.used + 1, push(M.lru, M.used + 1))
  ELSE schedule(M, k)

pageFault(M, k) ==
  IF M.pti[k].inMemory THEN M
  ELSE IF M.pti[k].swapped THEN schedule(M, k)
  ELSE insertPage(M, k)

\* usePage, which does nothing for a page that is not in the page table.
usePage(M, k) ==
  IF M.table[k] = NoItem THEN M ELSE [M EXCEPT !.lru = usedPage(@, M.table[k])]

\* The processor's access to a page: its item is moved to the head of the list if
\* it has one, and the page is brought into memory if it is not there.
Fetched(M, k) == pageFault(usePage(M, k), k)
-----------------------------------------------------------------------------
(* allocProcess *)

Steps(op, p, first, count) == [i \in 1..count |-> [op |-> op, key |-> <<p, first + i - 1>>]]

Idling == todo = <<>>
Op == Head(todo).op
Key == Head(todo).key

\* allocUserMemory of `count' pages: the unused frames are counted, if there is a page
\* to be allocated, and then the pages are inserted one by one.
Allocation(p, first, count) ==
  Steps("count", p, first, IF count = 0 THEN 0 ELSE 1) \o Steps("alloc", p, first, count)

\* The process's own page table is filled.  Its stack and its code are to be
\* allocated, and then its code to be copied.
AllocProcess(p) ==
  /\ Idling
  /\ p \notin known
  /\ known' = known \cup {p}
  /\ todo' = Allocation(p, PageCount - StackPageCount, StackPageCount)
             \o Allocation(p, 0, CodePages) \o Steps("copy", p, 0, CodePages)
  /\ UNCHANGED <<mmu, fresh, written>>

\* getNeedAllocFrameCount.  (getAvailableFrameCount finds none, as no frame is freed.)
CountFrames ==
  /\ ~Idling
  /\ Op = "count"
  /\ fresh' = Capacity - mmu.used
  /\ todo' = Tail(todo)
  /\ UNCHANGED <<mmu, known, written>>

\* One page, in an unused frame as long as one has been counted.  If faults have taken
\* them since, getNeedAllocFrame finds none, and the simulator ends: no step.
AllocPage ==
  /\ ~Idling
  /\ Op = "alloc"
  /\ fresh > 0 => mmu.used < Capacity
  /\ mmu' = insertPage(mmu, Key)
  /\ fresh' = IF fresh > 0 THEN fresh - 1 ELSE 0
  /\ todo' = Tail(todo)
  /\ UNCHANGED <<known, written>>

\* getPhysicalPointer, which asks the page table and not the process's own table.
Pointed(M, k) == IF M.table[k] = NoItem THEN pageFault(M, k) ELSE M

\* One page of the executable is read to where getPhysicalPointer points.
CopyPage ==
  /\ ~Idling
  /\ Op = "copy"
  /\ LET M == Pointed(mmu, Key)
     IN  /\ M.table[Key] # NoItem
         /\ mmu' = [M EXCEPT !.frames[M.table[Key]] = Stored(Key, FromFile)]
  /\ written' = [written EXCEPT ![Key] = Stored(Key, FromFile)]
  /\ todo' = Tail(todo)
  /\ UNCHANGED <<known, fresh>>

\* It points nowhere: readFile fails, and nobody looks at its result.
CopyLost ==
  /\ ~Idling
  /\ Op = "copy"
  /\ Pointed(mmu, Key).table[Key] = NoItem
  /\ mmu' = Pointed(mmu, Key)
  /\ todo' = Tail(todo)
  /\ UNCHANGED <<known, fresh, written>>
-----------------------------------------------------------------------------
(* The accesses of the processor, which runs the processes that are loaded.  It has a
   thread of its own, and does not wait for the shell's to load another one. *)

Loading(p) == \E n \in DOMAIN todo : todo[n].key[1] = p
Loaded(k)  == k[1] \in known /\ ~Loading(k[1])

\* ProcessTableItem::write within one page.  A page fault that fails makes it fail,
\* with nothing changed.
Write(k, v) ==
  /\ Loaded(k)
  /\ LET M == Fetched(mmu, k)
     IN  /\ M.pti[k].inMemory
         /\ mmu' = [M EXCEPT !.frames[M.pti[k].frame] = Stored(k, v)]
  /\ written' = [written EXCEPT ![k] = Stored(k, v)]
  /\ UNCHANGED <<known, todo, fresh>>

\* readByte of a page in memory.
ReadHit(k) ==
  /\ Loaded(k)
  /\ mmu.pti[k].inMemory
  /\ mmu' = usePage(mmu, k)
  /\ UNCHANGED <<known, todo, fresh, written>>

\* readByte of a page that is not: after the page fault it starts again.
ReadFault(k) ==
  /\ Loaded(k)
  /\ ~mmu.pti[k].inMemory
  /\ LET M == pageFault(mmu, k)
     IN  /\ M.pti[k].inMemory
         /\ mmu' = usePage(M, k)
  /\ UNCHANGED <<known, todo, fresh, written>>
-----------------------------------------------------------------------------
\* After MMU::init, which inserted the hosted pages one after the other.
Init ==
  /\ mmu = [pti   |-> [k \in Keys |-> NewPage],
            table |-> [k \in Keys |-> NoItem],
            item  |-> [i \in Items |-> NoKey],
            used  |-> HostedPages,
            lru   |-> [head |-> HostedPages,
                       next |-> [i \in Items |-> IF i \in Hosted THEN i - 1 ELSE NoItem],
                       pre  |-> [i \in Items |-> IF i < HostedPages THEN i + 1 ELSE NoItem]],
            frames |-> [i \in Items |-> Clean],
            swap   |-> [s \in Swaps |-> Clean],
            swapAlloced |-> 0]
  /\ known = {}
  /\ todo = <<>>
  /\ fresh = 0
  /\ written = [k \in Keys |-> Clean]

Next ==
  \/ \E p \in Pids : AllocProcess(p)
  \/ CountFrames
  \/ AllocPage
  \/ CopyPage
  \/ CopyLost
  \/ \E k \in Keys, v \in Versions : Write(k, v)
  \/ \E k \in Keys : ReadHit(k)
  \/ \E k \in Keys : ReadFault(k)

Spec == Init /\ [][Next]_vars
-----------------------------------------------------------------------------
ProcessItems == [frame: Items \cup {NoItem}, swapPage: Swaps \cup {NoSwap},
                 swapped: BOOLEAN, inMemory: BOOLEAN]
Links == [Items -> Items \cup {NoItem}]
Lists == [head: Items, next: Links, pre: Links]
Memories ==
  [pti: [Keys -> ProcessItems],               \* the processes' own page tables
   table: [Keys -> Items \cup {NoItem}],      \* mPageTableMap
   item: [Items -> Keys \cup {NoKey}],        \* mLogicalPage and mPid of an item
   used: HostedPages..Capacity,               \* mUsed
   lru: Lists,
   frames: [Items -> Data],
   swap: [Swaps -> Data],
   swapAlloced: 0..SwapSpacePage]             \* mSwapAllocPage

TypeOK ==
  /\ mmu \in Memories
  /\ known \subseteq Pids
  /\ todo \in Seq([op: {"count", "alloc", "copy"}, key: Keys])
  /\ fresh \in 0..Capacity
  /\ written \in [Keys -> Data]

\* The page table, the items and the processes' own tables tell the same story: a
\* page that the page table holds has an item of its own, which is not one of the
\* operating system's, and is in the item's frame; every item in use is some page's.
MapTells ==
  /\ \A k \in Keys :
        LET i == mmu.table[k]
        IN  i # NoItem => /\ i \in HostedPages + 1..mmu.used
                          /\ mmu.item[i] = k
                          /\ mmu.pti[k].inMemory
                          /\ mmu.pti[k].frame = i
  /\ \A i \in HostedPages + 1..mmu.used :
        mmu.item[i] \in Keys /\ mmu.table[mmu.item[i]] = i

\* A page of the swap space that has been handed out belongs to one page, and a page
\* that is swapped out has one: no page is overwritten by another's.
SwapOwned ==
  /\ \A k \in Keys : hasSwapped(mmu.pti[k]) => mmu.pti[k].swapPage < mmu.swapAlloced
  /\ \A k \in Keys : mmu.pti[k].swapped => hasSwapped(mmu.pti[k])
  /\ \A k, l \in Keys :
        hasSwapped(mmu.pti[k]) /\ mmu.pti[k].swapPage = mmu.pti[l].swapPage => k = l

\* No process's page is in a frame of the operating system, not even one that has
\* been dropped: system memory is not written by programs.
HostedStay == \A k \in Keys : mmu.pti[k].frame \notin Hosted

\* A page has been dropped: replaced without being saved, because it had been
\* swapped out before or because the swap space was full.
Dropped(M, k) == M.pti[k].inMemory /\ M.table[k] = NoItem

\* What a process finds in its page.
Held(M, k) ==
  IF M.pti[k].inMemory THEN M.frames[M.pti[k].frame]
  ELSE IF M.pti[k].swapped THEN M.swap[M.pti[k].swapPage]
  ELSE Clean

\* Paging is transparent: as long as no page has been dropped, every page holds
\* what was last stored in it, wherever it has been since.
Transparent ==
  (\A k \in Keys : ~Dropped(mmu, k)) => \A k \in Keys : Held(mmu, k) = written[k]

\* Replacement finds a page whenever a frame is not the operating system's: a comment
\* in schedule() says that it fails only if all are.
ScheduleFinds == mmu.used = Capacity /\ HostedPages < Capacity => Replaceable(mmu)

\* A process never finds another's data in a page: a comment in pageFault() says
\* that this is why a frame is filled when its page is swapped out.
NoLeak == \A k \in Keys : Held(mmu, k) # Clean => Held(mmu, k).key[1] = k[1]
=============================================================================
