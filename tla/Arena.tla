-------------------------------- MODULE Arena --------------------------------
(***************************************************************************)
(* The arena the objects of the library are allocated from: an array of     *)
(* pages, a cursor into the last one, and counters that are printed as the  *)
(* memory report.  Freed memory is cleared and never handed out again.  The *)
(* arena has no lock; here one thread calls it, so each call is one step.   *)
(***************************************************************************)
EXTENDS Integers, Sequences, FiniteSets

CONSTANTS PageSize,   (* kPageSize  *)
          Alignment,  (* kAlignment *)
          MaxPages,   (* kMaxPages  *)
          Sizes,      (* the sizes that are asked for *)
          MaxAllocs,  (* bound: allocations in one behaviour *)
          MaxNulls    (* bound: releases of a null pointer *)

\* Sizes are sizes of objects; allocate_in_arena() asserts size < kPageSize.
ASSUME ArenaAssumption ==
  /\ PageSize \in Nat \ {0} /\ Alignment \in Nat \ {0} /\ MaxPages \in Nat \ {0}
  /\ Sizes \subseteq 1..(PageSize - 1)
  /\ MaxAllocs \in Nat /\ MaxNulls \in Nat

VARIABLES
  pages,              (* the indices of pages[] that hold a page  *)
  num_pages,
  page_allocation_cursor,
  page_cursor,
  total_allocations,
  bytes_allocated,
  bytes_freed,
  handed,             (* history: the blocks handed out, in order *)
  living,             (* the indices in handed of those not freed *)
  lost,               (* history: the bytes of freed blocks that were not given back *)
  nulls,              (* history: the releases of null, and the bytes they gave back *)
  phase               (* "new", "open", "closed", or "aborted" by a failed assertion *)

cursors == <<page_allocation_cursor, page_cursor>>
counters == <<total_allocations, bytes_allocated, bytes_freed>>
returned == <<lost, nulls>>
vars == <<pages, num_pages, cursors, counters, handed, living, returned, phase>>

Block == [page : Nat, offset : Nat, size : Sizes]

Init ==
  /\ pages = {} /\ num_pages = 0
  /\ page_allocation_cursor = 0 /\ page_cursor = 0
  /\ total_allocations = 0 /\ bytes_allocated = 0 /\ bytes_freed = 0
  /\ handed = <<>> /\ living = {}
  /\ lost = {} /\ nulls = [calls |-> 0, bytes |-> 0]
  /\ phase = "new"

\* allocate_arena(), which allocates the first page
Open ==
  /\ phase = "new" /\ phase' = "open"
  /\ pages' = {0} /\ num_pages' = 1 /\ page_allocation_cursor' = 0
  /\ total_allocations' = 1 /\ bytes_allocated' = PageSize
  /\ UNCHANGED <<page_cursor, bytes_freed, handed, living, returned>>

-----------------------------------------------------------------------------
(* allocate_in_arena() *)

\* The cursor at the next multiple of kAlignment.
Aligned(c) == IF c % Alignment # 0 THEN c + (Alignment - (c % Alignment)) ELSE c

\* Fault: the block must fit even if it is padded.
FitsPadded(s) == Aligned(page_cursor) + Aligned(s) < PageSize

\* The block fits in the page; the last byte of a page is never used.
Fits(s) == Aligned(page_cursor) + s < PageSize

\* The block is recorded and counted with the bytes of the page it needed, if any.
HandOut(p, offset, s, new) ==
  /\ page_allocation_cursor' = p /\ page_cursor' = offset + s
  /\ handed' = Append(handed, [page |-> p, offset |-> offset, size |-> s])
  /\ living' = living \cup {Len(handed) + 1}
  /\ total_allocations' = total_allocations + new + 1
  /\ bytes_allocated' = bytes_allocated + new * PageSize + s
  /\ UNCHANGED <<bytes_freed, returned, phase>>

Allocates(s) == phase = "open" /\ Len(handed) < MaxAllocs /\ s \in Sizes

AllocateInPage(s) ==
  /\ Allocates(s) /\ Fits(s)
  /\ HandOut(page_allocation_cursor, Aligned(page_cursor), s, 0)
  /\ UNCHANGED <<pages, num_pages>>

\* Fault: the cursor is not reset for the new page.
AllocateInNextPageKeepsCursor(s) ==
  /\ Allocates(s) /\ ~Fits(s)
  /\ page_allocation_cursor + 1 < MaxPages
  /\ pages' = pages \cup {page_allocation_cursor + 1} /\ num_pages' = num_pages + 1
  /\ HandOut(page_allocation_cursor + 1, Aligned(page_cursor), s, 1)

\* Fault: the index of the page may be kMaxPages.
AllocateInNextPageUnchecked(s) ==
  /\ Allocates(s) /\ ~Fits(s)
  /\ page_allocation_cursor + 1 <= MaxPages
  /\ pages' = pages \cup {page_allocation_cursor + 1} /\ num_pages' = num_pages + 1
  /\ HandOut(page_allocation_cursor + 1, 0, s, 1)

\* with allocate_next_page()
AllocateInNextPage(s) ==
  /\ Allocates(s) /\ ~Fits(s)
  /\ page_allocation_cursor + 1 < MaxPages
  /\ pages' = pages \cup {page_allocation_cursor + 1} /\ num_pages' = num_pages + 1
  /\ HandOut(page_allocation_cursor + 1, 0, s, 1)

\* The assertion of allocate_next_page() ends the program.
AllocateFails(s) ==
  /\ Allocates(s) /\ ~Fits(s)
  /\ page_allocation_cursor + 1 >= MaxPages
  /\ page_allocation_cursor' = page_allocation_cursor + 1 /\ page_cursor' = Aligned(page_cursor)
  /\ phase' = "aborted"
  /\ UNCHANGED <<pages, num_pages, counters, handed, living, returned>>

-----------------------------------------------------------------------------
(* deallocate_from_arena(), which knows a block by the size its caller names *)

\* Fault: a freed block, the last one or not, gives its bytes back to the page.
FreeRewinds(i, s) ==
  /\ phase = "open" /\ i \in living /\ s <= handed[i].size
  /\ living' = living \ {i}
  /\ page_cursor' = page_cursor - s
  /\ total_allocations' = total_allocations - 1
  /\ bytes_freed' = bytes_freed + s
  /\ lost' = lost \cup ({i} \X ((s + 1)..handed[i].size))
  /\ UNCHANGED <<pages, num_pages, page_allocation_cursor, bytes_allocated, handed, nulls, phase>>

\* Fault: freed bytes are also taken off the allocated ones.
FreeCountsTwice(i, s) ==
  /\ phase = "open" /\ i \in living /\ s <= handed[i].size
  /\ living' = living \ {i}
  /\ total_allocations' = total_allocations - 1
  /\ bytes_freed' = bytes_freed + s
  /\ bytes_allocated' = bytes_allocated - s
  /\ lost' = lost \cup ({i} \X ((s + 1)..handed[i].size))
  /\ UNCHANGED <<pages, num_pages, cursors, handed, nulls, phase>>

\* arena_allocator<T>::free() passes sizeof(T), where T is the class of the pointer: that of
\* the object, or a base of it, which is smaller.
Free(i, s) ==
  /\ phase = "open" /\ i \in living /\ s <= handed[i].size
  /\ living' = living \ {i}
  /\ total_allocations' = total_allocations - 1
  /\ bytes_freed' = bytes_freed + s
  /\ lost' = lost \cup ({i} \X ((s + 1)..handed[i].size))
  /\ UNCHANGED <<pages, num_pages, cursors, bytes_allocated, handed, nulls, phase>>

\* A null pointer is not cleared, but counted like a block.
FreeNull(s) ==
  /\ phase = "open" /\ nulls.calls < MaxNulls
  /\ total_allocations' = total_allocations - 1
  /\ bytes_freed' = bytes_freed + s
  /\ nulls' = [calls |-> nulls.calls + 1, bytes |-> nulls.bytes + s]
  /\ UNCHANGED <<pages, num_pages, cursors, bytes_allocated, handed, living, lost, phase>>

\* The loop of deallocate_arena() compares its index with num_pages, which each of its
\* rounds decrements: it reaches the pages i with i < num_pages - i.
LoopFrees == {i \in pages : i < num_pages - i}

\* deallocate_arena(), at the end of the program
Close ==
  /\ phase = "open" /\ phase' = "closed"
  /\ pages' = pages \ LoopFrees
  /\ num_pages' = num_pages - Cardinality(LoopFrees)
  /\ page_allocation_cursor' = 0 /\ page_cursor' = 0
  /\ total_allocations' = 0 /\ bytes_allocated' = 0 /\ bytes_freed' = 0
  /\ living' = {}
  /\ UNCHANGED <<handed, returned>>

Next ==
  \/ Open \/ Close
  \/ \E s \in Sizes : AllocateInPage(s) \/ AllocateInNextPage(s) \/ AllocateFails(s)
  \/ \E s \in Sizes : FreeNull(s) \/ \E i \in living : Free(i, s)

Spec == Init /\ [][Next]_vars

-----------------------------------------------------------------------------
(* Properties *)

\* The shape of the arena: the pages are indices of pages[] and every block that was
\* handed out is recorded.
TypeOK ==
  /\ pages \subseteq 0..(MaxPages - 1) /\ num_pages \in Nat
  /\ page_allocation_cursor \in 0..MaxPages /\ page_cursor \in Nat
  /\ total_allocations \in Int /\ bytes_allocated \in Int /\ bytes_freed \in Int
  /\ handed \in Seq(Block)
  /\ living \subseteq 1..Len(handed)
  /\ lost \subseteq (1..Len(handed)) \X Nat /\ nulls \in [calls : Nat, bytes : Nat]
  /\ phase \in {"new", "open", "closed", "aborted"}

\* Blocks i and j share no byte.
Apart(i, j) ==
  \/ handed[i].page # handed[j].page
  \/ handed[i].offset + handed[i].size <= handed[j].offset
  \/ handed[j].offset + handed[j].size <= handed[i].offset

\* allocate_in_arena(): two living objects never share memory, in whatever order objects of
\* whatever sizes are allocated and freed.
BlocksDisjoint == \A i, j \in living : i = j \/ Apart(i, j)

\* A living block lies in a page the arena holds and starts at a multiple of kAlignment.
BlocksInPages ==
  \A i \in living : /\ handed[i].page \in pages
                    /\ handed[i].offset % Alignment = 0
                    /\ handed[i].offset + handed[i].size <= PageSize

\* arena::living_memory()
living_memory == bytes_allocated - bytes_freed

\* The bytes of the living blocks, by block and place in it
LivingBytes == UNION {{i} \X (1..handed[i].size) : i \in living}

\* What the memory report counts: every page and every living block once, and of a freed block
\* the bytes that its release did not name, for as long as the arena lives.  Only releases of
\* null make it count too little.  (The counters are words; the account is one modulo 2^64.)
AccountsAgree ==
  phase = "open" =>
    /\ num_pages = Cardinality(pages)
    /\ total_allocations + nulls.calls = num_pages + Cardinality(living)
    /\ living_memory + nulls.bytes = num_pages * PageSize + Cardinality(LivingBytes \cup lost)

\* allocate_next_page() is called only for a block that did not fit behind the last one:
\* two blocks that follow each other on different pages fill a page together.
PagesArePacked ==
  \A i \in 1..(Len(handed) - 1) :
    handed[i].page # handed[i + 1].page =>
      Aligned(handed[i].offset + handed[i].size) + handed[i + 1].size >= PageSize

\* deallocate_arena() says of the memory that was leaked that it is "cleaned up by arena":
\* no page is left when the arena is closed.
ArenaReturnsPages == phase = "closed" => pages = {}
=============================================================================
