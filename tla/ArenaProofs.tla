----------------------------- MODULE ArenaProofs -----------------------------
(***************************************************************************)
(* Two living blocks of the arena never share memory and each lies aligned  *)
(* in a page the arena holds, for every page size, alignment, number of     *)
(* pages and set of sizes.  BlocksDisjoint is not inductive: a new block is *)
(* placed with the cursors alone, so the invariant says that every block    *)
(* handed out lies before the cursors.  Then the types, the packing of the  *)
(* pages, which follow from the shape of the history of blocks (ShapeInv),  *)
(* and the report: it counts the bytes of the blocks that live and those    *)
(* that a release left behind, two sets that a call changes by one block.   *)
(***************************************************************************)
EXTENDS Arena, FiniteSetTheorems, TLAPS

\* Block i ends before the next free byte.
Behind(i) ==
  \/ handed[i].page < page_allocation_cursor
  \/ /\ handed[i].page = page_allocation_cursor
     /\ handed[i].offset + handed[i].size <= page_cursor

\* What placing a block reads and writes has its type.
PlacesOK ==
  /\ page_allocation_cursor \in Nat /\ page_cursor \in Nat
  /\ handed \in Seq(Block)
  /\ living \subseteq 1..Len(handed)

\* While the arena is used every block is behind the cursors; blocks never share a byte,
\* freed or not.
ArenaInv ==
  /\ PlacesOK
  /\ phase = "new" => page_cursor = 0 /\ handed = <<>>
  /\ phase \in {"new", "open"} => \A i \in 1..Len(handed) : Behind(i)
  /\ \A i, j \in 1..Len(handed) : i = j \/ Apart(i, j)

\* The cursor is aligned upwards.
LEMMA AlignedUp ==
  ASSUME NEW c \in Nat
  PROVE  Aligned(c) \in Nat /\ Aligned(c) >= c
BY ArenaAssumption DEF Aligned

\* A block is placed at the cursors or further: whatever the page it goes to, it shares no
\* byte with an earlier block and lies behind the new cursors.
LEMMA HandOutStep ==
  ASSUME ArenaInv, phase = "open",
         NEW s \in Sizes, NEW p \in Nat, NEW offset \in Nat, NEW new \in Nat,
         \/ p = page_allocation_cursor /\ offset >= page_cursor
         \/ p > page_allocation_cursor,
         HandOut(p, offset, s, new)
  PROVE  ArenaInv'
<1> SUFFICES ASSUME NEW n \in Nat, n = Len(handed) PROVE ArenaInv'
  BY DEF ArenaInv, PlacesOK
<1> DEFINE b == [page |-> p, offset |-> offset, size |-> s]
<1>1. /\ page_allocation_cursor' = p /\ page_cursor' = offset + s
      /\ handed' = Append(handed, b)
      /\ living' = living \cup {n + 1}
      /\ phase' = phase
  BY DEF HandOut
<1>2. /\ page_allocation_cursor \in Nat /\ page_cursor \in Nat
      /\ handed \in Seq(Block) /\ n \in Nat
      /\ living \subseteq 1..n
      /\ \A i \in 1..n : handed[i] \in Block
  BY DEF ArenaInv, PlacesOK
<1>3. /\ s \in Nat /\ b \in Block
      /\ \A x \in Block : x.page \in Nat /\ x.offset \in Nat /\ x.size \in Nat
  <2>1. Sizes \subseteq Nat
    BY ArenaAssumption
  <2>2. b \in Block
    BY DEF Block
  <2>3. ASSUME NEW x \in Block PROVE x.page \in Nat /\ x.offset \in Nat /\ x.size \in Sizes
    BY DEF Block
  <2> QED
    BY <2>1, <2>2, <2>3
<1>4. /\ handed' \in Seq(Block) /\ Len(handed') = n + 1
      /\ handed'[n + 1] = b
      /\ \A i \in 1..n : handed'[i] = handed[i]
  <2> HIDE DEF b
  <2> QED
    BY <1>1, <1>2, <1>3
<1>5. b.page = p /\ b.offset = offset /\ b.size = s
  OBVIOUS
<1> HIDE DEF b
<1>6. PlacesOK'
  <2>1. living' \subseteq 1..(n + 1)
    <3>1. 1..n \subseteq 1..(n + 1) /\ n + 1 \in 1..(n + 1)
      OBVIOUS
    <3> QED
      BY <3>1, <1>1, <1>2
  <2> QED
    BY <1>1, <1>3, <1>4, <2>1 DEF PlacesOK
<1>7. \A i \in 1..n : Behind(i) /\ \A j \in 1..n : i = j \/ Apart(i, j)
  BY DEF ArenaInv
<1>8. \A i \in 1..(n + 1) : Behind(i)'
  <2>1. ASSUME NEW i \in 1..n PROVE Behind(i)'
    <3> DEFINE end == handed[i].offset + handed[i].size
    <3>1. handed[i].page \in Nat /\ end \in Nat
      BY <1>2, <1>3
    <3>2. handed[i].page < page_allocation_cursor
            \/ (handed[i].page = page_allocation_cursor /\ end <= page_cursor)
      BY <1>7 DEF Behind
    <3>3. handed[i].page < p \/ (handed[i].page = p /\ end <= offset + s)
      <4> HIDE DEF end
      <4> QED
        BY <3>1, <3>2, <1>2, <1>3
    <3>4. handed'[i] = handed[i]
      BY <1>4
    <3> QED
      BY <3>3, <3>4, <1>1 DEF Behind
  <2>2. Behind(n + 1)'
    BY <1>1, <1>4, <1>5 DEF Behind
  <2> QED
    BY <2>1, <2>2, <1>2
<1>9. ASSUME NEW i \in 1..n PROVE Apart(i, n + 1)' /\ Apart(n + 1, i)'
  <2>1. /\ handed[i].page \in Nat /\ handed[i].offset \in Nat /\ handed[i].size \in Nat
        /\ handed'[i] = handed[i]
    BY <1>2, <1>3, <1>4
  <2> QED
    BY <2>1, <1>2, <1>4, <1>5, <1>7 DEF Behind, Apart
<1>10. ASSUME NEW i \in 1..n, NEW j \in 1..n PROVE i = j \/ Apart(i, j)'
  BY <1>4, <1>7 DEF Apart
<1>11. \A i, j \in 1..(n + 1) : i = j \/ Apart(i, j)'
  BY <1>2, <1>9, <1>10
<1> QED
  BY <1>1, <1>4, <1>6, <1>8, <1>11 DEF ArenaInv

\* Every call keeps the blocks apart and behind the cursors.
LEMMA ArenaStep == ArenaInv /\ [Next]_vars => ArenaInv'
<1> SUFFICES ASSUME ArenaInv, [Next]_vars PROVE ArenaInv'
  OBVIOUS
<1>1. CASE Open
  BY <1>1 DEF Open, ArenaInv, PlacesOK, Apart, Behind
<1>2. CASE Close
  BY <1>2 DEF Close, ArenaInv, PlacesOK, Apart
<1>3. ASSUME NEW s \in Sizes, AllocateInPage(s) PROVE ArenaInv'
  <2>1. Aligned(page_cursor) \in Nat /\ Aligned(page_cursor) >= page_cursor
    BY AlignedUp DEF ArenaInv, PlacesOK
  <2> QED
    BY <1>3, <2>1, HandOutStep DEF AllocateInPage, Allocates, ArenaInv, PlacesOK
<1>4. ASSUME NEW s \in Sizes, AllocateInNextPage(s) PROVE ArenaInv'
  BY <1>4, HandOutStep DEF AllocateInNextPage, Allocates, ArenaInv, PlacesOK
<1>5. ASSUME NEW s \in Sizes, AllocateFails(s) PROVE ArenaInv'
  <2>1. Aligned(page_cursor) \in Nat
    BY AlignedUp DEF ArenaInv, PlacesOK
  <2> QED
    BY <1>5, <2>1 DEF AllocateFails, ArenaInv, PlacesOK, Apart
<1>6. ASSUME NEW s \in Sizes, NEW i \in living, Free(i, s) PROVE ArenaInv'
  BY <1>6 DEF Free, cursors, ArenaInv, PlacesOK, Apart, Behind
<1>7. ASSUME NEW s \in Sizes, FreeNull(s) PROVE ArenaInv'
  BY <1>7 DEF FreeNull, cursors, ArenaInv, PlacesOK, Apart, Behind
<1>8. CASE UNCHANGED vars
  BY <1>8 DEF vars, cursors, ArenaInv, PlacesOK, Apart, Behind
<1> QED
  BY <1>1, <1>2, <1>3, <1>4, <1>5, <1>6, <1>7, <1>8 DEF Next

\* allocate_in_arena(): two living objects never share memory.
THEOREM DistinctBlocksShareNoByte == Spec => []BlocksDisjoint
<1>1. Init => ArenaInv
  BY DEF Init, ArenaInv, PlacesOK, Apart, Behind
<1>2. ArenaInv => BlocksDisjoint
  BY DEF ArenaInv, PlacesOK, BlocksDisjoint
<1> QED
  BY <1>1, <1>2, ArenaStep, PTL DEF Spec

-----------------------------------------------------------------------------
\* The page a block is taken from is one the arena holds.
PagesInv ==
  /\ ArenaInv
  /\ phase = "open" => page_allocation_cursor \in pages
  /\ BlocksInPages

\* The cursor is aligned to a multiple of kAlignment.
LEMMA AlignedDivides ==
  ASSUME NEW c \in Nat
  PROVE  Aligned(c) % Alignment = 0
<1>1. CASE c % Alignment = 0
  BY <1>1 DEF Aligned
<1>2. CASE c % Alignment # 0
  <2> DEFINE q == c \div Alignment
  <2>1. q \in Int /\ c % Alignment \in 0..(Alignment - 1)
    BY ArenaAssumption
  <2>2. c = Alignment * q + (c % Alignment)
    BY ArenaAssumption
  <2>3. Aligned(c) = Alignment * (q + 1)
    BY <1>2, <2>1, <2>2, ArenaAssumption DEF Aligned
  <2>4. ASSUME NEW k \in Int PROVE (Alignment * k) % Alignment = 0
    BY ArenaAssumption
  <2> QED
    BY <2>1, <2>3, <2>4
<1> QED
  BY <1>1, <1>2

\* A block that is placed at an aligned offset and fits in its page keeps BlocksInPages.
LEMMA HandOutInPage ==
  ASSUME PagesInv, phase = "open",
         NEW s \in Sizes, NEW p \in Nat, NEW offset \in Nat, NEW new \in Nat,
         offset % Alignment = 0, offset + s <= PageSize,
         p \in pages', pages \subseteq pages',
         HandOut(p, offset, s, new)
  PROVE  (phase = "open" => page_allocation_cursor \in pages)' /\ BlocksInPages'
<1> DEFINE b == [page |-> p, offset |-> offset, size |-> s]
<1>1. handed \in Seq(Block) /\ living \subseteq 1..Len(handed) /\ Len(handed) \in Nat
  BY DEF PagesInv, ArenaInv, PlacesOK
<1>2. s \in Nat /\ b \in Block
  BY ArenaAssumption DEF Block
<1>3. /\ handed' = Append(handed, b)
      /\ living' = living \cup {Len(handed) + 1}
      /\ page_allocation_cursor' = p
  BY DEF HandOut
<1> HIDE DEF b
<1>4. /\ handed'[Len(handed) + 1] = b
      /\ \A i \in 1..Len(handed) : handed'[i] = handed[i]
  BY <1>1, <1>2, <1>3
<1>5. b.page = p /\ b.offset = offset /\ b.size = s
  BY DEF b
<1>6. ASSUME NEW i \in living'
      PROVE  /\ handed'[i].page \in pages' /\ handed'[i].offset % Alignment = 0
             /\ handed'[i].offset + handed'[i].size <= PageSize
  <2>1. CASE i \in living
    <3>1. handed'[i] = handed[i]
      BY <2>1, <1>1, <1>4
    <3>2. /\ handed[i].page \in pages /\ handed[i].offset % Alignment = 0
          /\ handed[i].offset + handed[i].size <= PageSize
      BY <2>1 DEF PagesInv, BlocksInPages
    <3> QED
      BY <3>1, <3>2
  <2>2. CASE i = Len(handed) + 1
    BY <2>2, <1>4, <1>5
  <2> QED
    BY <2>1, <2>2, <1>3
<1> QED
  BY <1>3, <1>6 DEF BlocksInPages

\* Every call keeps the living blocks in the pages of the arena.
LEMMA PagesStep == PagesInv /\ [Next]_vars => PagesInv'
<1> SUFFICES ASSUME PagesInv, [Next]_vars
             PROVE  (phase = "open" => page_allocation_cursor \in pages)' /\ BlocksInPages'
  BY ArenaStep DEF PagesInv
<1> USE DEF PagesInv
<1>1. CASE Open
  <2>1. living = {}
    BY <1>1 DEF Open, ArenaInv, PlacesOK
  <2> QED
    BY <1>1, <2>1 DEF Open, BlocksInPages
<1>2. CASE Close
  BY <1>2 DEF Close, BlocksInPages
<1>3. ASSUME NEW s \in Sizes, AllocateInPage(s)
      PROVE  (phase = "open" => page_allocation_cursor \in pages)' /\ BlocksInPages'
  <2>1. /\ Aligned(page_cursor) \in Nat /\ Aligned(page_cursor) % Alignment = 0
        /\ page_allocation_cursor \in Nat
    BY AlignedUp, AlignedDivides DEF ArenaInv, PlacesOK
  <2>2. Aligned(page_cursor) + s <= PageSize
    BY <1>3, <2>1, ArenaAssumption DEF AllocateInPage, Fits
  <2> QED
    BY <1>3, <2>1, <2>2, HandOutInPage DEF AllocateInPage, Allocates
<1>4. ASSUME NEW s \in Sizes, AllocateInNextPage(s)
      PROVE  (phase = "open" => page_allocation_cursor \in pages)' /\ BlocksInPages'
  <2>1. page_allocation_cursor + 1 \in Nat
    BY DEF ArenaInv, PlacesOK
  <2>2. 0 % Alignment = 0 /\ 0 + s <= PageSize
    BY ArenaAssumption
  <2>3. page_allocation_cursor + 1 \in pages' /\ pages \subseteq pages'
    BY <1>4 DEF AllocateInNextPage
  <2> QED
    BY <1>4, <2>1, <2>2, <2>3, HandOutInPage DEF AllocateInNextPage, Allocates
<1>5. ASSUME NEW s \in Sizes, AllocateFails(s)
      PROVE  (phase = "open" => page_allocation_cursor \in pages)' /\ BlocksInPages'
  BY <1>5 DEF AllocateFails, BlocksInPages
<1>6. ASSUME NEW s \in Sizes, NEW i \in living, Free(i, s)
      PROVE  (phase = "open" => page_allocation_cursor \in pages)' /\ BlocksInPages'
  BY <1>6 DEF Free, cursors, BlocksInPages
<1>7. ASSUME NEW s \in Sizes, FreeNull(s)
      PROVE  (phase = "open" => page_allocation_cursor \in pages)' /\ BlocksInPages'
  BY <1>7 DEF FreeNull, cursors, BlocksInPages
<1>8. CASE UNCHANGED vars
  BY <1>8 DEF vars, cursors, BlocksInPages
<1> QED
  BY <1>1, <1>2, <1>3, <1>4, <1>5, <1>6, <1>7, <1>8 DEF Next

\* allocate_in_arena(): the memory of a living object is aligned to kAlignment and lies in a
\* page the arena holds.
THEOREM BlocksLieInPages == Spec => []BlocksInPages
<1>1. Init => PagesInv
  BY DEF Init, PagesInv, ArenaInv, PlacesOK, Apart, Behind, BlocksInPages
<1>2. PagesInv => BlocksInPages
  BY DEF PagesInv
<1> QED
  BY <1>1, <1>2, PagesStep, PTL DEF Spec

-----------------------------------------------------------------------------
\* The pages are those up to the cursor and num_pages counts them; the last block ends at the
\* cursors.
Shape ==
  /\ TypeOK
  /\ phase = "new" => /\ num_pages = 0 /\ pages = {} /\ living = {} /\ bytes_freed = 0
                      /\ lost = {} /\ nulls = [calls |-> 0, bytes |-> 0]
  /\ phase = "open" =>
       /\ page_allocation_cursor < MaxPages /\ pages \subseteq 0..page_allocation_cursor
       /\ num_pages = Cardinality(pages)
       /\ handed # <<>> => /\ handed[Len(handed)].page = page_allocation_cursor
                           /\ handed[Len(handed)].offset + handed[Len(handed)].size = page_cursor
  /\ PagesArePacked

ShapeInv == PagesInv /\ Shape

\* What a block that is handed out makes of the history: the last block ends at the cursors, and
\* it is on the page of the block before it unless the two fill a page.
LEMMA HandOutPacks ==
  ASSUME ShapeInv, phase = "open",
         NEW s \in Sizes, NEW p \in 0..(MaxPages - 1), NEW offset \in Nat, NEW new \in {0, 1},
         p = page_allocation_cursor \/ ~Fits(s),
         HandOut(p, offset, s, new)
  PROVE  /\ handed' \in Seq(Block) /\ living' \subseteq 1..Len(handed')
         /\ lost' \subseteq (1..Len(handed')) \X Nat /\ nulls' \in [calls : Nat, bytes : Nat]
         /\ page_cursor' \in Nat /\ page_allocation_cursor' \in 0..MaxPages
         /\ total_allocations' \in Int /\ bytes_allocated' \in Int
         /\ handed'[Len(handed')].page = page_allocation_cursor'
         /\ handed'[Len(handed')].offset + handed'[Len(handed')].size = page_cursor'
         /\ PagesArePacked'
<1> DEFINE b == [page |-> p, offset |-> offset, size |-> s]
<1> SUFFICES ASSUME NEW n \in Nat, n = Len(handed) PROVE
         /\ handed' \in Seq(Block) /\ living' \subseteq 1..Len(handed')
         /\ lost' \subseteq (1..Len(handed')) \X Nat /\ nulls' \in [calls : Nat, bytes : Nat]
         /\ page_cursor' \in Nat /\ page_allocation_cursor' \in 0..MaxPages
         /\ total_allocations' \in Int /\ bytes_allocated' \in Int
         /\ handed'[Len(handed')].page = page_allocation_cursor'
         /\ handed'[Len(handed')].offset + handed'[Len(handed')].size = page_cursor'
         /\ PagesArePacked'
  BY DEF ShapeInv, Shape, TypeOK
<1>1. /\ page_allocation_cursor' = p /\ page_cursor' = offset + s
      /\ handed' = Append(handed, b) /\ living' = living \cup {n + 1}
      /\ total_allocations' = total_allocations + new + 1
      /\ bytes_allocated' = bytes_allocated + new * PageSize + s
  BY DEF HandOut
<1>2. s \in Nat /\ PageSize \in Nat /\ MaxPages \in Nat /\ p \in Nat
  BY ArenaAssumption
<1>3. b \in Block /\ b.page = p /\ b.offset = offset /\ b.size = s
  BY <1>2 DEF Block
<1> HIDE DEF b
<1>4. /\ handed \in Seq(Block) /\ living \subseteq 1..n
      /\ total_allocations \in Int /\ bytes_allocated \in Int
  BY DEF ShapeInv, Shape, TypeOK
<1>5. /\ handed' \in Seq(Block) /\ Len(handed') = n + 1 /\ handed'[n + 1] = b
      /\ \A i \in 1..n : handed'[i] = handed[i]
  BY <1>1, <1>3, <1>4
<1>6. living' \subseteq 1..(n + 1)
  <2>1. 1..n \subseteq 1..(n + 1) /\ n + 1 \in 1..(n + 1)
    OBVIOUS
  <2> QED BY <2>1, <1>1, <1>4
<1>7. total_allocations' \in Int /\ bytes_allocated' \in Int
  <2>1. new * PageSize \in Int
    BY <1>2
  <2> QED BY <2>1, <1>1, <1>2, <1>4
<1>8. PagesArePacked'
  <2> SUFFICES ASSUME NEW i \in 1..n, handed'[i].page # handed'[i + 1].page
               PROVE  Aligned(handed'[i].offset + handed'[i].size) + handed'[i + 1].size >= PageSize
    BY <1>5 DEF PagesArePacked, Aligned
  <2>1. CASE i \in 1..(n - 1)
    <3>1. i + 1 \in 1..n /\ handed'[i] = handed[i] /\ handed'[i + 1] = handed[i + 1]
      BY <2>1, <1>5
    <3> QED BY <2>1, <3>1 DEF ShapeInv, Shape, PagesArePacked
  <2>2. CASE i = n
    <3>1. handed'[i] = handed[n] /\ handed'[i + 1] = b /\ handed # <<>>
      BY <2>2, <1>4, <1>5
    <3>2. handed[n].page = page_allocation_cursor /\ handed[n].offset + handed[n].size = page_cursor
      BY <3>1 DEF ShapeInv, Shape
    <3>3. ~Fits(s)
      BY <3>1, <3>2, <1>3
    <3>4. Aligned(page_cursor) \in Nat
      BY AlignedUp DEF ShapeInv, PagesInv, ArenaInv, PlacesOK
    <3> QED BY <3>1, <3>2, <3>3, <3>4, <1>2, <1>3 DEF Fits
  <2> QED BY <2>1, <2>2
<1>9. lost' \subseteq (1..(n + 1)) \X Nat /\ nulls' \in [calls : Nat, bytes : Nat]
  <2>1. lost' = lost /\ nulls' = nulls
    BY DEF HandOut, returned
  <2>2. lost \subseteq (1..n) \X Nat /\ nulls \in [calls : Nat, bytes : Nat]
    BY DEF ShapeInv, Shape, TypeOK
  <2>3. (1..n) \X Nat \subseteq (1..(n + 1)) \X Nat
    OBVIOUS
  <2> QED BY <2>1, <2>2, <2>3
<1> QED BY <1>1, <1>2, <1>3, <1>5, <1>6, <1>7, <1>8, <1>9

\* Adding a page that is not there yet.
LEMMA NextPageCounted ==
  ASSUME NEW c \in Nat, NEW S, S \subseteq 0..c
  PROVE  Cardinality(S \cup {c + 1}) = Cardinality(S) + 1 /\ S \cup {c + 1} \subseteq 0..(c + 1)
         /\ Cardinality(S) \in Nat
<1>1. IsFiniteSet(0..c)
  BY FS_Interval
<1>2. IsFiniteSet(S) /\ Cardinality(S) \in Nat
  BY <1>1, FS_Subset, FS_CardinalityType
<1>3. c + 1 \notin S
  OBVIOUS
<1> QED BY <1>2, <1>3, FS_AddElement

\* Every call keeps the types of the arena and its pages packed.
LEMMA ShapeStep == ShapeInv /\ [Next]_vars => ShapeInv'
<1> SUFFICES ASSUME ShapeInv, [Next]_vars PROVE ShapeInv'
  OBVIOUS
<1>1. PagesInv'
  BY PagesStep DEF ShapeInv
<1>2. /\ Shape /\ TypeOK /\ PagesArePacked /\ MaxPages \in Nat \ {0} /\ PageSize \in Nat \ {0}
      /\ phase = "new" => page_cursor = 0 /\ handed = <<>>
  BY ArenaAssumption DEF ShapeInv, Shape, PagesInv, ArenaInv
<1>3. SUFFICES Shape'
  BY <1>1 DEF ShapeInv
<1>4. CASE Open
  <2>1. /\ pages' = {0} /\ num_pages' = 1 /\ page_allocation_cursor' = 0 /\ phase' = "open"
        /\ total_allocations' = 1 /\ bytes_allocated' = PageSize
        /\ UNCHANGED <<page_cursor, bytes_freed, handed, living, lost, nulls>>
    BY <1>4 DEF Open, returned
  <2>2. handed = <<>>
    BY <1>2, <1>4 DEF Open
  <2>3. Cardinality({0}) = 1
    BY FS_Singleton
  <2>4. PagesArePacked'
    BY <2>1, <1>2 DEF PagesArePacked, Aligned
  <2> QED BY <2>1, <2>2, <2>3, <2>4, <1>2 DEF Shape, TypeOK
<1>5. CASE Close
  <2>1. /\ phase = "open" /\ phase' = "closed" /\ pages' = pages \ LoopFrees
        /\ num_pages' = num_pages - Cardinality(LoopFrees)
        /\ page_allocation_cursor' = 0 /\ page_cursor' = 0
        /\ total_allocations' = 0 /\ bytes_allocated' = 0 /\ bytes_freed' = 0
        /\ living' = {} /\ UNCHANGED <<handed, lost, nulls>>
    BY <1>5 DEF Close, returned
  <2>2. num_pages' \in Nat
    <3>1. pages \subseteq 0..page_allocation_cursor /\ num_pages = Cardinality(pages)
          /\ page_allocation_cursor \in Int
      BY <1>2, <2>1 DEF Shape, TypeOK
    <3>2. IsFiniteSet(pages)
      <4>1. IsFiniteSet(0..page_allocation_cursor)
        BY <3>1, FS_Interval
      <4> QED BY <4>1, <3>1, FS_Subset
    <3>3. LoopFrees \in SUBSET pages
      BY DEF LoopFrees
    <3>4. IsFiniteSet(LoopFrees) /\ Cardinality(LoopFrees) <= Cardinality(pages)
      BY <3>2, <3>3, FS_Subset
    <3>5. Cardinality(LoopFrees) \in Nat /\ Cardinality(pages) \in Nat
      BY <3>2, <3>4, FS_CardinalityType
    <3> QED BY <2>1, <3>1, <3>4, <3>5
  <2>3. PagesArePacked'
    BY <2>1, <1>2 DEF PagesArePacked, Aligned
  <2>4. TypeOK'
    <3>1. /\ pages' \subseteq 0..(MaxPages - 1) /\ handed' \in Seq(Block)
          /\ lost' \subseteq (1..Len(handed')) \X Nat /\ nulls' \in [calls : Nat, bytes : Nat]
      BY <2>1, <1>2 DEF TypeOK
    <3>2. page_allocation_cursor' \in 0..MaxPages
      BY <2>1, <1>2
    <3> QED BY <2>1, <2>2, <3>1, <3>2 DEF TypeOK
  <2> QED BY <2>1, <2>3, <2>4 DEF Shape
<1>6. ASSUME NEW s \in Sizes, AllocateInPage(s) PROVE Shape'
  <2> DEFINE p == page_allocation_cursor
  <2>1. /\ phase = "open" /\ HandOut(p, Aligned(page_cursor), s, 0) /\ UNCHANGED <<pages, num_pages>>
    BY <1>6 DEF AllocateInPage, Allocates
  <2>2. p \in 0..(MaxPages - 1) /\ Aligned(page_cursor) \in Nat
    BY <2>1, <1>2, AlignedUp DEF Shape, TypeOK
  <2>3. UNCHANGED <<phase, bytes_freed, page_allocation_cursor>>
    BY <2>1 DEF HandOut
  <2>4. /\ handed' \in Seq(Block) /\ living' \subseteq 1..Len(handed')
        /\ lost' \subseteq (1..Len(handed')) \X Nat /\ nulls' \in [calls : Nat, bytes : Nat]
        /\ page_cursor' \in Nat /\ page_allocation_cursor' \in 0..MaxPages
        /\ total_allocations' \in Int /\ bytes_allocated' \in Int
        /\ handed'[Len(handed')].page = page_allocation_cursor'
        /\ handed'[Len(handed')].offset + handed'[Len(handed')].size = page_cursor'
        /\ PagesArePacked'
    BY <2>1, <2>2, HandOutPacks
  <2> QED BY <2>1, <2>3, <2>4, <1>2 DEF Shape, TypeOK
<1>7. ASSUME NEW s \in Sizes, AllocateInNextPage(s) PROVE Shape'
  <2> DEFINE p == page_allocation_cursor + 1
  <2>1. /\ phase = "open" /\ HandOut(p, 0, s, 1) /\ ~Fits(s) /\ p < MaxPages
        /\ pages' = pages \cup {p} /\ num_pages' = num_pages + 1
    BY <1>7 DEF AllocateInNextPage, Allocates
  <2>2. p \in 0..(MaxPages - 1) /\ page_allocation_cursor \in Nat
    BY <2>1, <1>2 DEF TypeOK
  <2>3. UNCHANGED <<phase, bytes_freed>> /\ page_allocation_cursor' = p
    BY <2>1 DEF HandOut
  <2>4. /\ handed' \in Seq(Block) /\ living' \subseteq 1..Len(handed')
        /\ lost' \subseteq (1..Len(handed')) \X Nat /\ nulls' \in [calls : Nat, bytes : Nat]
        /\ page_cursor' \in Nat /\ page_allocation_cursor' \in 0..MaxPages
        /\ total_allocations' \in Int /\ bytes_allocated' \in Int
        /\ handed'[Len(handed')].page = page_allocation_cursor'
        /\ handed'[Len(handed')].offset + handed'[Len(handed')].size = page_cursor'
        /\ PagesArePacked'
    BY <2>1, <2>2, HandOutPacks
  <2>5. num_pages' = Cardinality(pages') /\ pages' \subseteq 0..p /\ num_pages' \in Nat
    <3>1. pages \subseteq 0..page_allocation_cursor /\ num_pages = Cardinality(pages)
      BY <2>1, <1>2 DEF Shape
    <3>2. /\ Cardinality(pages \cup {p}) = Cardinality(pages) + 1 /\ pages \cup {p} \subseteq 0..p
          /\ Cardinality(pages) \in Nat
      BY <2>2, <3>1, NextPageCounted
    <3> QED BY <2>1, <3>1, <3>2
  <2>6. pages' \subseteq 0..(MaxPages - 1)
    BY <2>1, <2>2, <1>2 DEF TypeOK
  <2> QED BY <2>1, <2>3, <2>4, <2>5, <2>6, <1>2 DEF Shape, TypeOK
<1>8. ASSUME NEW s \in Sizes, AllocateFails(s) PROVE Shape'
  <2>1. /\ phase = "open" /\ phase' = "aborted"
        /\ page_allocation_cursor' = page_allocation_cursor + 1 /\ page_cursor' = Aligned(page_cursor)
        /\ UNCHANGED <<pages, num_pages, counters, handed, living, lost, nulls>>
    BY <1>8 DEF AllocateFails, Allocates, returned
  <2>2. Aligned(page_cursor) \in Nat
    BY <1>2, AlignedUp DEF TypeOK
  <2>3. PagesArePacked'
    BY <2>1, <1>2 DEF PagesArePacked, Aligned
  <2> QED BY <2>1, <2>2, <2>3, <1>2 DEF Shape, TypeOK, counters
<1>9. ASSUME NEW s \in Sizes, NEW i \in living, Free(i, s) PROVE Shape'
  <2>1. /\ phase = "open" /\ phase' = phase /\ living' = living \ {i}
        /\ total_allocations' = total_allocations - 1 /\ bytes_freed' = bytes_freed + s
        /\ lost' = lost \cup ({i} \X ((s + 1)..handed[i].size))
        /\ UNCHANGED <<pages, num_pages, page_allocation_cursor, page_cursor, bytes_allocated, handed, nulls>>
    BY <1>9 DEF Free, cursors
  <2>2. s \in Nat
    BY ArenaAssumption
  <2>3. lost' \subseteq (1..Len(handed)) \X Nat
    <3>1. i \in 1..Len(handed) /\ (s + 1)..handed[i].size \subseteq Nat
      BY <2>2, <1>2 DEF TypeOK
    <3>2. lost \subseteq (1..Len(handed)) \X Nat
      BY <1>2 DEF TypeOK
    <3>3. {i} \X ((s + 1)..handed[i].size) \subseteq (1..Len(handed)) \X Nat
      BY <3>1
    <3> QED BY <2>1, <3>2, <3>3
  <2>4. PagesArePacked'
    BY <2>1, <1>2 DEF PagesArePacked, Aligned
  <2> QED BY <2>1, <2>2, <2>3, <2>4, <1>2 DEF Shape, TypeOK
<1>10. ASSUME NEW s \in Sizes, FreeNull(s) PROVE Shape'
  <2>1. /\ phase = "open" /\ phase' = phase
        /\ total_allocations' = total_allocations - 1 /\ bytes_freed' = bytes_freed + s
        /\ nulls' = [calls |-> nulls.calls + 1, bytes |-> nulls.bytes + s]
        /\ UNCHANGED <<pages, num_pages, page_allocation_cursor, page_cursor, bytes_allocated, handed,
                       living, lost>>
    BY <1>10 DEF FreeNull, cursors
  <2>2. s \in Nat
    BY ArenaAssumption
  <2>3. nulls' \in [calls : Nat, bytes : Nat]
    <3>1. nulls.calls \in Nat /\ nulls.bytes \in Nat
      BY <1>2 DEF TypeOK
    <3> QED BY <2>1, <2>2, <3>1
  <2>4. PagesArePacked'
    BY <2>1, <1>2 DEF PagesArePacked, Aligned
  <2> QED BY <2>1, <2>2, <2>3, <2>4, <1>2 DEF Shape, TypeOK
<1>11. CASE UNCHANGED vars
  <2>1. PagesArePacked'
    BY <1>11, <1>2 DEF vars, PagesArePacked, Aligned
  <2> QED BY <1>11, <1>2, <2>1 DEF vars, cursors, counters, returned, Shape, TypeOK
<1> QED BY <1>4, <1>5, <1>6, <1>7, <1>8, <1>9, <1>10, <1>11 DEF Next

\* The counters, the cursors and the history of the arena have their types, for every page size,
\* alignment, number of pages and set of sizes: in particular deallocate_arena() never takes more
\* from num_pages than it holds.
THEOREM ArenaTypes == Spec => []TypeOK
<1>1. Init => ShapeInv
  BY ArenaAssumption DEF Init, ShapeInv, Shape, PagesInv, ArenaInv, PlacesOK, Apart, Behind, BlocksInPages,
     TypeOK, PagesArePacked
<1>2. ShapeInv => TypeOK
  BY DEF ShapeInv, Shape
<1> QED BY <1>1, <1>2, ShapeStep, PTL DEF Spec

\* allocate_next_page() wastes no page: the block it is called for does not fit behind the last
\* one.
THEOREM PagesStayPacked == Spec => []PagesArePacked
<1>1. Init => ShapeInv
  BY ArenaAssumption DEF Init, ShapeInv, Shape, PagesInv, ArenaInv, PlacesOK, Apart, Behind, BlocksInPages,
     TypeOK, PagesArePacked
<1>2. ShapeInv => PagesArePacked
  BY DEF ShapeInv, Shape
<1> QED BY <1>1, <1>2, ShapeStep, PTL DEF Spec

-----------------------------------------------------------------------------
\* The bytes the report counts besides the pages
Counted == LivingBytes \cup lost

\* The report is a number; here it is that of the bytes it counts, to which a call adds those of
\* one block, or takes away the ones it names.
AccountsInv ==
  /\ ShapeInv
  /\ IsFiniteSet(living) /\ IsFiniteSet(Counted)
  /\ \A x \in lost : x[1] \notin living
  /\ AccountsAgree

\* The bytes of one block.
LEMMA BlockBytes ==
  ASSUME NEW i \in Nat, NEW s \in Nat
  PROVE  IsFiniteSet({i} \X (1..s)) /\ Cardinality({i} \X (1..s)) = s
<1>1. IsFiniteSet({i}) /\ Cardinality({i}) = 1
  BY FS_Singleton
<1>2. IsFiniteSet(1..s) /\ Cardinality(1..s) = s
  BY FS_Interval
<1>3. /\ IsFiniteSet({i} \X (1..s))
      /\ Cardinality({i} \X (1..s)) = Cardinality({i}) * Cardinality(1..s)
  BY <1>1, <1>2, FS_Product
<1> QED BY <1>1, <1>2, <1>3

\* A block that is handed out is counted with the page that was taken for it.
LEMMA HandOutCounted ==
  ASSUME AccountsInv, phase = "open",
         NEW s \in Sizes, NEW p \in Nat, NEW offset \in Nat, NEW new \in {0, 1},
         num_pages' = num_pages + new, num_pages' = Cardinality(pages'),
         HandOut(p, offset, s, new)
  PROVE  /\ IsFiniteSet(living') /\ IsFiniteSet(Counted')
         /\ (\A x \in lost : x[1] \notin living)' /\ AccountsAgree'
<1> DEFINE n == Len(handed)
           b == [page |-> p, offset |-> offset, size |-> s]
           B == {n + 1} \X (1..s)
<1>1. /\ handed' = Append(handed, b) /\ living' = living \cup {n + 1}
      /\ total_allocations' = total_allocations + new + 1
      /\ bytes_allocated' = bytes_allocated + new * PageSize + s /\ bytes_freed' = bytes_freed
      /\ phase' = phase /\ lost' = lost /\ nulls' = nulls
  BY DEF HandOut, returned
<1>2. s \in Nat /\ PageSize \in Nat /\ b \in Block /\ b.size = s
  BY ArenaAssumption DEF Block
<1> HIDE DEF b
<1>3. /\ handed \in Seq(Block) /\ n \in Nat /\ living \subseteq 1..n /\ num_pages \in Nat
      /\ total_allocations \in Int /\ bytes_allocated \in Int /\ bytes_freed \in Int
      /\ nulls.calls \in Nat /\ nulls.bytes \in Nat
  BY DEF AccountsInv, ShapeInv, Shape, TypeOK
<1>4. handed'[n + 1] = b /\ \A i \in living : handed'[i] = handed[i]
  <2>1. handed' = Append(handed, b) /\ handed \in Seq(Block) /\ b \in Block /\ living \subseteq 1..Len(handed)
    BY <1>1, <1>2, <1>3
  <2> QED BY <2>1
<1>5. n + 1 \notin living /\ \A x \in lost : x[1] # n + 1
  <2>1. \A x \in lost : x[1] \in 1..n
    BY DEF AccountsInv, ShapeInv, Shape, TypeOK
  <2> HIDE DEF n
  <2> QED BY <2>1, <1>3
<1>6. /\ IsFiniteSet(living) /\ IsFiniteSet(Counted)
      /\ Cardinality(living) \in Nat /\ Cardinality(Counted) \in Nat
  BY FS_CardinalityType DEF AccountsInv
<1>7. IsFiniteSet(living') /\ Cardinality(living') = Cardinality(living) + 1
  BY <1>1, <1>5, <1>6, FS_AddElement
<1>8. IsFiniteSet(B) /\ Cardinality(B) = s
  <2>1. n + 1 \in Nat
    BY <1>3
  <2> HIDE DEF n
  <2> QED BY <1>2, <2>1, BlockBytes
<1>9. Counted' = Counted \cup B
  <2>1. \A i \in living : {i} \X (1..handed'[i].size) = {i} \X (1..handed[i].size)
    BY <1>4
  <2>2. {n + 1} \X (1..handed'[n + 1].size) = B
    BY <1>2, <1>4
  <2> HIDE DEF B
  <2>3. LivingBytes' = UNION {{i} \X (1..handed'[i].size) : i \in living \cup {n + 1}}
    BY <1>1 DEF LivingBytes
  <2>4. UNION {{i} \X (1..handed'[i].size) : i \in living \cup {n + 1}}
          = (UNION {{i} \X (1..handed'[i].size) : i \in living}) \cup ({n + 1} \X (1..handed'[n + 1].size))
    OBVIOUS
  <2>5. UNION {{i} \X (1..handed'[i].size) : i \in living} = LivingBytes
    BY <2>1 DEF LivingBytes
  <2>6. LivingBytes' = LivingBytes \cup B
    BY <2>2, <2>3, <2>4, <2>5
  <2> QED BY <2>6, <1>1 DEF Counted
<1>10. Counted \cap B = {}
  <2> SUFFICES ASSUME NEW x \in Counted, x \in B PROVE FALSE
    OBVIOUS
  <2>1. x[1] = n + 1
    OBVIOUS
  <2>2. CASE x \in lost
    BY <2>1, <2>2, <1>5
  <2>3. CASE x \in LivingBytes
    <3>1. PICK i \in living : x \in {i} \X (1..handed[i].size)
      BY <2>3 DEF LivingBytes
    <3>2. x[1] = i
      BY <3>1
    <3> QED BY <2>1, <3>2, <1>5
  <2> QED BY <2>2, <2>3 DEF Counted
<1> HIDE DEF B
<1>11. IsFiniteSet(Counted') /\ Cardinality(Counted') = Cardinality(Counted) + s
  <2>1. IsFiniteSet(Counted \cup B) /\ Cardinality(Counted \cup B)
          = Cardinality(Counted) + Cardinality(B) - Cardinality(Counted \cap B)
    BY <1>6, <1>8, FS_Union
  <2>2. Cardinality(Counted \cap B) = 0
    BY <1>10, FS_EmptySet
  <2> QED BY <2>1, <2>2, <1>2, <1>6, <1>8, <1>9
<1>12. /\ total_allocations + nulls.calls = num_pages + Cardinality(living)
       /\ bytes_allocated - bytes_freed + nulls.bytes = num_pages * PageSize + Cardinality(Counted)
  BY DEF AccountsInv, AccountsAgree, living_memory, Counted
<1>13. total_allocations' + nulls'.calls = num_pages' + Cardinality(living')
  <2>1. PICK c, k \in Nat : c = Cardinality(living) /\ k = nulls.calls
    BY <1>3, <1>6
  <2>2. /\ Cardinality(living') = c + 1 /\ total_allocations + k = num_pages + c /\ new \in Nat
        /\ nulls'.calls = k
    BY <2>1, <1>1, <1>7, <1>12
  <2> QED BY <2>2, <1>1, <1>3
<1>14. bytes_allocated' - bytes_freed' + nulls'.bytes = num_pages' * PageSize + Cardinality(Counted')
  <2>1. (num_pages + new) * PageSize = num_pages * PageSize + new * PageSize
    <3>1. CASE new = 0
      BY <1>2, <1>3, <3>1
    <3>2. CASE new = 1
      BY <1>2, <1>3, <3>2
    <3> QED BY <3>1, <3>2
  <2>2. PICK k, m \in Int : k = new * PageSize /\ m = num_pages * PageSize
    BY <1>2, <1>3
  <2>3. PICK c, z \in Nat : c = Cardinality(Counted) /\ z = nulls.bytes
    BY <1>3, <1>6
  <2>4. /\ num_pages' * PageSize = m + k /\ Cardinality(Counted') = c + s
        /\ bytes_allocated - bytes_freed + z = m + c
        /\ bytes_allocated' = bytes_allocated + k + s /\ bytes_freed' = bytes_freed
        /\ nulls'.bytes = z
    BY <2>1, <2>2, <2>3, <1>1, <1>11, <1>12
  <2>5. PICK a, f \in Int : a = bytes_allocated /\ f = bytes_freed
    BY <1>3
  <2>6. a - f + z = m + c /\ s \in Int
    BY <2>4, <2>5, <1>2
  <2>7. (a + k + s) - f + z = (m + k) + (c + s)
    BY <2>6
  <2> QED BY <2>4, <2>5, <2>7
<1>15. (\A x \in lost : x[1] \notin living)'
  BY <1>1, <1>5 DEF AccountsInv
<1> QED BY <1>1, <1>7, <1>11, <1>13, <1>14, <1>15 DEF AccountsAgree, living_memory, Counted

\* A block that is freed is no longer counted; of its bytes, those the release names are not.
LEMMA FreeCounted ==
  ASSUME AccountsInv, NEW s \in Sizes, NEW i \in living, Free(i, s)
  PROVE  /\ IsFiniteSet(living') /\ IsFiniteSet(Counted')
         /\ (\A x \in lost : x[1] \notin living)' /\ AccountsAgree'
<1> DEFINE size == handed[i].size
           B == {i} \X (1..s)
           L == {i} \X ((s + 1)..size)
<1>1. /\ phase = "open" /\ phase' = phase /\ living' = living \ {i} /\ s <= size
      /\ total_allocations' = total_allocations - 1 /\ bytes_freed' = bytes_freed + s
      /\ lost' = lost \cup L
      /\ UNCHANGED <<pages, num_pages, bytes_allocated, handed, nulls>>
  BY DEF Free
<1>2. /\ handed \in Seq(Block) /\ living \subseteq 1..Len(handed) /\ num_pages \in Nat
      /\ total_allocations \in Int /\ bytes_allocated \in Int /\ bytes_freed \in Int
      /\ nulls.calls \in Nat /\ nulls.bytes \in Nat
  BY DEF AccountsInv, ShapeInv, Shape, TypeOK
<1>3. i \in Nat /\ s \in Nat /\ size \in Nat /\ PageSize \in Nat
  <2>1. handed[i] \in Block /\ i \in Nat
    BY <1>2
  <2>2. Sizes \subseteq Nat /\ PageSize \in Nat
    BY ArenaAssumption
  <2> QED BY <2>1, <2>2 DEF Block
<1>4. /\ IsFiniteSet(living) /\ IsFiniteSet(Counted)
      /\ Cardinality(living) \in Nat /\ Cardinality(Counted) \in Nat
  BY FS_CardinalityType DEF AccountsInv
<1>5. IsFiniteSet(living') /\ Cardinality(living') = Cardinality(living) - 1
  BY <1>1, <1>4, FS_RemoveElement
<1>6. IsFiniteSet(B) /\ Cardinality(B) = s
  BY <1>3, BlockBytes
<1>7. (\A y \in B : y[1] = i) /\ (\A y \in L : y[1] = i) /\ (\A x \in lost : x[1] # i)
  BY DEF AccountsInv
<1>8. {i} \X (1..size) = B \cup L /\ B \cap L = {}
  <2>1. 1..size = (1..s) \cup ((s + 1)..size) /\ (1..s) \cap ((s + 1)..size) = {}
    BY <1>1, <1>3
  <2>2. ASSUME NEW X, NEW Y PROVE {i} \X (X \cup Y) = ({i} \X X) \cup ({i} \X Y)
    OBVIOUS
  <2>3. ASSUME NEW X, NEW Y, X \cap Y = {} PROVE ({i} \X X) \cap ({i} \X Y) = {}
    BY <2>3
  <2> HIDE DEF size
  <2> QED BY <2>1, <2>2, <2>3
<1> HIDE DEF B, L, size
<1>9. LivingBytes = (UNION {{j} \X (1..handed[j].size) : j \in living \ {i}}) \cup B \cup L
  <2>1. LivingBytes = (UNION {{j} \X (1..handed[j].size) : j \in living \ {i}})
                        \cup ({i} \X (1..handed[i].size))
    BY DEF LivingBytes
  <2> QED BY <2>1, <1>8 DEF size
<1>10. Counted' = Counted \ B /\ B \subseteq Counted
  <2> DEFINE Rest == UNION {{j} \X (1..handed[j].size) : j \in living \ {i}}
  <2>1. LivingBytes' = Rest
    BY <1>1 DEF LivingBytes
  <2>2. \A x \in Rest : x[1] # i
    OBVIOUS
  <2> HIDE DEF Rest
  <2>3. Counted' = Rest \cup lost \cup L
    BY <2>1, <1>1 DEF Counted
  <2>4. Counted = Rest \cup B \cup L \cup lost
    BY <1>9 DEF Counted, Rest
  <2>5. \A x \in B : x \notin Rest /\ x \notin lost /\ x \notin L
    BY <2>2, <1>7, <1>8
  <2> QED BY <2>3, <2>4, <2>5
<1>11. IsFiniteSet(Counted') /\ Cardinality(Counted') = Cardinality(Counted) - s
  <2>1. IsFiniteSet(Counted \ B)
        /\ Cardinality(Counted \ B) = Cardinality(Counted) - Cardinality(Counted \cap B)
    BY <1>4, FS_Difference
  <2>2. Counted \cap B = B
    BY <1>10
  <2> QED BY <2>1, <2>2, <1>6, <1>10
<1>12. /\ num_pages = Cardinality(pages)
       /\ total_allocations + nulls.calls = num_pages + Cardinality(living)
       /\ bytes_allocated - bytes_freed + nulls.bytes = num_pages * PageSize + Cardinality(Counted)
  BY <1>1 DEF AccountsInv, AccountsAgree, living_memory, Counted
<1>13. total_allocations' + nulls'.calls = num_pages' + Cardinality(living')
  <2>1. PICK c, k \in Nat : c = Cardinality(living) /\ k = nulls.calls
    BY <1>2, <1>4
  <2>2. /\ Cardinality(living') = c - 1 /\ total_allocations + k = num_pages + c
        /\ nulls'.calls = k
    BY <2>1, <1>1, <1>5, <1>12
  <2> QED BY <2>2, <1>1, <1>2
<1>14. bytes_allocated' - bytes_freed' + nulls'.bytes = num_pages' * PageSize + Cardinality(Counted')
  <2>1. PICK m \in Int : m = num_pages * PageSize
    BY <1>2, <1>3
  <2>2. PICK c, z \in Nat : c = Cardinality(Counted) /\ z = nulls.bytes
    BY <1>2, <1>4
  <2>3. /\ num_pages' * PageSize = m /\ Cardinality(Counted') = c - s
        /\ bytes_allocated - bytes_freed + z = m + c
        /\ bytes_allocated' = bytes_allocated /\ bytes_freed' = bytes_freed + s
        /\ nulls'.bytes = z
    BY <2>1, <2>2, <1>1, <1>11, <1>12
  <2>4. bytes_allocated - (bytes_freed + s) + z = m + (c - s)
    <3>1. \A a, f, x, y, d, e \in Int : a - f + e = x + y => a - (f + d) + e = x + (y - d)
      OBVIOUS
    <3>2. m \in Int /\ c \in Int /\ z \in Int /\ s \in Int
          /\ bytes_allocated \in Int /\ bytes_freed \in Int
      BY <1>2, <1>3
    <3> QED BY <2>3, <3>1, <3>2
  <2> QED BY <2>3, <2>4
<1>15. (\A x \in lost : x[1] \notin living)'
  <2>1. \A x \in lost \cup L : x[1] \notin living \ {i}
    BY <1>7 DEF AccountsInv
  <2> QED BY <2>1, <1>1
<1> QED BY <1>1, <1>5, <1>11, <1>12, <1>13, <1>14, <1>15 DEF AccountsAgree, living_memory, Counted

\* A release of null takes from the counters what the history notes.
LEMMA FreeNullCounted ==
  ASSUME AccountsInv, NEW s \in Sizes, FreeNull(s)
  PROVE  /\ IsFiniteSet(living') /\ IsFiniteSet(Counted')
         /\ (\A x \in lost : x[1] \notin living)' /\ AccountsAgree'
<1>1. /\ phase = "open" /\ phase' = phase
      /\ total_allocations' = total_allocations - 1 /\ bytes_freed' = bytes_freed + s
      /\ nulls' = [calls |-> nulls.calls + 1, bytes |-> nulls.bytes + s]
      /\ UNCHANGED <<pages, num_pages, bytes_allocated, handed, living, lost>>
  BY DEF FreeNull
<1>2. /\ num_pages \in Nat /\ total_allocations \in Int /\ bytes_allocated \in Int /\ bytes_freed \in Int
      /\ nulls.calls \in Nat /\ nulls.bytes \in Nat /\ s \in Nat /\ PageSize \in Nat
  BY ArenaAssumption DEF AccountsInv, ShapeInv, Shape, TypeOK
<1>3. Counted' = Counted
  BY <1>1 DEF Counted, LivingBytes
<1>4. PICK c, d, m \in Int : c = Cardinality(Counted) /\ d = Cardinality(living) /\ m = num_pages * PageSize
  <2>1. Cardinality(Counted) \in Nat /\ Cardinality(living) \in Nat
    BY FS_CardinalityType DEF AccountsInv
  <2> QED BY <2>1, <1>2
<1>5. /\ num_pages = Cardinality(pages)
      /\ total_allocations + nulls.calls = num_pages + d
      /\ bytes_allocated - bytes_freed + nulls.bytes = m + c
  BY <1>1, <1>4 DEF AccountsInv, AccountsAgree, living_memory, Counted
<1>6. total_allocations' + nulls'.calls = num_pages' + d
  BY <1>1, <1>2, <1>5
<1>7. bytes_allocated' - bytes_freed' + nulls'.bytes = m + c
  BY <1>1, <1>2, <1>4, <1>5
<1>8. AccountsAgree'
  BY <1>1, <1>3, <1>4, <1>5, <1>6, <1>7 DEF AccountsAgree, living_memory, Counted
<1> QED BY <1>1, <1>3, <1>8 DEF AccountsInv

\* Every call keeps the account.
LEMMA AccountsStep == AccountsInv /\ [Next]_vars => AccountsInv'
<1> DEFINE Kept == /\ IsFiniteSet(living') /\ IsFiniteSet(Counted')
                   /\ (\A x \in lost : x[1] \notin living)' /\ AccountsAgree'
<1> SUFFICES ASSUME AccountsInv, [Next]_vars PROVE Kept
  BY ShapeStep DEF AccountsInv
<1>1. /\ ShapeInv /\ ShapeInv' /\ IsFiniteSet(living) /\ IsFiniteSet(Counted) /\ AccountsAgree
      /\ \A x \in lost : x[1] \notin living
  BY ShapeStep DEF AccountsInv
<1>2. IsFiniteSet({}) /\ Cardinality({}) = 0
  BY FS_EmptySet
<1>3. CASE Open
  <2>1. /\ living = {} /\ living' = {} /\ pages' = {0} /\ num_pages' = 1
        /\ total_allocations' = 1 /\ bytes_allocated' = PageSize /\ bytes_freed' = bytes_freed
        /\ lost' = {} /\ nulls'.calls = 0 /\ nulls'.bytes = 0
    BY <1>1, <1>3 DEF Open, ShapeInv, Shape, returned
  <2>2. Counted' = {} /\ Cardinality(pages') = 1
    BY <2>1, FS_Singleton DEF Counted, LivingBytes
  <2>3. bytes_freed = 0 /\ PageSize \in Nat
    BY <1>1, <1>3, ArenaAssumption DEF Open, ShapeInv, Shape
  <2>4. Cardinality(living') = 0 /\ Cardinality((LivingBytes \cup lost)') = 0
    BY <1>2, <2>1, <2>2 DEF Counted
  <2>5. num_pages' * PageSize = PageSize
    BY <2>1, <2>3
  <2>6. AccountsAgree'
    BY <2>1, <2>2, <2>3, <2>4, <2>5 DEF AccountsAgree, living_memory
  <2> QED BY <1>2, <2>1, <2>2, <2>6
<1>4. CASE Close
  <2>1. living' = {} /\ lost' = lost /\ phase' # "open"
    BY <1>4 DEF Close, returned
  <2>2. LivingBytes' = {}
    BY <2>1 DEF LivingBytes
  <2>3. IsFiniteSet(Counted')
    <3>1. Counted' \subseteq Counted
      BY <2>1, <2>2 DEF Counted
    <3> QED BY <3>1, <1>1, FS_Subset
  <2> QED BY <1>2, <2>1, <2>3 DEF AccountsAgree
<1>5. ASSUME NEW s \in Sizes, AllocateInPage(s) PROVE Kept
  <2>1. /\ phase = "open" /\ HandOut(page_allocation_cursor, Aligned(page_cursor), s, 0)
        /\ UNCHANGED <<pages, num_pages>>
    BY <1>5 DEF AllocateInPage, Allocates
  <2>2. /\ page_allocation_cursor \in Nat /\ Aligned(page_cursor) \in Nat
        /\ num_pages' = num_pages + 0 /\ num_pages' = Cardinality(pages')
    BY <1>1, <2>1, AlignedUp, ArenaAssumption DEF ShapeInv, Shape, TypeOK
  <2> QED BY <2>1, <2>2, HandOutCounted
<1>6. ASSUME NEW s \in Sizes, AllocateInNextPage(s) PROVE Kept
  <2>1. /\ phase = "open" /\ HandOut(page_allocation_cursor + 1, 0, s, 1)
        /\ num_pages' = num_pages + 1 /\ phase' = "open"
    BY <1>6 DEF AllocateInNextPage, Allocates, HandOut
  <2>2. page_allocation_cursor + 1 \in Nat /\ num_pages' = Cardinality(pages')
    BY <1>1, <2>1, ArenaAssumption DEF ShapeInv, Shape, TypeOK
  <2> QED BY <2>1, <2>2, HandOutCounted
<1>7. ASSUME NEW s \in Sizes, AllocateFails(s) PROVE Kept
  <2>1. UNCHANGED <<handed, living, lost>> /\ phase' # "open"
    BY <1>7 DEF AllocateFails, returned
  <2> QED BY <1>1, <2>1 DEF AccountsAgree, LivingBytes, Counted
<1>8. ASSUME NEW s \in Sizes, NEW i \in living, Free(i, s) PROVE Kept
  BY <1>8, FreeCounted
<1>9. ASSUME NEW s \in Sizes, FreeNull(s) PROVE Kept
  BY <1>9, FreeNullCounted
<1>10. CASE UNCHANGED vars
  BY <1>1, <1>10 DEF vars, cursors, counters, returned, AccountsAgree, LivingBytes, living_memory, Counted
<1> QED BY <1>3, <1>4, <1>5, <1>6, <1>7, <1>8, <1>9, <1>10 DEF Next

\* The memory report of the arena counts every page and every living block once, whatever is
\* allocated and freed in whatever order; of the freed blocks it counts exactly the bytes that
\* the releases did not name, and it falls short exactly by the releases of null.
THEOREM ReportIsAccounted == Spec => []AccountsAgree
<1>1. Init => AccountsInv
  <2>1. ASSUME Init
        PROVE  /\ IsFiniteSet(living) /\ IsFiniteSet(Counted)
               /\ (\A x \in lost : x[1] \notin living) /\ AccountsAgree
    BY <2>1, FS_EmptySet DEF Init, LivingBytes, AccountsAgree, Counted
  <2>2. Init => ShapeInv
    BY ArenaAssumption DEF Init, ShapeInv, Shape, PagesInv, ArenaInv, PlacesOK, Apart, Behind, BlocksInPages,
       TypeOK, PagesArePacked
  <2> QED BY <2>1, <2>2 DEF AccountsInv
<1>2. AccountsInv => AccountsAgree
  BY DEF AccountsInv
<1> QED BY <1>1, <1>2, AccountsStep, PTL DEF Spec
=============================================================================
