----------------------------- MODULE StaticMemPool -----------------------------
(***************************************************************************)
(* SupDef::Util::StaticMemPool: first fit in an array of bytes that is cut *)
(* into chunks.  A chunk is padding, a header at the next aligned address, *)
(* padding again, and data.  The headers form a list.                      *)
(*                                                                         *)
(* chunks is that list, from the header at the start of the pool along     *)
(* next: next is the following element and not a field, prev is a field,   *)
(* because the code lets it become stale.  A header that no next reaches   *)
(* is lost.  Every operation holds the mutex of the pool from its first to *)
(* its last access, so it is one step.  The clients keep the pointers they *)
(* were given, with the size and alignment they asked for, and use them    *)
(* correctly: they free what is theirs, once.                              *)
(*                                                                         *)
(* A program dies when a contract or a hard_assert fails: the functions    *)
(* with contracts are noexcept.                                            *)
(***************************************************************************)
EXTENDS Integers, Sequences, FiniteSets, SequencesExt

CONSTANTS
  PoolStart,    \* the address of data[0]
  pool_size,
  HeaderSize,   \* sizeof(memory_header_t)
  HeaderAlign,  \* alignof(memory_header_t)
  Sizes,        \* sizes clients ask for
  Aligns        \* alignments clients ask for: powers of two, or odd

ASSUME PoolAssumption ==
  /\ PoolStart \in Nat \ {0} /\ pool_size \in Nat
  /\ HeaderAlign \in Nat \ {0} /\ HeaderSize \in Nat \ {0}
  /\ PoolStart % HeaderAlign = 0 /\ HeaderSize % HeaderAlign = 0
  /\ HeaderSize < pool_size
  /\ Sizes \subseteq Nat \ {0}
  /\ Aligns \subseteq Nat \ {0}

VARIABLES
  chunks,   \* the list of headers
  live,     \* the pointers clients have, each with its size and alignment
  whole,    \* a free chunk was handed out as a whole, without a split
  failure   \* what stopped the program

vars == <<chunks, live, whole, failure>>

PoolEnd == PoolStart + pool_size
Null == 0

\* align_pointer(p, a).first: the mask for even alignments, the loop for odd.
AlignUp(p, a) == ((p + a - 1) \div a) * a

HeaderAt(lo) == AlignUp(lo, HeaderAlign)

\* A header at address at, of a chunk from lo to hi.
FreeHeader(lo, hi, prev) ==
  [at |-> HeaderAt(lo), lo |-> lo, hi |-> hi, prev |-> prev,
   data |-> HeaderAt(lo) + HeaderSize, align |-> 0, free |-> TRUE]

Init ==
  /\ chunks = <<FreeHeader(PoolStart, PoolEnd, Null)>>
  /\ live = << >>
  /\ whole = FALSE
  /\ failure = "none"

-----------------------------------------------------------------------------
(* What the headers are asked, and the contracts of the questions.          *)

DataRoom(h) == h.hi - h.data
Padding(h, align) == AlignUp(h.data, align) - h.data
EnoughRoom(h, size, align) == DataRoom(h) >= Padding(h, align) + size

\* What is left behind the data, once the next header has its place.
DataEnd(h, size, align) == AlignUp(h.data, align) + size
NewData(h, size, align) == HeaderAt(DataEnd(h, size, align)) + HeaderSize

\* can_split compares by >= what the macro CAN_SPLIT compares by >, and
\* asserts that they agree: a new chunk without room for data fails that.
CanSplit(h, size, align) == NewData(h, size, align) <= h.hi
SplitAssertion(h, size, align) == NewData(h, size, align) # h.hi

RoomContract(h) ==
  h.lo # Null /\ h.hi >= h.data /\ h.data = HeaderAt(h.lo) + HeaderSize
InChunkContract(h) == h.lo # Null /\ h.hi > h.lo
DataRoomContract(h) == h.hi >= h.data

-----------------------------------------------------------------------------
(* get_header: the first chunk in use with this pointer.                    *)

InChunk(h, p) == h.lo <= p /\ p < h.hi

Matches(h, p) == ~h.free /\ (h.data = p \/ InChunk(h, p))

\* The headers before the one that is found, or all of them.
Passed(list, p) ==
  {i \in DOMAIN list : \A j \in 1 .. i - 1 : ~Matches(list[j], p)}

Found(list, p) == {i \in Passed(list, p) : Matches(list[i], p)}

GetHeaderDies(list, p) ==
  \E i \in Passed(list, p) : list[i].data # p /\ ~InChunkContract(list[i])

-----------------------------------------------------------------------------
(* allocate, as a function of the list.                                     *)

Fits(h, size, align) == h.free /\ EnoughRoom(h, size, align)

Tried(list, size, align) ==
  {i \in DOMAIN list : \A j \in 1 .. i - 1 : ~Fits(list[j], size, align)}

Fitting(list, size, align) == {i \in Tried(list, size, align) : Fits(list[i], size, align)}

AllocateBreaksContract(list, size, align) ==
  \E i \in Tried(list, size, align) : list[i].free /\ ~RoomContract(list[i])

\* What stops the program in allocate, if anything does.
AllocateDies(list, size, align) ==
  IF size > pool_size THEN {}
  ELSE IF AllocateBreaksContract(list, size, align) THEN {"contract"}
  ELSE IF \E i \in Fitting(list, size, align) : ~SplitAssertion(list[i], size, align)
       THEN {"CAN_SPLIT"} ELSE {}

\* The header of the chunk in use, in front of the new one.
InUse(h, size, align) ==
  [h EXCEPT !.hi = DataEnd(h, size, align), !.data = AlignUp(@, align),
            !.align = align, !.free = FALSE]

\* Faulty variant: the chunk in use ends where the free chunk ended.
SplitOverlaps(list, i, size, align) ==
  LET h == list[i] IN
  SubSeq(list, 1, i - 1)
    \o <<[InUse(h, size, align) EXCEPT !.hi = h.hi],
         FreeHeader(DataEnd(h, size, align), h.hi, h.at)>>
    \o SubSeq(list, i + 1, Len(list))

\* Faulty variant: the new header does not know the one before it.
SplitForgetsPrev(list, i, size, align) ==
  LET h == list[i] IN
  SubSeq(list, 1, i - 1)
    \o <<InUse(h, size, align), FreeHeader(DataEnd(h, size, align), h.hi, h.prev)>>
    \o SubSeq(list, i + 1, Len(list))

\* The chunk is cut in two.  The prev of the chunk behind them stays.
Split(list, i, size, align) ==
  LET h == list[i] IN
  SubSeq(list, 1, i - 1)
    \o <<InUse(h, size, align), FreeHeader(DataEnd(h, size, align), h.hi, h.at)>>
    \o SubSeq(list, i + 1, Len(list))

\* A chunk that cannot be cut gets a header made anew, all null but for three
\* fields: its limits, prev and next are gone, and the chunks behind it lost.
TakeWhole(list, i, align) ==
  Append(SubSeq(list, 1, i - 1),
         [at |-> list[i].at, lo |-> Null, hi |-> Null, prev |-> Null,
          data |-> AlignUp(list[i].at + HeaderSize, align),
          align |-> align, free |-> FALSE])

\* The outcomes of allocate: the list and the pointer, none if it throws.
Allocated(list, size, align) ==
  {IF CanSplit(list[i], size, align)
   THEN LET cut == Split(list, i, size, align)
        IN  [list |-> cut, ptr |-> cut[i].data, whole |-> FALSE]
   ELSE [list |-> TakeWhole(list, i, align), ptr |-> list[i].data, whole |-> TRUE] :
     i \in IF size > pool_size THEN {} ELSE Fitting(list, size, align)}

-----------------------------------------------------------------------------
(* deallocate and merge_free_chunks, as functions of the list.              *)

Release(list, i) ==
  [list EXCEPT ![i].free = TRUE, ![i].align = 0,
               ![i].data = HeaderAt(list[i].lo) + HeaderSize]

\* merged->prev->next = merged: the list goes from the chunk at prev, if it
\* is in the list, to the merged one.
UpTo(list, prev) ==
  LET here == {i \in DOMAIN list : list[i].at = prev} IN
  IF here = {} THEN list ELSE SubSeq(list, 1, CHOOSE i \in here : TRUE)

\* The walk has come to the header h, behind the list m.list of which the
\* last one is just merged, or not.
Absorb(m, h) ==
  LET last == m.list[Len(m.list)]
      merged == [last EXCEPT !.hi = h.hi, !.data = last.at + HeaderSize, !.align = 0]
  IN  IF last.free /\ h.free
      THEN [list |-> Append(UpTo(Front(m.list), last.prev), merged), fresh |-> TRUE]
      ELSE [list |-> Append(m.list, IF m.fresh THEN [h EXCEPT !.prev = last.at] ELSE h),
            fresh |-> FALSE]

\* What the walk has made of the headers up to the k-th.
Walk(list) ==
  LET walk[k \in 1 .. Len(list)] ==
        IF k = 1 THEN [list |-> <<list[1]>>, fresh |-> FALSE]
        ELSE Absorb(walk[k - 1], list[k])
  IN  walk

MergeFreeChunks(list) == Walk(list)[Len(list)].list

Deallocated(list, p) == {MergeFreeChunks(Release(list, i)) : i \in Found(list, p)}

-----------------------------------------------------------------------------
(* The operations                                                          *)

Alive == failure = "none"

Dies(why) == failure' = why /\ UNCHANGED <<chunks, live, whole>>

Without(p) == [q \in DOMAIN live \ {p} |-> live[q]]
With(f, p, size, align) ==
  [q \in DOMAIN f \cup {p} |-> IF q = p THEN [size |-> size, align |-> align] ELSE f[q]]

\* "No free chunk available" and a size above pool_size change nothing.
Allocate(size, align) ==
  /\ Alive
  /\ AllocateDies(chunks, size, align) = {}
  /\ \E a \in Allocated(chunks, size, align) :
       /\ chunks' = a.list
       /\ live' = With(live, a.ptr, size, align)
       /\ whole' = (whole \/ a.whole)
  /\ UNCHANGED failure

\* A pointer that get_header does not find makes deallocate throw.
Deallocate(p) ==
  /\ Alive
  /\ ~GetHeaderDies(chunks, p)
  /\ \E list \in Deallocated(chunks, p) : chunks' = list
  /\ live' = Without(p)
  /\ UNCHANGED <<whole, failure>>

\* reallocate finds the data where they are large enough.  The overload with
\* an alignment asks that it be the same too.
ReallocateInPlace(p, size, align) ==
  /\ Alive
  /\ ~GetHeaderDies(chunks, p)
  /\ \E i \in Found(chunks, p) :
       /\ DataRoomContract(chunks[i])
       /\ DataRoom(chunks[i]) >= size /\ chunks[i].align = align
       /\ live' = With(Without(p), chunks[i].data, size, align)
  /\ UNCHANGED <<chunks, whole, failure>>

\* Faulty variant: the old chunk is freed before a new one is looked for.
ReallocateFreesFirst(p, size, align) ==
  /\ Alive
  /\ ~GetHeaderDies(chunks, p)
  /\ \E i \in Found(chunks, p) :
       /\ DataRoomContract(chunks[i])
       /\ DataRoom(chunks[i]) < size \/ chunks[i].align # align
       /\ \E freed \in Deallocated(chunks, chunks[i].data) :
            /\ AllocateDies(freed, size, align) = {}
            /\ \E a \in Allocated(freed, size, align) :
                 /\ chunks' = a.list
                 /\ live' = With(Without(p), a.ptr, size, align)
                 /\ whole' = (whole \/ a.whole)
  /\ UNCHANGED failure

\* Else the data move to a new chunk and the old one is freed.  If the old one
\* is not found any more, deallocate throws, and the caller keeps the old
\* pointer and never gets the new one.
ReallocateMoves(p, size, align) ==
  /\ Alive
  /\ ~GetHeaderDies(chunks, p)
  /\ \E i \in Found(chunks, p) :
       /\ DataRoomContract(chunks[i])
       /\ DataRoom(chunks[i]) < size \/ chunks[i].align # align
       /\ AllocateDies(chunks, size, align) = {}
       /\ \E a \in Allocated(chunks, size, align) :
            /\ ~GetHeaderDies(a.list, chunks[i].data)
            /\ IF Found(a.list, chunks[i].data) = {}
               THEN chunks' = a.list /\ UNCHANGED live
               ELSE /\ chunks' \in Deallocated(a.list, chunks[i].data)
                    /\ live' = With(Without(p), a.ptr, size, align)
            /\ whole' = (whole \/ a.whole)
  /\ UNCHANGED failure

\* A contract or an assertion fails.
DiesInAllocate(size, align) ==
  Alive /\ \E why \in AllocateDies(chunks, size, align) : Dies(why)

DiesInGetHeader(p) == Alive /\ GetHeaderDies(chunks, p) /\ Dies("contract")

DiesInReallocate(p, size, align) ==
  /\ Alive
  /\ ~GetHeaderDies(chunks, p)
  /\ \E i \in Found(chunks, p) :
       \/ ~DataRoomContract(chunks[i]) /\ Dies("contract")
       \/ /\ DataRoomContract(chunks[i])
          /\ DataRoom(chunks[i]) < size \/ chunks[i].align # align
          /\ \/ \E why \in AllocateDies(chunks, size, align) : Dies(why)
             \/ /\ AllocateDies(chunks, size, align) = {}
                /\ \E a \in Allocated(chunks, size, align) :
                     /\ GetHeaderDies(a.list, chunks[i].data)
                     /\ whole' = (whole \/ a.whole)
                /\ failure' = "contract"
                /\ UNCHANGED <<chunks, live>>

\* The overload of reallocate without an alignment keeps the one of the chunk.
Next ==
  \/ \E size \in Sizes, align \in Aligns :
       \/ Allocate(size, align) \/ DiesInAllocate(size, align)
       \/ \E p \in DOMAIN live :
            \/ ReallocateInPlace(p, size, align) \/ ReallocateMoves(p, size, align)
            \/ DiesInReallocate(p, size, align)
  \/ \E p \in DOMAIN live : Deallocate(p) \/ DiesInGetHeader(p)

Spec == Init /\ [][Next]_vars

-----------------------------------------------------------------------------
(* Properties                                                              *)

\* Every variable keeps its type; only chunks in use have an alignment.
TypeOK ==
  /\ chunks \in Seq([at : PoolStart .. PoolEnd, lo : Nat, hi : 0 .. PoolEnd, prev : Nat,
                     data : Nat, align : Aligns \cup {0}, free : BOOLEAN])
  /\ chunks # << >>
  /\ \A i \in DOMAIN chunks : chunks[i].free <=> chunks[i].align = 0
  /\ \A p \in DOMAIN live : live[p] \in [size : Sizes, align : Aligns]
  /\ whole \in BOOLEAN
  /\ failure \in {"none", "contract", "CAN_SPLIT"}

\* What clients have does not overlap: not each other's data, and not a header
\* that the pool still reads, whatever happened to the list before.
LiveDisjoint ==
  LET Bytes(from, size) == from .. from + size - 1 IN
  \A p \in DOMAIN live :
    /\ PoolStart <= p /\ p + live[p].size <= PoolEnd
    /\ \A q \in DOMAIN live \ {p} : p + live[p].size <= q \/ q + live[q].size <= p
    /\ \A i \in DOMAIN chunks :
         Bytes(p, live[p].size) \cap Bytes(chunks[i].at, HeaderSize) = {}

\* As long as every allocation could split its chunk, the chunks tile the
\* pool: no byte is lost, however allocations and merges alternate.
Tiling ==
  ~whole =>
    /\ chunks[1].lo = PoolStart /\ chunks[Len(chunks)].hi = PoolEnd
    /\ \A i \in 1 .. Len(chunks) - 1 : chunks[i].hi = chunks[i + 1].lo

\* The chunks in use are those of the clients, aligned and large enough, so
\* that each can be freed, also after reallocate moved or failed.
LiveIsInUse ==
  ~whole =>
    LET used == {i \in DOMAIN chunks : ~chunks[i].free} IN
    /\ {chunks[i].data : i \in used} = DOMAIN live
    /\ \A i \in used :
         LET p == chunks[i].data IN
         /\ p % live[p].align = 0
         /\ chunks[i].at + HeaderSize <= p /\ p + live[p].size <= chunks[i].hi

\* Free chunks have no free neighbour: a split leaves its rest in front of a
\* chunk in use, a merge looks at both sides, so fragments do not pile up.
NoFreeNeighbours ==
  ~whole => \A i \in 1 .. Len(chunks) - 1 : ~(chunks[i].free /\ chunks[i + 1].free)

\* prev is stale behind a split, but not in a free header, and so never where
\* a merge follows it (merged->prev->next = merged would cut the list).
PrevOfFreeExact ==
  ~whole =>
    \A i \in DOMAIN chunks :
      chunks[i].free => chunks[i].prev = IF i = 1 THEN Null ELSE chunks[i - 1].at

\* What clients have stays theirs: it never overlaps, and each of them finds
\* its chunk again.
LiveChunks == LiveDisjoint /\ LiveIsInUse

\* No contract of the header functions fails until a chunk was handed out as
\* a whole.
ContractsHold == ~whole => failure # "contract"

\* The list of headers describes the pool: it tiles it, without free
\* neighbours, the links a merge follows are right, and so what the functions
\* that walk it demand of each other holds.
ListIsSound == TypeOK /\ Tiling /\ NoFreeNeighbours /\ PrevOfFreeExact /\ ContractsHold

Memory == INSTANCE DisjointBlocks
            WITH First <- PoolStart, End <- PoolEnd, blocks <- live, aligned <- ~whole

\* For its clients the pool is a set of disjoint blocks: every operation gives, takes
\* back, resizes or moves one of them, or changes nothing they can see.
ImplementsBlocks == Memory!Spec
=============================================================================
