---------------------------- MODULE DisjointBlocks ----------------------------
(***************************************************************************)
(* What StaticMemPool promises to its clients, without chunks and headers: *)
(* blocks of memory that share no byte and lie in the pool.  A block is    *)
(* given where nobody has a byte, it grows only over bytes nobody has, and *)
(* one that moves is given its new place while it still has the old one,   *)
(* so that its data can be copied.  Nobody else's block changes.  Blocks   *)
(* are aligned as they were asked for until the pool gives that up once.   *)
(***************************************************************************)
EXTENDS Integers

CONSTANTS
  First, End,   \* the pool is First .. End - 1
  Sizes,        \* sizes clients ask for
  Aligns        \* alignments clients ask for

VARIABLES
  blocks,    \* what clients have: by its address, the size and alignment asked for
  aligned    \* every block so far was aligned

vars == <<blocks, aligned>>

Init == blocks = << >> /\ aligned = TRUE

\* Nobody of others has a byte where a block would lie.
Room(p, size, others) ==
  /\ First <= p /\ p + size <= End
  /\ \A q \in others : q + blocks[q].size <= p \/ p + size <= q

\* The pool may give up to align its blocks, once and for all.
AlignedOrNot(p, align) ==
  aligned' \in {aligned, FALSE} /\ (aligned' => p % align = 0)

\* The blocks of old, and a block at p.
Plus(old, p, size, align) ==
  [q \in old \cup {p} |-> IF q = p THEN [size |-> size, align |-> align] ELSE blocks[q]]

Give(p, size, align) ==
  /\ Room(p, size, DOMAIN blocks) /\ AlignedOrNot(p, align)
  /\ blocks' = Plus(DOMAIN blocks, p, size, align)

TakeBack(p) ==
  blocks' = [q \in DOMAIN blocks \ {p} |-> blocks[q]] /\ UNCHANGED aligned

Resize(p, size) ==
  /\ Room(p, size, DOMAIN blocks \ {p})
  /\ blocks' = [blocks EXCEPT ![p].size = size]
  /\ UNCHANGED aligned

Move(p, to, size, align) ==
  /\ Room(to, size, DOMAIN blocks) /\ AlignedOrNot(to, align)
  /\ blocks' = Plus(DOMAIN blocks \ {p}, to, size, align)

\* A request that came to nothing may have cost the alignment.
GiveUpAlignment == aligned' = FALSE /\ UNCHANGED blocks

\* A block that is given or moved stands among the blocks at its new place.
Next ==
  \/ \E p \in DOMAIN blocks' \ DOMAIN blocks, size \in Sizes, align \in Aligns :
       Give(p, size, align) \/ \E q \in DOMAIN blocks : Move(q, p, size, align)
  \/ \E p \in DOMAIN blocks : TakeBack(p) \/ \E size \in Sizes : Resize(p, size)
  \/ GiveUpAlignment

Spec == Init /\ [][Next]_vars
=============================================================================
