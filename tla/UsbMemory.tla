----------------------------- MODULE UsbMemory -----------------------------
(***************************************************************************)
(* The allocator of the uncached USB memory (usb_memory.c).  Addresses are *)
(* in words, the size of a pointer; a block is a header, perhaps padding,  *)
(* a pointer back to the header, and the memory handed out.  The list of   *)
(* blocks is a function of their addresses, which are the pointers to      *)
(* them.  One task owns the heap; usb_free takes one step for each turn of *)
(* its loop, and no other call starts before it has ended.                 *)
(***************************************************************************)
EXTENDS Integers, FiniteSets, FiniteSetsExt

CONSTANTS
    Heap,        \* words of the region (1 MiB)
    BlockHeader, \* words of struct block
    Spare,       \* least words a split must leave beside the header (64 bytes)
    Sizes, Aligns,  \* of the requests, rounded up to words
    Null

MemoryAssumption ==
    /\ Heap \in Nat /\ BlockHeader \in Nat \ {0} /\ Spare \in Nat /\ Heap > BlockHeader
    /\ Sizes \subseteq Nat \ {0} /\ Aligns \subseteq Nat \ {0} /\ Null \notin Nat

VARIABLES
    blocks,      \* [size, next, used, p, n]; p and n, the memory handed out, are
                 \* what the caller knows
    at,          \* usb_free: its loop variable, or Null
    refused      \* ghost: the request just refused, or none

heapVars == <<blocks, at, refused>>

Block(size, next) == [size |-> size, next |-> next, used |-> FALSE, p |-> 0, n |-> 0]
NotRefused == <<>>

HeapInit == blocks = [a \in {0} |-> Block(Heap, Null)] /\ at = Null /\ refused = NotRefused

\* The first aligned address behind header and back pointer.
Place(b, align) == ((b + BlockHeader + 1 + align - 1) \div align) * align

Need(b, align, n) == Place(b, align) - b + n

Splits(size, need) == size - need >= BlockHeader + Spare

Fits(b, align, n) == ~blocks[b].used /\ Need(b, align, n) <= blocks[b].size

\* Block b given out; what is left of it becomes a block when it is worth one.
Took(b, align, n) ==
    LET need == Need(b, align, n)
        rest == blocks[b].size - need
        took == [blocks[b] EXCEPT !.used = TRUE, !.p = Place(b, align), !.n = n]
    IN IF Splits(blocks[b].size, need)
       THEN [a \in DOMAIN blocks \union {b + need} |->
                IF a = b THEN [took EXCEPT !.size = need, !.next = b + need]
                ELSE IF a = b + need THEN Block(rest, blocks[b].next) ELSE blocks[a]]
       ELSE [blocks EXCEPT ![b] = took]

\* The first block of the list, which is in the order of addresses (Tiled).
usb_memalign(align, n) ==
    LET fit == {b \in DOMAIN blocks : Fits(b, align, n)} IN
    /\ at = Null /\ UNCHANGED at
    /\ IF fit = {} THEN refused' = <<align, n>> /\ UNCHANGED blocks
       ELSE refused' = NotRefused /\ blocks' = Took(Min(fit), align, n)

\* The pointer in front of the memory leads to its block; callers free what
\* they were given, once.
usb_free(b) ==
    /\ at = Null /\ blocks[b].used
    /\ blocks' = [blocks EXCEPT ![b] = Block(@.size, @.next)]
    /\ at' = 0 /\ refused' = NotRefused

\* Mutant: after joining two blocks the pass goes on behind them.
Stand_behind(b) == blocks[blocks[b].next].next

\* Where the pass stands after it has joined block b and the one after it.
Stand(b) == b

\* One turn of the loop of usb_free: neighbours that are both free are joined.
Pass ==
    /\ at # Null /\ UNCHANGED refused
    /\ LET next == blocks[at].next IN
       IF next = Null THEN at' = Null /\ UNCHANGED blocks
       ELSE IF ~blocks[at].used /\ ~blocks[next].used
       THEN /\ blocks' = [a \in DOMAIN blocks \ {next} |->
                             IF a = at THEN [blocks[at] EXCEPT !.size = @ + blocks[next].size, !.next = blocks[next].next]
                             ELSE blocks[a]]
            /\ at' = Stand(at)
       ELSE at' = next /\ UNCHANGED blocks

HeapNext ==
    \/ \E align \in Aligns, n \in Sizes : usb_memalign(align, n)
    \/ (\E b \in DOMAIN blocks : usb_free(b)) \/ Pass

HeapSpec == HeapInit /\ [][HeapNext]_heapVars

(***************************************************************************)
(* Properties.                                                             *)
(***************************************************************************)
\* Every variable has its type.
HeapTypeOK ==
    /\ DOMAIN blocks \subseteq 0..(Heap - 1)
    /\ blocks \in [DOMAIN blocks -> [size : 0..Heap, next : DOMAIN blocks \union {Null}, used : BOOLEAN, p : Nat, n : Nat]]
    /\ at \in DOMAIN blocks \union {Null} /\ refused \in (Aligns \X Sizes) \union {NotRefused}

\* The blocks tile the region: the list begins with it, each block has room
\* for its header and is followed by the one at its end, the last ends with
\* the region, no two overlap, and no word is lost between them.
Tiled ==
    /\ 0 \in DOMAIN blocks
    /\ \A b \in DOMAIN blocks :
          /\ blocks[b].size >= BlockHeader /\ b + blocks[b].size <= Heap
          /\ blocks[b].next = IF b + blocks[b].size = Heap THEN Null ELSE b + blocks[b].size
    /\ \A b, c \in DOMAIN blocks : b < c => b + blocks[b].size <= c
    /\ \A x \in 0..(Heap - 1) : \E b \in DOMAIN blocks : b <= x /\ x < b + blocks[b].size

\* What is handed out lies in the region, behind the header and the back
\* pointer of its own block and before the next header, so that neither
\* caller nor allocator overwrites the other.
Disjoint ==
    \A b \in DOMAIN blocks : blocks[b].used =>
        /\ blocks[b].p - 1 >= b + BlockHeader
        /\ blocks[b].p + blocks[b].n <= IF blocks[b].next = Null THEN Heap ELSE blocks[b].next

\* After any history of calls no two neighbours are free, so all memory
\* comes back as one block and does not fragment for good; while usb_free
\* runs, this holds of the blocks its pass has left behind.
Coalesced ==
    \A b \in DOMAIN blocks : blocks[b].next # Null /\ (at # Null => b < at) => blocks[b].used \/ blocks[blocks[b].next].used

\* A request is refused only if no gap between the blocks in use is large
\* enough for header, pointer and memory at the alignment asked for.
Taken(x) == \E b \in DOMAIN blocks : blocks[b].used /\ b <= x /\ x < b + blocks[b].size
RefusedOnlyIfFull ==
    refused # NotRefused =>
        ~\E x \in 0..(Heap - 1) :
              /\ x = 0 \/ Taken(x - 1)
              /\ LET end == Place(x, refused[1]) + refused[2]
                 IN end <= Heap /\ \A y \in x..(end - 1) : ~Taken(y)

\* A refusal is answered on the heap as it was searched.
RefusedFits == refused # NotRefused => at = Null /\ \A b \in DOMAIN blocks : ~Fits(b, refused[1], refused[2])

\* After any history of calls the heap is sound and wastes nothing.
HeapInv == HeapTypeOK /\ Tiled /\ Disjoint /\ Coalesced /\ RefusedOnlyIfFull /\ RefusedFits
=============================================================================
