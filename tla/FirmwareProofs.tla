-------------------------- MODULE FirmwareProofs ----------------------------
(***************************************************************************)
(* Memory and requests of the USB storage, time stamp and console.  Each   *)
(* part keeps its invariant, for every value of its constants.             *)
(***************************************************************************)
EXTENDS UsbStorage, Board, Integers, Sequences, TLAPS

(***************************************************************************)
(* Numbers.                                                                *)
(***************************************************************************)

\* Quotient and remainder.
LEMMA Euclid ==
  ASSUME NEW m \in Nat \ {0}, NEW a \in Nat
  PROVE  \E q \in Nat : a = (q * m) + (a % m) /\ (a % m) \in 0..m - 1
<1> DEFINE q == a \div m
<1>1. q \in Nat /\ a = (q * m) + (a % m) /\ (a % m) \in 0..m - 1
  OBVIOUS
<1> HIDE DEF q
<1> QED  BY Zenon, <1>1

\* The remainder is the one number below the modulus that differs by a multiple.
LEMMA ModUnique ==
  ASSUME NEW m \in Nat \ {0}, NEW a \in Nat, NEW q \in Nat, NEW r \in 0..m-1, a = (q * m) + r
  PROVE  a % m = r
OBVIOUS

\* A sum modulo m may take its first part modulo m.
LEMMA ModAdd ==
  ASSUME NEW m \in Nat \ {0}, NEW a \in Nat, NEW b \in Nat
  PROVE  ((a % m) + b) % m = (a + b) % m
<1>1. PICK d \in Nat : a = (d * m) + (a % m) /\ (a % m) \in 0..m - 1
  BY Zenon, Euclid
<1> DEFINE s == a % m
<1>2. PICK e \in Nat : s + b = (e * m) + ((s + b) % m) /\ ((s + b) % m) \in 0..m - 1
  <2>1. s + b \in Nat BY <1>1
  <2> QED BY Zenon, <2>1, Euclid
<1> DEFINE t == (s + b) % m
<1>s. s \in Nat /\ t \in 0..m-1 /\ s + b = (e * m) + t /\ a = (d * m) + s
  BY <1>1, <1>2
<1> HIDE DEF s, t
<1>3. a + b = ((d + e) * m) + t
  BY <1>s
<1>4. (a + b) % m = t
  <2>1. a + b \in Nat /\ d + e \in Nat
    OBVIOUS

  <2> QED  BY Zenon, <1>s, <1>3, <2>1, ModUnique
<1> QED BY Zenon, <1>4 DEF s, t

\* A number below the modulus is its own remainder.
LEMMA ModSmall ==
  ASSUME NEW m \in Nat \ {0}, NEW a \in 0..m-1
  PROVE  a % m = a
OBVIOUS

\* Adding the modulus changes nothing.
LEMMA ModPer ==
  ASSUME NEW m \in Nat \ {0}, NEW a \in Nat
  PROVE  (a + m) % m = a % m
<1>1. PICK d \in Nat : a = (d * m) + (a % m) /\ (a % m) \in 0..m - 1
  BY Zenon, Euclid
<1> DEFINE s == a % m
<1>s. s \in 0..m-1 /\ a = (d * m) + s
  BY Zenon, <1>1
<1> HIDE DEF s
<1>2. a + m = ((d + 1) * m) + s
  BY <1>s
<1>3. (a + m) % m = s
  BY <1>s, <1>2, ModUnique
<1> QED BY Zenon, <1>3 DEF s

(***************************************************************************)
(* The memory of the USB stack.  Core is inductive: the list runs through  *)
(* the region in the order of the addresses, without gaps, and usb_free    *)
(* has joined every free neighbour it has passed.                          *)
(***************************************************************************)

INSTANCE WellFoundedInduction

\* A nonempty set of addresses has a least one, and Min is it.
LEMMA LeastOf == ASSUME NEW S \in SUBSET Nat, S # {} PROVE Min(S) \in S /\ \A y \in S : Min(S) <= y
<1> DEFINE R == OpToRel(<, Nat)
<1>0. IsWellFoundedOn(R, Nat)
  BY Zenon, NatLessThanWellFounded
<1>1. \A x, y \in Nat : y < x => <<y, x>> \in R
  BY Zenon DEF OpToRel
<1> HIDE DEF R
<1>2. PICK m \in S : \A k \in S : ~(<<k, m>> \in R)
  BY Zenon, <1>0, WFMin
<1>3. \A y \in S : m <= y
  <2>1. \A y \in S : ~(y < m)
    BY Zenon, <1>1, <1>2
  <2> QED  BY <2>1
<1> QED  BY Zenon, <1>3 DEF Min

\* A header as the allocator leaves it, whatever its successor.
Cells == [size : 0..Heap, next : Nat \union {Null}, used : BOOLEAN, p : Nat, n : Nat]

\* The part of the invariant that is inductive by itself.
Core == HeapTypeOK /\ Tiled /\ Disjoint /\ Coalesced /\ RefusedFits

\* Memory begins behind header and back pointer.
LEMMA PlaceBehind ==
  ASSUME MemoryAssumption, NEW b \in Nat, NEW align \in Aligns
  PROVE  Place(b, align) \in Nat /\ Place(b, align) >= b + BlockHeader + 1
<1>1. align \in Nat \ {0} /\ BlockHeader \in Nat
  BY Zenon DEF MemoryAssumption
<1> DEFINE x == b + BlockHeader + 1 + align - 1
           q == x \div align
<1>2. x \in Nat /\ x = b + BlockHeader + align
  BY <1>1
<1>3. q \in Nat /\ x = (q * align) + (x % align) /\ (x % align) \in 0..(align - 1)
  BY <1>1, <1>2
<1> HIDE DEF q, x
<1>4. q * align \in Nat
  BY <1>1, <1>3
<1> DEFINE y == q * align
<1> HIDE DEF y
<1>5. y \in Nat /\ x = y + (x % align)
  BY Zenon, <1>3, <1>4 DEF y
<1> DEFINE z == x % align
<1>6. z \in 0..(align - 1) /\ x = y + z
  BY Zenon, <1>3, <1>5
<1> HIDE DEF z
<1>7. y >= b + BlockHeader + 1
  BY <1>1, <1>2, <1>5, <1>6
<1>8. Place(b, align) = y
  BY Zenon DEF Place, y, q, x
<1> QED  BY Zenon, <1>5, <1>7, <1>8

\* What the invariant says of one block.
LEMMA BlockFacts ==
  ASSUME MemoryAssumption, HeapTypeOK, Tiled, NEW b \in DOMAIN blocks
  PROVE  /\ b \in 0..(Heap - 1) /\ b \in Nat /\ blocks[b] \in Cells /\ blocks[b].size \in 0..Heap /\ blocks[b].size \in Nat
         /\ blocks[b].used \in BOOLEAN /\ blocks[b].size >= BlockHeader /\ blocks[b].size > 0 /\ b + blocks[b].size <= Heap
         /\ blocks[b].next \in DOMAIN blocks \union {Null}
         /\ blocks[b].next = Null <=> b + blocks[b].size = Heap
         /\ blocks[b].next # Null => blocks[b].next = b + blocks[b].size /\ blocks[b].next \in DOMAIN blocks
<1>1. Heap \in Nat /\ BlockHeader \in Nat \ {0} /\ Null \notin Nat
  BY Zenon DEF MemoryAssumption
<1>2. b \in 0..(Heap - 1)
  BY Zenon DEF HeapTypeOK
<1>3. blocks[b] \in [size : 0..Heap, next : DOMAIN blocks \union {Null}, used : BOOLEAN, p : Nat, n : Nat]
  BY Zenon DEF HeapTypeOK
<1>4. /\ blocks[b].size \in 0..Heap /\ blocks[b].next \in DOMAIN blocks \union {Null} /\ blocks[b].used \in BOOLEAN
      /\ blocks[b].p \in Nat /\ blocks[b].n \in Nat
      /\ blocks[b] = [size |-> blocks[b].size, next |-> blocks[b].next, used |-> blocks[b].used, p |-> blocks[b].p, n |-> blocks[b].n]
  BY Zenon, <1>3
<1>5. DOMAIN blocks \subseteq Nat
  BY <1>1 DEF HeapTypeOK
<1>6. blocks[b] \in Cells
  BY Zenon, <1>4, <1>5 DEF Cells
<1>7. /\ blocks[b].size >= BlockHeader /\ b + blocks[b].size <= Heap
      /\ blocks[b].next = IF b + blocks[b].size = Heap THEN Null ELSE b + blocks[b].size
  BY Zenon DEF Tiled
<1>8. b \in Nat /\ blocks[b].size \in Nat /\ blocks[b].size > 0 /\ b + blocks[b].size \in Nat
  BY <1>1, <1>2, <1>4, <1>7
<1> QED  BY Zenon, <1>1, <1>2, <1>4, <1>6, <1>7, <1>8

\* A cell whose successor is in the list has the type of the list's cells.
LEMMA CellIn ==
  ASSUME NEW c \in Cells, NEW D, c.next \in D \union {Null}
  PROVE  c \in [size : 0..Heap, next : D \union {Null}, used : BOOLEAN, p : Nat, n : Nat]
BY Zenon DEF Cells

\* A change that keeps the addresses, the sizes and the order of the blocks keeps the tiling.
LEMMA ShapeKept ==
  ASSUME MemoryAssumption, HeapTypeOK, Tiled, DOMAIN blocks' = DOMAIN blocks,
         \A a \in DOMAIN blocks : blocks'[a].size = blocks[a].size /\ blocks'[a].next = blocks[a].next
  PROVE  Tiled'
<1>1. 0 \in DOMAIN blocks'
  BY Zenon DEF Tiled
<1>2. \A b \in DOMAIN blocks' :
          /\ blocks'[b].size >= BlockHeader /\ b + blocks'[b].size <= Heap
          /\ blocks'[b].next = IF b + blocks'[b].size = Heap THEN Null ELSE b + blocks'[b].size
  BY Zenon DEF Tiled
<1>3. \A b, c \in DOMAIN blocks' : b < c => b + blocks'[b].size <= c
  BY Zenon DEF Tiled
<1>4. \A x \in 0..(Heap - 1) : \E b \in DOMAIN blocks' : b <= x /\ x < b + blocks'[b].size
  BY Zenon DEF Tiled
<1> QED  BY Zenon, <1>1, <1>2, <1>3, <1>4 DEF Tiled

\* Freeing marks one block.
LEMMA FreeStep ==
  ASSUME MemoryAssumption, Core, NEW b \in DOMAIN blocks, usb_free(b)
  PROVE  Core'
<1>i. HeapTypeOK /\ Tiled /\ Disjoint
  BY Zenon DEF Core
<1>1. blocks' = [blocks EXCEPT ![b] = Block(blocks[b].size, blocks[b].next)] /\ at' = 0 /\ refused' = NotRefused
  BY Zenon DEF usb_free
<1>2. blocks \in [DOMAIN blocks -> Cells]
  BY Zenon, <1>i, BlockFacts DEF HeapTypeOK
<1> DEFINE new == Block(blocks[b].size, blocks[b].next)
<1>3. new \in Cells /\ new.size = blocks[b].size /\ new.next = blocks[b].next /\ new.used = FALSE
  BY Zenon, <1>2 DEF Block, Cells
<1> HIDE DEF new
<1>4. DOMAIN blocks' = DOMAIN blocks /\ blocks'[b] = new /\ \A a \in DOMAIN blocks : a # b => blocks'[a] = blocks[a]
  BY Zenon, <1>1 DEF new
<1>5. \A a \in DOMAIN blocks : blocks'[a] \in Cells /\ blocks'[a].size = blocks[a].size /\ blocks'[a].next = blocks[a].next
  BY Zenon, <1>2, <1>3, <1>4
<1>6. Tiled'
  BY Zenon, <1>4, <1>5, <1>i, ShapeKept
<1>7. HeapTypeOK'
  <2>1. \A a \in DOMAIN blocks' :
           blocks'[a] \in [size : 0..Heap, next : DOMAIN blocks' \union {Null}, used : BOOLEAN, p : Nat, n : Nat]
    BY ZenonT(30), <1>4, <1>5, <1>i, BlockFacts, CellIn
  <2>2. blocks' = [a \in DOMAIN blocks' |-> blocks'[a]]
    BY Zenon, <1>1
  <2>3. 0 \in DOMAIN blocks
    BY Zenon, <1>i DEF Tiled
  <2> QED  BY Zenon, <2>1, <2>2, <2>3, <1>1, <1>4, <1>i DEF HeapTypeOK
<1>8. Disjoint'
  <2> SUFFICES ASSUME NEW a \in DOMAIN blocks, blocks'[a].used
               PROVE  /\ blocks'[a].p - 1 >= a + BlockHeader
                      /\ blocks'[a].p + blocks'[a].n <= IF blocks'[a].next = Null THEN Heap ELSE blocks'[a].next
    BY Zenon, <1>4 DEF Disjoint
  <2>1. a # b
    BY Zenon, <1>3, <1>4
  <2> QED  BY Zenon, <2>1, <1>4, <1>i DEF Disjoint
<1>9. Coalesced'
  <2>1. \A a \in DOMAIN blocks : ~(a < 0)
    BY <1>i DEF HeapTypeOK
  <2>2. 0 # Null
    BY DEF MemoryAssumption
  <2> QED  BY Zenon, <2>1, <2>2, <1>1, <1>4 DEF Coalesced
<1>10. RefusedFits'
  BY Zenon, <1>1 DEF RefusedFits
<1> QED  BY Zenon, <1>6, <1>7, <1>8, <1>9, <1>10 DEF Core

\* The type of the heap from that of its cells.
LEMMA TypeFrom ==
  ASSUME MemoryAssumption, NEW f, f \in [DOMAIN f -> Cells], \A a \in DOMAIN f : f[a].next \in DOMAIN f \union {Null}
  PROVE  f \in [DOMAIN f -> [size : 0..Heap, next : DOMAIN f \union {Null}, used : BOOLEAN, p : Nat, n : Nat]]
<1>1. \A a \in DOMAIN f : f[a] \in [size : 0..Heap, next : DOMAIN f \union {Null}, used : BOOLEAN, p : Nat, n : Nat]
  BY Zenon, CellIn
<1> QED  BY Zenon, <1>1

\* A block that fits, and what is taken of it.
LEMMA FitFacts ==
  ASSUME MemoryAssumption, HeapTypeOK, Tiled, NEW b \in DOMAIN blocks, NEW align \in Aligns, NEW n \in Sizes, Fits(b, align, n)
  PROVE  /\ Need(b, align, n) \in Nat /\ Need(b, align, n) > BlockHeader /\ Need(b, align, n) <= blocks[b].size
         /\ Place(b, align) + n = b + Need(b, align, n) /\ Place(b, align) \in Nat /\ Place(b, align) - 1 >= b + BlockHeader
         /\ n \in Nat /\ ~blocks[b].used
<1>1. n \in Nat \ {0} /\ BlockHeader \in Nat
  BY Zenon DEF MemoryAssumption
<1>2. b \in Nat
  BY Zenon, BlockFacts
<1>3. Place(b, align) \in Nat /\ Place(b, align) >= b + BlockHeader + 1
  BY Zenon, <1>2, PlaceBehind
<1>4. Need(b, align, n) <= blocks[b].size /\ ~blocks[b].used
  BY Zenon DEF Fits
<1>5. Need(b, align, n) = Place(b, align) - b + n
  BY Zenon DEF Need
<1> QED  BY <1>1, <1>2, <1>3, <1>4, <1>5

\* A block given out whole.
LEMMA WholeStep ==
  ASSUME MemoryAssumption, Core, NEW b \in DOMAIN blocks, NEW align \in Aligns, NEW n \in Sizes, Fits(b, align, n),
         blocks' = [blocks EXCEPT ![b] = [blocks[b] EXCEPT !.used = TRUE, !.p = Place(b, align), !.n = n]],
         at = Null, at' = Null, refused' = NotRefused
  PROVE  Core'
<1>i. HeapTypeOK /\ Tiled /\ Disjoint /\ Coalesced
  BY Zenon DEF Core
<1>f. /\ Need(b, align, n) \in Nat /\ Need(b, align, n) <= blocks[b].size
      /\ Place(b, align) + n = b + Need(b, align, n) /\ Place(b, align) \in Nat /\ Place(b, align) - 1 >= b + BlockHeader
      /\ n \in Nat
  BY Zenon, <1>i, FitFacts
<1>b. /\ b \in Nat /\ blocks[b].size \in Nat /\ blocks[b] \in Cells /\ Heap \in Nat
      /\ blocks[b].next = Null <=> b + blocks[b].size = Heap
      /\ blocks[b].next # Null => blocks[b].next = b + blocks[b].size
  BY Zenon, <1>i, BlockFacts DEF MemoryAssumption
<1>2. blocks \in [DOMAIN blocks -> Cells] /\ \A a \in DOMAIN blocks : blocks[a].next \in DOMAIN blocks \union {Null}
  BY Zenon, <1>i, BlockFacts DEF HeapTypeOK
<1> DEFINE pl == Place(b, align)
           nd == Need(b, align, n)
           new == [blocks[b] EXCEPT !.used = TRUE, !.p = pl, !.n = n]
<1>n. blocks' = [blocks EXCEPT ![b] = new]
  BY Zenon
<1>g. nd \in Nat /\ nd <= blocks[b].size /\ pl + n = b + nd /\ pl \in Nat /\ pl - 1 >= b + BlockHeader
  BY Zenon, <1>f
<1> HIDE DEF pl, nd
<1>3. new \in Cells /\ new.size = blocks[b].size /\ new.next = blocks[b].next /\ new.used = TRUE /\ new.p = pl /\ new.n = n
  BY Zenon, <1>b, <1>f, <1>g DEF Cells
<1> HIDE DEF new
<1>4. DOMAIN blocks' = DOMAIN blocks /\ blocks'[b] = new /\ \A a \in DOMAIN blocks : a # b => blocks'[a] = blocks[a]
  BY Zenon, <1>n
<1>5. \A a \in DOMAIN blocks : blocks'[a] \in Cells /\ blocks'[a].size = blocks[a].size /\ blocks'[a].next = blocks[a].next
                               /\ (blocks[a].used => blocks'[a].used)
  BY Zenon, <1>2, <1>3, <1>4
<1>6. Tiled'
  BY Zenon, <1>4, <1>5, <1>i, ShapeKept
<1>7. HeapTypeOK'
  <2>1. blocks' \in [DOMAIN blocks' -> Cells]
    BY Zenon, <1>4, <1>5, <1>n
  <2>2. \A a \in DOMAIN blocks' : blocks'[a].next \in DOMAIN blocks' \union {Null}
    BY Zenon, <1>2, <1>4, <1>5
  <2>3. blocks' \in [DOMAIN blocks' -> [size : 0..Heap, next : DOMAIN blocks' \union {Null}, used : BOOLEAN, p : Nat, n : Nat]]
    BY Zenon, <2>1, <2>2, TypeFrom
  <2> QED  BY Zenon, <2>3, <1>4, <1>i DEF HeapTypeOK
<1>8. Disjoint'
  <2>1. pl - 1 >= b + BlockHeader /\ pl + n <= IF blocks[b].next = Null THEN Heap ELSE blocks[b].next
    BY <1>f, <1>g, <1>b
  <2>2. blocks'[b].p - 1 >= b + BlockHeader /\ blocks'[b].p + blocks'[b].n <= IF blocks'[b].next = Null THEN Heap ELSE blocks'[b].next
    BY Zenon, <2>1, <1>3, <1>4
  <2>3. ASSUME NEW a \in DOMAIN blocks, a # b, blocks'[a].used
        PROVE  /\ blocks'[a].p - 1 >= a + BlockHeader
               /\ blocks'[a].p + blocks'[a].n <= IF blocks'[a].next = Null THEN Heap ELSE blocks'[a].next
    BY Zenon, <2>3, <1>4, <1>i DEF Disjoint
  <2>4. \A a \in DOMAIN blocks : blocks'[a].used =>
            /\ blocks'[a].p - 1 >= a + BlockHeader
            /\ blocks'[a].p + blocks'[a].n <= IF blocks'[a].next = Null THEN Heap ELSE blocks'[a].next
    BY ONLY Zenon, <2>2, <2>3
  <2> QED  BY Zenon, <2>4, <1>4 DEF Disjoint
<1>9. Coalesced'
  <2>1. ASSUME NEW a \in DOMAIN blocks, blocks'[a].next # Null
        PROVE  blocks'[a].used \/ blocks'[blocks'[a].next].used
    <3>1. blocks[a].next # Null /\ blocks'[a].next = blocks[a].next /\ blocks[a].next \in DOMAIN blocks
      BY Zenon, <2>1, <1>2, <1>5
    <3>2. blocks[a].used \/ blocks[blocks[a].next].used
      BY Zenon, <3>1, <1>i DEF Coalesced
    <3> QED  BY Zenon, <3>1, <3>2, <1>5
  <2> QED  BY Zenon, <2>1, <1>4 DEF Coalesced
<1>10. RefusedFits'
  BY Zenon DEF RefusedFits
<1> QED  BY Zenon, <1>6, <1>7, <1>8, <1>9, <1>10 DEF Core

\* A block divided: the front is given out, the rest is a block of its own.
LEMMA SplitStep ==
  ASSUME MemoryAssumption, Core, NEW b \in DOMAIN blocks, NEW align \in Aligns, NEW n \in Sizes, Fits(b, align, n),
         Splits(blocks[b].size, Need(b, align, n)), blocks' = Took(b, align, n),
         at = Null, at' = Null, refused' = NotRefused
  PROVE  Core'
<1> DEFINE pl == Place(b, align)
           nd == Need(b, align, n)
           sz == blocks[b].size
           t == b + nd
           D == DOMAIN blocks
           front == [[blocks[b] EXCEPT !.used = TRUE, !.p = pl, !.n = n] EXCEPT !.size = nd, !.next = t]
           back == Block(sz - nd, blocks[b].next)
<1>i. HeapTypeOK /\ Tiled /\ Disjoint /\ Coalesced
  BY Zenon DEF Core
<1>c. Heap \in Nat /\ BlockHeader \in Nat \ {0} /\ Spare \in Nat /\ Null \notin Nat
  BY Zenon DEF MemoryAssumption
<1>f. nd \in Nat /\ nd > BlockHeader /\ nd <= sz /\ pl + n = b + nd /\ pl \in Nat /\ pl - 1 >= b + BlockHeader /\ n \in Nat /\ ~blocks[b].used
  BY Zenon, <1>i, FitFacts
<1>s. sz - nd >= BlockHeader + Spare
  BY Zenon DEF Splits
<1>b. /\ b \in Nat /\ sz \in 0..Heap /\ sz \in Nat /\ blocks[b] \in Cells /\ b + sz <= Heap
      /\ blocks[b].next = Null <=> b + sz = Heap
      /\ blocks[b].next # Null => blocks[b].next = b + sz /\ blocks[b].next \in D
  BY Zenon, <1>i, BlockFacts
<1>2. blocks \in [D -> Cells] /\ \A a \in D : blocks[a].next \in D \union {Null}
  BY Zenon, <1>i, BlockFacts DEF HeapTypeOK
<1>n. blocks' = [a \in D \union {t} |-> IF a = b THEN front ELSE IF a = t THEN back ELSE blocks[a]]
  BY Zenon DEF Took
<1>l. \A c \in D : c \in Nat /\ c < Heap /\ blocks[c].size \in Nat /\ blocks[c].size >= BlockHeader /\ blocks[c].size > 0
                   /\ c + blocks[c].size <= Heap
                   /\ (b < c => b + sz <= c) /\ (c < b => c + blocks[c].size <= b)
  <2> SUFFICES ASSUME NEW c \in D
               PROVE  c \in Nat /\ c < Heap /\ blocks[c].size \in Nat /\ blocks[c].size >= BlockHeader /\ blocks[c].size > 0
                   /\ c + blocks[c].size <= Heap
                   /\ (b < c => b + sz <= c) /\ (c < b => c + blocks[c].size <= b)
    BY Zenon
  <2>1. c \in 0..(Heap - 1) /\ blocks[c].size \in Nat /\ blocks[c].size >= BlockHeader /\ blocks[c].size > 0
        /\ c + blocks[c].size <= Heap
    BY Zenon, <1>i, BlockFacts
  <2>2. (b < c => b + sz <= c) /\ (c < b => c + blocks[c].size <= b)
    BY Zenon, <1>i DEF Tiled
  <2>3. c \in Nat /\ c < Heap
    BY <1>c, <2>1
  <2> QED  BY Zenon, <2>1, <2>2, <2>3
<1> HIDE DEF pl, nd, sz, D
<1>t. /\ t \in Nat /\ t < b + sz /\ b < t /\ t < Heap /\ t \in 0..(Heap - 1) /\ sz - nd \in Nat /\ sz - nd \in 0..Heap
      /\ nd \in 0..Heap /\ sz - nd >= BlockHeader /\ t + (sz - nd) = b + sz /\ sz - nd > 0
  BY <1>c, <1>f, <1>s, <1>b
<1>d. t \notin D
  BY <1>l, <1>t
<1> HIDE DEF t
<1>3. /\ front \in Cells /\ front.size = nd /\ front.next = t /\ front.used = TRUE /\ front.p = pl /\ front.n = n
  BY Zenon, <1>b, <1>f, <1>t DEF Cells
<1>4. /\ back \in Cells /\ back.size = sz - nd /\ back.next = blocks[b].next /\ back.used = FALSE
  <2>1. blocks[b].next \in Nat \union {Null}
    BY Zenon, <1>b DEF Cells
  <2> QED  BY Zenon, <2>1, <1>t DEF Cells, Block
<1> HIDE DEF front, back
<1>5. /\ DOMAIN blocks' = D \union {t} /\ blocks'[b] = front /\ blocks'[t] = back /\ b # t
      /\ \A a \in D : a # b => a # t /\ blocks'[a] = blocks[a]
  <2>1. b \in D
    BY Zenon DEF D
  <2>2. b # t
    BY Zenon, <2>1, <1>d
  <2> QED  BY Zenon, <1>n, <1>d, <2>1, <2>2
<1>7. HeapTypeOK'
  <2>1. \A a \in D \union {t} : blocks'[a] \in Cells
    <3>1. ASSUME NEW a \in D, a # b PROVE blocks'[a] \in Cells
      BY Zenon, <3>1, <1>2, <1>5
    <3>2. blocks'[b] \in Cells /\ blocks'[t] \in Cells
      BY Zenon, <1>3, <1>4, <1>5
    <3> QED  BY Zenon, <3>1, <3>2
  <2>2. blocks' \in [DOMAIN blocks' -> Cells]
    BY Zenon, <1>5, <1>n, <2>1
  <2>3. \A a \in DOMAIN blocks' : blocks'[a].next \in DOMAIN blocks' \union {Null}
    <3>1. ASSUME NEW a \in D, a # b PROVE blocks'[a].next \in D \union {Null}
      BY Zenon, <3>1, <1>2, <1>5
    <3>2. blocks'[b].next = t
      BY Zenon, <1>3, <1>5
    <3>3. blocks'[t].next \in D \union {Null}
      BY Zenon, <1>b, <1>4, <1>5
    <3> QED  BY Zenon, <3>1, <3>2, <3>3, <1>5
  <2>4. blocks' \in [DOMAIN blocks' -> [size : 0..Heap, next : DOMAIN blocks' \union {Null}, used : BOOLEAN, p : Nat, n : Nat]]
    BY Zenon, <2>2, <2>3, TypeFrom
  <2>5. DOMAIN blocks' \subseteq 0..(Heap - 1)
    BY Zenon, <1>5, <1>t, <1>i DEF HeapTypeOK, D
  <2> QED  BY Zenon, <2>4, <2>5, <1>i DEF HeapTypeOK
<1>6. Tiled'
  <2>1. 0 \in DOMAIN blocks'
    BY Zenon, <1>i, <1>5 DEF Tiled, D
  <2>2. ASSUME NEW c \in DOMAIN blocks'
        PROVE  /\ blocks'[c].size >= BlockHeader /\ c + blocks'[c].size <= Heap
               /\ blocks'[c].next = IF c + blocks'[c].size = Heap THEN Null ELSE c + blocks'[c].size
    <3>1. CASE c = b
      <4>1. nd >= BlockHeader /\ b + nd <= Heap /\ t = IF b + nd = Heap THEN Null ELSE b + nd
        BY <1>c, <1>f, <1>t, <1>b DEF t
      <4> QED  BY Zenon, <4>1, <3>1, <1>3, <1>5
    <3>2. CASE c = t
      <4>1. t + (sz - nd) <= Heap /\ blocks[b].next = IF t + (sz - nd) = Heap THEN Null ELSE t + (sz - nd)
        BY Zenon, <1>t, <1>b
      <4> QED  BY Zenon, <4>1, <3>2, <1>t, <1>4, <1>5
    <3>3. CASE c \in D /\ c # b
      BY Zenon, <3>3, <1>5, <1>i DEF Tiled, D
    <3> QED  BY Zenon, <3>1, <3>2, <3>3, <1>5
  <2>3. ASSUME NEW c \in DOMAIN blocks', NEW d \in DOMAIN blocks', c < d PROVE c + blocks'[c].size <= d
    <3>b. b \in D
      BY Zenon DEF D
    <3>1. CASE c \in D /\ c # b /\ d \in D
      BY Zenon, <3>1, <2>3, <1>5, <1>i DEF Tiled, D
    <3>2. CASE c = b /\ d \in D
      <4>1. b + nd <= d
        BY <3>2, <2>3, <1>l, <1>f, <1>b
      <4> QED  BY Zenon, <4>1, <3>2, <1>3, <1>5
    <3>3. CASE c = b /\ d = t
      <4>1. b + nd <= t
        BY <1>f, <1>b DEF t
      <4> QED  BY Zenon, <4>1, <3>3, <1>3, <1>5
    <3>4. CASE c = t /\ d \in D
      <4>1. b + sz <= d
        BY <3>4, <2>3, <1>l, <1>t, <1>b
      <4> QED  BY Zenon, <4>1, <3>4, <1>t, <1>4, <1>5
    <3>5. CASE c \in D /\ c # b /\ d = t
      <4>1. c + blocks[c].size <= t
        BY <3>5, <2>3, <1>l, <1>t, <1>b
      <4> QED  BY Zenon, <4>1, <3>5, <1>5
    <3>6. CASE c = t /\ d = t
      BY <3>6, <2>3, <1>t
    <3> QED  BY ZenonT(30), <3>1, <3>2, <3>3, <3>4, <3>5, <3>6, <1>5
  <2>4. ASSUME NEW x \in 0..(Heap - 1) PROVE \E c \in DOMAIN blocks' : c <= x /\ x < c + blocks'[c].size
    <3>b. b \in D
      BY Zenon DEF D
    <3>1. PICK c \in D : c <= x /\ x < c + blocks[c].size
      BY Zenon, <1>i DEF Tiled, D
    <3>2. CASE c # b
      BY Zenon, <3>1, <3>2, <1>5
    <3>3. CASE c = b
      <4>0. b <= x /\ x < b + sz
        BY Zenon, <3>1, <3>3 DEF sz
      <4>1. (b <= x /\ x < b + nd) \/ (t <= x /\ x < t + (sz - nd))
        BY <4>0, <1>c, <1>f, <1>b, <1>t DEF t
      <4> QED  BY Zenon, <4>1, <3>b, <1>3, <1>4, <1>5
    <3> QED  BY Zenon, <3>2, <3>3
  <2> QED  BY Zenon, <2>1, <2>2, <2>3, <2>4 DEF Tiled
<1>8. Disjoint'
  <2>1. pl - 1 >= b + BlockHeader /\ pl + n <= IF t = Null THEN Heap ELSE t
    BY <1>c, <1>f, <1>t, <1>b DEF t
  <2>2. blocks'[b].p - 1 >= b + BlockHeader /\ blocks'[b].p + blocks'[b].n <= IF blocks'[b].next = Null THEN Heap ELSE blocks'[b].next
    BY Zenon, <2>1, <1>3, <1>5
  <2>3. ~blocks'[t].used
    BY Zenon, <1>4, <1>5
  <2> QED  BY Zenon, <2>2, <2>3, <1>5, <1>i DEF Disjoint, D
<1>9. Coalesced'
  <2>0. \A c \in D : blocks[c].next # Null => blocks[c].next \in D /\ (blocks[c].used \/ blocks[blocks[c].next].used)
    BY Zenon, <1>2, <1>i DEF Coalesced, D
  <2>b. b \in D
    BY Zenon DEF D
  <2>1. blocks[b].next # Null => blocks[b].next \in D /\ blocks[b].next # b /\ blocks[blocks[b].next].used
    BY Zenon, <2>0, <2>b, <1>f
  <2>2. blocks'[b].used
    BY Zenon, <1>3, <1>5
  <2>3. ASSUME NEW c \in DOMAIN blocks', blocks'[c].next # Null
        PROVE  blocks'[c].used \/ blocks'[blocks'[c].next].used
    <3>1. CASE c = b
      BY Zenon, <3>1, <2>2
    <3>2. CASE c = t
      BY ZenonT(30), <3>2, <2>3, <2>1, <1>4, <1>5
    <3>3. CASE c \in D /\ c # b
      <4>1. blocks'[c] = blocks[c] /\ blocks[c].next \in D /\ (blocks[c].used \/ blocks[blocks[c].next].used)
        BY ZenonT(30), <3>3, <2>0, <2>3, <1>5
      <4>2. CASE blocks[c].next = b
        BY Zenon, <4>1, <4>2, <2>2
      <4>3. CASE blocks[c].next # b
        BY Zenon, <4>1, <4>3, <1>5
      <4> QED  BY Zenon, <4>2, <4>3
    <3> QED  BY Zenon, <3>1, <3>2, <3>3, <1>5
  <2> QED  BY Zenon, <2>3 DEF Coalesced
<1>10. RefusedFits'
  BY Zenon DEF RefusedFits
<1> QED  BY Zenon, <1>6, <1>7, <1>8, <1>9, <1>10 DEF Core

\* Two free neighbours made one.
LEMMA JoinStep ==
  ASSUME MemoryAssumption, Core, at # Null, blocks[at].next # Null, ~blocks[at].used, ~blocks[blocks[at].next].used, Pass
  PROVE  Core'
<1> DEFINE D == DOMAIN blocks
           c == blocks[at].next
           new == [blocks[at] EXCEPT !.size = blocks[at].size + blocks[c].size, !.next = blocks[c].next]
<1>i. HeapTypeOK /\ Tiled /\ Disjoint /\ Coalesced /\ RefusedFits
  BY Zenon DEF Core
<1>c. Heap \in Nat /\ BlockHeader \in Nat \ {0} /\ Null \notin Nat
  BY Zenon DEF MemoryAssumption
<1>a. at \in D
  BY Zenon, <1>i DEF HeapTypeOK
<1>n. blocks' = [a \in D \ {c} |-> IF a = at THEN new ELSE blocks[a]] /\ at' = at /\ refused' = refused
  BY Zenon DEF Pass, Stand
<1>2. blocks \in [D -> Cells] /\ \A a \in D : blocks[a].next \in D \union {Null}
  BY Zenon, <1>i, BlockFacts DEF HeapTypeOK
<1>l. \A d \in D : /\ d \in Nat /\ d < Heap /\ blocks[d].size \in Nat /\ blocks[d].size >= BlockHeader /\ blocks[d].size > 0
                   /\ d + blocks[d].size <= Heap
                   /\ blocks[d].next = Null <=> d + blocks[d].size = Heap
                   /\ blocks[d].next # Null => blocks[d].next = d + blocks[d].size
  <2> SUFFICES ASSUME NEW d \in D
               PROVE  /\ d \in Nat /\ d < Heap /\ blocks[d].size \in Nat /\ blocks[d].size >= BlockHeader /\ blocks[d].size > 0
                      /\ d + blocks[d].size <= Heap
                      /\ blocks[d].next = Null <=> d + blocks[d].size = Heap
                      /\ blocks[d].next # Null => blocks[d].next = d + blocks[d].size
    BY Zenon
  <2>1. d \in 0..(Heap - 1) /\ blocks[d].size \in Nat /\ blocks[d].size >= BlockHeader /\ blocks[d].size > 0
        /\ d + blocks[d].size <= Heap /\ (blocks[d].next = Null <=> d + blocks[d].size = Heap)
        /\ (blocks[d].next # Null => blocks[d].next = d + blocks[d].size)
    BY Zenon, <1>i, BlockFacts
  <2>2. d \in Nat /\ d < Heap
    BY <1>c, <2>1
  <2> QED  BY Zenon, <2>1, <2>2
<1>o. \A d, e \in D : d < e => d + blocks[d].size <= e
  BY Zenon, <1>i DEF Tiled
<1>d. c \in D /\ c = at + blocks[at].size
  BY Zenon, <1>2, <1>l, <1>a
<1> HIDE DEF D, c
<1> DEFINE s1 == blocks[at].size
           s2 == blocks[c].size
<1>q. /\ at \in Nat /\ at < Heap /\ s1 \in Nat /\ s1 >= BlockHeader /\ s1 > 0 /\ c = at + s1
      /\ c \in Nat /\ s2 \in Nat /\ c + s2 <= Heap /\ s2 > 0
      /\ blocks[c].next = Null <=> c + s2 = Heap
      /\ blocks[c].next # Null => blocks[c].next = c + s2
  BY Zenon, <1>a, <1>d, <1>l
<1> HIDE DEF s1, s2
<1>r. /\ s1 + s2 \in 0..Heap /\ at < c /\ at # c /\ c # 0 /\ at + (s1 + s2) = c + s2 /\ s1 + s2 >= BlockHeader
  BY <1>c, <1>q
<1>3. /\ new \in Cells /\ new.size = s1 + s2 /\ new.next = blocks[c].next /\ new.used = blocks[at].used
  <2>1. blocks[at] \in Cells /\ blocks[c].next \in Nat \union {Null}
    <3>1. blocks[at] \in Cells /\ blocks[c] \in Cells
      BY Zenon, <1>a, <1>d, <1>2
    <3> QED  BY Zenon, <3>1 DEF Cells
  <2>2. new = [blocks[at] EXCEPT !.size = s1 + s2, !.next = blocks[c].next]
    BY Zenon DEF s1, s2
  <2> HIDE DEF new
  <2> QED  BY Zenon, <2>1, <2>2, <1>r DEF Cells
<1> HIDE DEF new
<1>5. /\ DOMAIN blocks' = D \ {c} /\ blocks'[at] = new /\ at \in D \ {c}
      /\ \A a \in D \ {c} : a # at => blocks'[a] = blocks[a]
  BY Zenon, <1>n, <1>a, <1>r
<1>z. \A a \in D \ {c} : a # at => blocks[a].next # c
  <2> SUFFICES ASSUME NEW a \in D \ {c}, a # at, blocks[a].next = c PROVE FALSE
    BY Zenon
  <2>0. c # Null
    BY Zenon, <1>c, <1>q
  <2>1. c = a + blocks[a].size
    BY Zenon, <2>0, <1>l
  <2>2. a \in Nat /\ blocks[a].size \in Nat /\ blocks[a].size > 0
    BY Zenon, <1>l
  <2>3. (a < at => a + blocks[a].size <= at) /\ (at < a => at + s1 <= a)
    BY Zenon, <1>o, <1>a DEF s1
  <2> QED  BY <2>1, <2>2, <2>3, <1>q
<1>7. HeapTypeOK'
  <2>1. \A a \in D \ {c} : blocks'[a] \in Cells
    <3>1. ASSUME NEW a \in D \ {c}, a # at PROVE blocks'[a] \in Cells
      BY Zenon, <3>1, <1>2, <1>5
    <3> QED  BY Zenon, <3>1, <1>3, <1>5
  <2>2. blocks' \in [DOMAIN blocks' -> Cells]
    BY Zenon, <1>5, <1>n, <2>1
  <2>3. \A a \in D \ {c} : blocks'[a].next \in (D \ {c}) \union {Null}
    <3>1. ASSUME NEW a \in D \ {c}, a # at PROVE blocks'[a].next \in (D \ {c}) \union {Null}
      BY Zenon, <3>1, <1>2, <1>5, <1>z
    <3>2. blocks[c].next # c
      BY <1>q, <1>c
    <3>3. blocks'[at].next \in (D \ {c}) \union {Null}
      BY Zenon, <3>2, <1>2, <1>3, <1>5, <1>d
    <3> QED  BY Zenon, <3>1, <3>3
  <2>4. blocks' \in [DOMAIN blocks' -> [size : 0..Heap, next : DOMAIN blocks' \union {Null}, used : BOOLEAN, p : Nat, n : Nat]]
    BY Zenon, <2>2, <2>3, <1>5, TypeFrom
  <2>5. DOMAIN blocks' \subseteq 0..(Heap - 1)
    BY Zenon, <1>5, <1>i DEF HeapTypeOK, D
  <2> QED  BY Zenon, <2>4, <2>5, <1>5, <1>n, <1>i DEF HeapTypeOK
<1>6. Tiled'
  <2>1. 0 \in DOMAIN blocks'
    BY Zenon, <1>i, <1>5, <1>r DEF Tiled, D
  <2>2. ASSUME NEW d \in DOMAIN blocks'
        PROVE  /\ blocks'[d].size >= BlockHeader /\ d + blocks'[d].size <= Heap
               /\ blocks'[d].next = IF d + blocks'[d].size = Heap THEN Null ELSE d + blocks'[d].size
    <3>1. CASE d = at
      BY Zenon, <3>1, <1>3, <1>5, <1>q, <1>r
    <3>2. CASE d # at
      BY Zenon, <3>2, <1>5, <1>i DEF Tiled, D
    <3> QED  BY Zenon, <3>1, <3>2
  <2>3. ASSUME NEW d \in DOMAIN blocks', NEW e \in DOMAIN blocks', d < e PROVE d + blocks'[d].size <= e
    <3>d. d \in D /\ e \in D /\ e # c /\ d # c
      BY Zenon, <1>5
    <3>1. CASE d = at
      <4>1. c <= e
        BY Zenon, <3>1, <3>d, <2>3, <1>a, <1>o, <1>d
      <4>2. c < e
        BY <4>1, <3>d, <1>l, <1>q
      <4>3. c + s2 <= e
        BY Zenon, <4>2, <3>d, <1>o, <1>d DEF s2
      <4> QED  BY Zenon, <4>3, <3>1, <1>3, <1>5, <1>r
    <3>2. CASE d # at
      BY Zenon, <3>2, <3>d, <2>3, <1>5, <1>o
    <3> QED  BY Zenon, <3>1, <3>2
  <2>4. ASSUME NEW x \in 0..(Heap - 1) PROVE \E d \in DOMAIN blocks' : d <= x /\ x < d + blocks'[d].size
    <3>1. PICK d \in D : d <= x /\ x < d + blocks[d].size
      BY Zenon, <1>i DEF Tiled, D
    <3>2. CASE d # at /\ d # c
      BY Zenon, <3>1, <3>2, <1>5
    <3>3. CASE d = at \/ d = c
      <4>0. (at <= x /\ x < at + s1) \/ (c <= x /\ x < c + s2)
        BY Zenon, <3>1, <3>3 DEF s1, s2
      <4>1. at <= x /\ x < at + (s1 + s2)
        BY <4>0, <1>c, <1>q
      <4> QED  BY Zenon, <4>1, <1>3, <1>5
    <3> QED  BY Zenon, <3>2, <3>3
  <2> QED  BY Zenon, <2>1, <2>2, <2>3, <2>4 DEF Tiled
<1>8. Disjoint'
  <2>1. ~blocks'[at].used
    BY Zenon, <1>3, <1>5
  <2> QED  BY Zenon, <2>1, <1>5, <1>i DEF Disjoint, D
<1>9. Coalesced'
  <2> SUFFICES ASSUME NEW a \in D \ {c}, blocks'[a].next # Null, a < at
               PROVE  blocks'[a].used \/ blocks'[blocks'[a].next].used
    BY Zenon, <1>5, <1>n DEF Coalesced
  <2>1. a # at
    BY <1>l, <1>q
  <2>2. blocks'[a] = blocks[a] /\ blocks[a].next # Null /\ blocks[a].next \in D \ {c}
    BY Zenon, <2>1, <1>2, <1>5, <1>z
  <2>3. blocks[a].used \/ blocks[blocks[a].next].used
    BY Zenon, <2>2, <1>i DEF Coalesced, D
  <2>4. CASE blocks[a].next = at
    BY Zenon, <2>2, <2>3, <2>4, <1>3, <1>5
  <2>5. CASE blocks[a].next # at
    BY Zenon, <2>2, <2>3, <2>5, <1>5
  <2> QED  BY Zenon, <2>4, <2>5
<1>10. RefusedFits'
  BY Zenon, <1>n, <1>i DEF RefusedFits
<1> QED  BY ZenonT(30), <1>6, <1>7, <1>8, <1>9, <1>10 DEF Core

\* A turn of the loop that joins nothing.
LEMMA MoveStep ==
  ASSUME MemoryAssumption, Core, Pass, blocks[at].next = Null \/ blocks[at].used \/ blocks[blocks[at].next].used
  PROVE  Core'
<1>i. HeapTypeOK /\ Tiled /\ Disjoint /\ Coalesced /\ RefusedFits
  BY Zenon DEF Core
<1>1. at # Null /\ blocks' = blocks /\ refused' = refused /\ at' = blocks[at].next
  BY Zenon DEF Pass
<1>2. at \in DOMAIN blocks
  BY Zenon, <1>1, <1>i DEF HeapTypeOK
<1>3. blocks[at].next \in DOMAIN blocks \union {Null} /\ Heap \in Nat /\ Null \notin Nat
  BY Zenon, <1>2, <1>i, BlockFacts DEF MemoryAssumption
<1>4. HeapTypeOK' /\ Tiled' /\ Disjoint'
  BY Zenon, <1>1, <1>3, <1>i DEF HeapTypeOK, Tiled, Disjoint
<1>5. RefusedFits'
  BY Zenon, <1>1, <1>i DEF RefusedFits
<1>6. Coalesced'
  <2> SUFFICES ASSUME NEW b \in DOMAIN blocks, blocks[b].next # Null, blocks[at].next # Null => b < blocks[at].next
               PROVE  blocks[b].used \/ blocks[blocks[b].next].used
    BY Zenon, <1>1 DEF Coalesced
  <2>1. CASE b = at
    BY Zenon, <2>1
  <2>2. CASE b < at
    BY Zenon, <2>2, <1>i DEF Coalesced
  <2>3. CASE at < b
    <3>1. at + blocks[at].size <= b
      BY Zenon, <2>3, <1>2, <1>i DEF Tiled
    <3>2. b \in 0..(Heap - 1) /\ at \in Nat /\ blocks[at].size \in Nat
      BY Zenon, <1>2, <1>i, BlockFacts
    <3>3. (blocks[at].next = Null <=> at + blocks[at].size = Heap) /\ (blocks[at].next # Null => blocks[at].next = at + blocks[at].size)
      BY Zenon, <1>2, <1>i, BlockFacts
    <3> QED  BY <3>1, <3>2, <3>3, <1>3
  <2>4. b \in Nat /\ at \in Nat
    BY Zenon, <1>2, <1>i, BlockFacts
  <2>5. b = at \/ b < at \/ at < b
    BY <2>4
  <2> QED  BY Zenon, <2>1, <2>2, <2>3, <2>5
<1> QED  BY Zenon, <1>4, <1>5, <1>6 DEF Core

\* A refused request finds no gap: a gap between blocks in use is one free block, and that one does not fit.
LEMMA NoGap == ASSUME MemoryAssumption, Core PROVE RefusedOnlyIfFull
<1>i. HeapTypeOK /\ Tiled /\ Coalesced /\ RefusedFits
  BY Zenon DEF Core
<1> DEFINE Gap(z, e) == (z = 0 \/ Taken(z - 1)) /\ e <= Heap /\ \A y \in z..(e - 1) : ~Taken(y)
<1>0. ASSUME refused # NotRefused => ~\E z \in 0..(Heap - 1) : Gap(z, Place(z, refused[1]) + refused[2])
      PROVE  RefusedOnlyIfFull
  BY Zenon, <1>0 DEF RefusedOnlyIfFull
<1> SUFFICES ASSUME refused # NotRefused, NEW x \in 0..(Heap - 1), Gap(x, Place(x, refused[1]) + refused[2])
             PROVE  FALSE
  BY Zenon, <1>0
<1>c. Heap \in Nat /\ BlockHeader \in Nat \ {0} /\ Null \notin Nat
  BY Zenon DEF MemoryAssumption
<1>1. refused \in Aligns \X Sizes
  BY Zenon, <1>i DEF HeapTypeOK
<1>2. refused[1] \in Aligns /\ refused[2] \in Sizes
  BY Zenon, <1>1
<1>3. refused[2] \in Nat /\ x \in Nat
  <2>1. Sizes \subseteq Nat \ {0}
    BY Zenon DEF MemoryAssumption
  <2>2. refused[2] \in Nat
    BY Zenon, <2>1, <1>2
  <2>3. x \in Nat
    BY <1>c
  <2> QED  BY Zenon, <2>2, <2>3
<1> DEFINE pl == Place(x, refused[1])
           n == refused[2]
           end == pl + n
<1>4. pl \in Nat /\ pl >= x + BlockHeader + 1
  BY Zenon, <1>2, <1>3, PlaceBehind
<1>5. (x = 0 \/ Taken(x - 1)) /\ end <= Heap /\ (\A y \in x..(end - 1) : ~Taken(y)) /\ n \in Nat
  BY Zenon, <1>3
<1> HIDE DEF pl, n
<1>6. x \in x..(end - 1) /\ end \in Nat
  BY <1>3, <1>4, <1>5, <1>c
<1>7. ~Taken(x)
  BY Zenon, <1>5, <1>6
<1>8. x \in DOMAIN blocks
  <2>1. CASE x = 0
    BY Zenon, <2>1, <1>i DEF Tiled
  <2>2. CASE Taken(x - 1)
    <3>1. PICK b \in DOMAIN blocks : blocks[b].used /\ b <= x - 1 /\ x - 1 < b + blocks[b].size
      BY Zenon, <2>2 DEF Taken
    <3>2. b \in Nat /\ blocks[b].size \in Nat /\ (blocks[b].next = Null <=> b + blocks[b].size = Heap)
          /\ (blocks[b].next # Null => blocks[b].next = b + blocks[b].size /\ blocks[b].next \in DOMAIN blocks)
      BY Zenon, <1>i, BlockFacts
    <3>3. ~(b <= x /\ x < b + blocks[b].size)
      BY Zenon, <3>1, <1>7 DEF Taken
    <3>4. x = b + blocks[b].size /\ b + blocks[b].size # Heap
      BY <3>1, <3>2, <3>3, <1>3, <1>c
    <3> QED  BY Zenon, <3>2, <3>4
  <2> QED  BY Zenon, <2>1, <2>2, <1>5
<1>9. /\ blocks[x].size \in Nat /\ blocks[x].size > 0 /\ (blocks[x].next = Null <=> x + blocks[x].size = Heap)
      /\ (blocks[x].next # Null => blocks[x].next = x + blocks[x].size /\ blocks[x].next \in DOMAIN blocks)
  BY Zenon, <1>i, <1>8, BlockFacts
<1>10. ~blocks[x].used
  <2>1. x <= x /\ x < x + blocks[x].size
    BY <1>3, <1>9
  <2> QED  BY Zenon, <2>1, <1>7, <1>8 DEF Taken
<1>11. ~(pl - x + n <= blocks[x].size)
  BY Zenon, <1>8, <1>10, <1>i DEF RefusedFits, Fits, Need, pl, n
<1>12. x + blocks[x].size < end
  BY <1>3, <1>4, <1>5, <1>9, <1>11
<1> DEFINE y == x + blocks[x].size
<1>13. y # Heap /\ y \in x..(end - 1) /\ y \in Nat
  BY <1>3, <1>5, <1>6, <1>9, <1>12, <1>c
<1>14. blocks[x].next = y /\ y \in DOMAIN blocks /\ y # Null
  BY Zenon, <1>9, <1>13, <1>c
<1>15. blocks[y].used
  BY Zenon, <1>14, <1>10, <1>8, <1>i DEF Coalesced, RefusedFits
<1>16. y <= y /\ y < y + blocks[y].size
  <2>1. blocks[y].size \in Nat /\ blocks[y].size > 0
    BY Zenon, <1>14, <1>i, BlockFacts
  <2> HIDE DEF y
  <2> QED  BY <2>1, <1>13
<1> QED  BY Zenon, <1>5, <1>13, <1>14, <1>15, <1>16 DEF Taken

\* usb_memalign keeps the heap in order, whether it takes a block whole, splits one or
\* refuses.
LEMMA AlignStep ==
  ASSUME MemoryAssumption, Core, NEW align \in Aligns, NEW n \in Sizes, usb_memalign(align, n)
  PROVE  Core'
<1> DEFINE fit == {b \in DOMAIN blocks : Fits(b, align, n)}
<1>i. HeapTypeOK /\ Tiled /\ Disjoint /\ Coalesced
  BY Zenon DEF Core
<1>1. at = Null /\ at' = Null
  BY Zenon DEF usb_memalign
<1>2. CASE fit = {}
  <2>1. refused' = <<align, n>> /\ blocks' = blocks
    BY Zenon, <1>2 DEF usb_memalign
  <2>2. refused' \in Aligns \X Sizes /\ refused'[1] = align /\ refused'[2] = n
    BY Zenon, <2>1
  <2>3. \A b \in DOMAIN blocks : ~Fits(b, align, n)
    BY Zenon, <1>2
  <2>4. RefusedFits'
    BY Zenon, <2>1, <2>2, <2>3, <1>1 DEF RefusedFits, Fits
  <2>5. HeapTypeOK' /\ Tiled' /\ Disjoint' /\ Coalesced'
    BY Zenon, <2>1, <2>2, <1>1, <1>i DEF HeapTypeOK, Tiled, Disjoint, Coalesced
  <2> QED  BY Zenon, <2>4, <2>5 DEF Core
<1>3. CASE fit # {}
  <2> DEFINE b == Min(fit)
  <2>1. fit \in SUBSET Nat
    BY Zenon, <1>i, BlockFacts
  <2>2. b \in fit
    BY Zenon, <2>1, <1>3, LeastOf
  <2>3. b \in DOMAIN blocks /\ Fits(b, align, n)
    BY Zenon, <2>2
  <2>4. blocks' = Took(b, align, n) /\ refused' = NotRefused
    BY Zenon, <1>3 DEF usb_memalign
  <2> HIDE DEF b
  <2>5. CASE Splits(blocks[b].size, Need(b, align, n))
    BY Zenon, <2>3, <2>4, <2>5, <1>1, SplitStep
  <2>6. CASE ~Splits(blocks[b].size, Need(b, align, n))
    <3>1. blocks' = [blocks EXCEPT ![b] = [blocks[b] EXCEPT !.used = TRUE, !.p = Place(b, align), !.n = n]]
      BY Zenon, <2>4, <2>6 DEF Took
    <3> QED  BY Zenon, <3>1, <2>3, <2>4, <1>1, WholeStep
  <2> QED  BY Zenon, <2>5, <2>6
<1> QED  BY Zenon, <1>2, <1>3

\* The region starts as one free block.
LEMMA HeapStart == ASSUME MemoryAssumption, HeapInit PROVE Core
<1>c. Heap \in Nat /\ BlockHeader \in Nat \ {0} /\ Null \notin Nat /\ Heap > BlockHeader
  BY Zenon DEF MemoryAssumption
<1>1. DOMAIN blocks = {0} /\ blocks[0] = Block(Heap, Null) /\ at = Null /\ refused = NotRefused /\ blocks = [a \in {0} |-> Block(Heap, Null)]
  BY Zenon DEF HeapInit
<1>2. Block(Heap, Null) \in Cells
  BY <1>c DEF Block, Cells
<1>3. Block(Heap, Null).size = Heap /\ Block(Heap, Null).next = Null /\ Block(Heap, Null).used = FALSE
  BY Zenon DEF Block
<1>4. HeapTypeOK
  <2>1. blocks \in [DOMAIN blocks -> Cells] /\ \A a \in DOMAIN blocks : blocks[a].next \in DOMAIN blocks \union {Null}
    BY Zenon, <1>1, <1>2, <1>3
  <2>2. blocks \in [DOMAIN blocks -> [size : 0..Heap, next : DOMAIN blocks \union {Null}, used : BOOLEAN, p : Nat, n : Nat]]
    BY Zenon, <2>1, TypeFrom
  <2>3. 0 \in 0..(Heap - 1)
    BY <1>c
  <2>4. DOMAIN blocks \subseteq 0..(Heap - 1)
    BY Zenon, <1>1, <2>3
  <2> QED  BY Zenon, <2>2, <2>4, <1>1 DEF HeapTypeOK
<1>5. Tiled
  <2>1. 0 + Heap = Heap /\ Heap >= BlockHeader /\ Heap <= Heap /\ (\A x \in 0..(Heap - 1) : 0 <= x /\ x < 0 + Heap) /\ ~(0 < 0)
    BY <1>c
  <2> QED  BY Zenon, <2>1, <1>1, <1>3 DEF Tiled
<1>6. Disjoint /\ Coalesced /\ RefusedFits
  <2>1. ~blocks[0].used /\ blocks[0].next = Null
    BY Zenon, <1>1, <1>3
  <2> QED  BY Zenon, <2>1, <1>1 DEF Disjoint, Coalesced, RefusedFits
<1> QED  BY Zenon, <1>4, <1>5, <1>6 DEF Core

\* usb_memory.c: the blocks tile the region and their list is in the order of their
\* addresses, what is handed out is disjoint and inside its block, no two free
\* neighbours outlive a call, and a request is refused only when no free block fits, for
\* every size of region and header and every sequence of requests.
THEOREM HeapSound == ASSUME MemoryAssumption PROVE HeapSpec => []HeapInv
<1>1. HeapInit => Core
  BY Zenon, HeapStart
<1>2. Core /\ [HeapNext]_heapVars => Core'
  <2>1. ASSUME Core, UNCHANGED heapVars PROVE Core'
    BY Zenon, <2>1 DEF heapVars, Core, HeapTypeOK, Tiled, Disjoint, Coalesced,
        RefusedFits, Fits
  <2>2. ASSUME Core, Pass PROVE Core'
    <3>1. at # Null
      BY Zenon, <2>2 DEF Pass
    <3> QED  BY Zenon, <2>2, <3>1, JoinStep, MoveStep
  <2> QED  BY Zenon, <2>1, <2>2, AlignStep, FreeStep DEF HeapNext
<1>3. Core => HeapInv
  BY Zenon, NoGap DEF Core, HeapInv
<1> QED  BY <1>1, <1>2, <1>3, PTL DEF HeapSpec

(***************************************************************************)
(* Requests to the card reader, carried out piece by piece.                *)
(***************************************************************************)

\* The request between its two ends.
Requests == [first : 0..(Lbas - 1), count : Nat, sector : 0..(Lbas - 1), left : Nat, result : Results,
             touched : SUBSET (0..(Lbas - 1)), moved : Nat]

\* What the request says about a medium: the first moved sectors of those asked for.
Carried(o) ==
    /\ o.touched = o.first..(o.first + o.moved - 1)
    /\ o.moved # 0 => card # Absent /\ disk[card] # Absent /\ o.first + o.moved <= disk[card].sectors
    /\ o.result = "busy" => o.moved < o.count /\ o.left = o.count - o.moved /\ o.sector = o.first + o.moved
    /\ o.result = "ok" => o.moved = o.count

\* A piece is the smaller of what is left and the limit.
LEMMA PieceSize == ASSUME NEW a \in Nat, NEW b \in Nat PROVE Min({a, b}) = IF a <= b THEN a ELSE b
<1> DEFINE c == IF a <= b THEN a ELSE b
<1>1. c \in {a, b} /\ \A y \in {a, b} : c <= y
  OBVIOUS
<1>2. Min({a, b}) \in {a, b} /\ \A y \in {a, b} : Min({a, b}) <= y
  BY Zenon, <1>1 DEF Min
<1> QED  BY <1>1, <1>2

\* What the request must satisfy after a step is all that Carried says of it.
LEMMA CarriedEnough ==
  ASSUME DiskAssumption, DiskTypeOK', CardFits', Carried(op)'
  PROVE  DiskInv'
<1>1. Progress'
  BY Zenon DEF Progress, Carried
<1>2. RequestExact'
  BY Zenon DEF RequestExact, Carried
<1>3. ASSUME NEW x \in op'.touched PROVE x < disk'[card'].sectors
  <2>1. op'.first \in Nat /\ op'.moved \in Nat
    BY DEF DiskTypeOK
  <2>2. x \in op'.first..(op'.first + op'.moved - 1)
    BY Zenon DEF Carried
  <2>3. op'.moved # 0
    BY <2>1, <2>2
  <2>4. card' # Absent /\ disk'[card'] # Absent /\ op'.first + op'.moved <= disk'[card'].sectors
    BY Zenon, <2>3 DEF Carried
  <2>5. card' \in Devices /\ disk'[card'] \in Media
    BY Zenon, <2>4 DEF DiskTypeOK
  <2>6. disk'[card'].sectors \in Nat
    BY <2>5 DEF Media, DiskAssumption
  <2> QED  BY <2>1, <2>2, <2>4, <2>6
<1> QED  BY Zenon, <1>1, <1>2, <1>3 DEF InsideMedium, DiskInv

\* With no request there is nothing to carry out.
LEMMA IdleCarried == ASSUME DiskAssumption PROVE Idle \in Requests /\ Carried(Idle)
BY DEF Idle, Requests, Carried, DiskAssumption, Results

\* A poll of the driver keeps DiskInv.
LEMMA PollStep ==
  ASSUME DiskAssumption, DiskInv, NEW d \in Devices, Poll(d)
  PROVE  DiskInv'
<1>t. disk \in [Devices -> Media \union {Absent}] /\ card \in Devices \union {Absent} /\ CardFits
  BY Zenon DEF DiskInv, DiskTypeOK
<1>1. PICK m \in Media \union {Absent} :
          /\ m # disk[d] /\ disk' = [disk EXCEPT ![d] = m]
          /\ card' = IF m = Absent THEN usbdisk_remove(d)
                     ELSE usbdisk_create(d, m, IF disk[d] = Absent THEN card ELSE usbdisk_remove(d))
  BY Zenon DEF Poll
<1>2. op' = Idle
  BY Zenon DEF Poll
<1>3. disk' \in [Devices -> Media \union {Absent}] /\ card' \in Devices \union {Absent}
  BY Zenon, <1>1, <1>t DEF usbdisk_remove, usbdisk_create
<1>4. disk'[d] = m /\ \A e \in Devices : e # d => disk'[e] = disk[e]
  BY Zenon, <1>1, <1>t
<1>5. CardFits'
  <2> SUFFICES ASSUME card' # Absent
               PROVE card' \in Readers /\ disk'[card'] # Absent /\ disk'[card'].plain /\ disk'[card'].sectors <= MaxSectors
    BY Zenon DEF CardFits
  <2>1. CASE card' = d /\ Accepts(d, m) /\ m # Absent
    BY Zenon, <2>1, <1>4 DEF Accepts
  <2>2. CASE card' = card /\ card # d
    BY Zenon, <2>2, <1>4, <1>t DEF CardFits
  <2>3. (card' = d /\ Accepts(d, m) /\ m # Absent) \/ (card' = card /\ card # d)
    BY Zenon, <1>1, <1>t DEF usbdisk_remove, usbdisk_create, CardFits
  <2> QED  BY Zenon, <2>1, <2>2, <2>3
<1>6. Carried(op)' /\ DiskTypeOK'
  BY Zenon, <1>2, <1>3, IdleCarried DEF DiskTypeOK, Requests, Carried, Idle
<1> QED  BY Zenon, <1>5, <1>6, CarriedEnough

\* The start of a request keeps DiskInv.
LEMMA RequestStep ==
  ASSUME DiskAssumption, DiskInv, NEW sector \in 0..(Lbas - 1), NEW count \in Counts, Request(sector, count)
  PROVE  DiskInv'
<1>1. UNCHANGED <<disk, card>> /\ count \in Nat
  BY Zenon DEF Request, DiskAssumption
<1>2. op' = [first |-> sector, count |-> count, sector |-> sector, left |-> count,
             result |-> IF count = 0 THEN "parameter" ELSE "busy", touched |-> {}, moved |-> 0]
  BY Zenon DEF Request, Idle
<1>3. op' \in Requests
  BY Zenon, <1>1, <1>2 DEF Requests, Results
<1>4. DiskTypeOK'
  BY Zenon, <1>1, <1>3 DEF DiskTypeOK, Requests, DiskInv
<1>5. CardFits'
  BY Zenon, <1>1 DEF CardFits, DiskInv
<1>6. Carried(op)'
  BY <1>1, <1>2 DEF Carried
<1> QED  BY Zenon, <1>4, <1>5, <1>6, CarriedEnough

\* The n sectors from s on, of l numbers.
Span(l, s, n) == {x % l : x \in s..(s + n - 1)}

\* The sectors of a piece inside the medium are consecutive: no number wraps.
LEMMA PieceSectors ==
  ASSUME NEW l \in Nat, NEW s \in Nat, NEW n \in Nat, NEW f \in Nat, f <= s, s + n < l
  PROVE  (f..(s - 1)) \union Span(l, s, n) = f..(s + n - 1)
<1>1. \A x \in s..(s + n - 1) : x % l = x
  OBVIOUS
<1>2. Span(l, s, n) = s..(s + n - 1)
  BY Zenon, <1>1 DEF Span
<1> QED  BY <1>2

\* A transfer of a request keeps DiskInv.
LEMMA StepStep == ASSUME DiskAssumption, DiskInv, Step PROVE DiskInv'
<1> DEFINE n == Min({op.left, Piece})
<1>1. UNCHANGED <<disk, card>> /\ op.result = "busy"
  BY Zenon DEF Step
<1>t. op \in Requests /\ Progress /\ DiskTypeOK /\ CardFits
  BY Zenon DEF DiskInv, DiskTypeOK, Requests
<1>2. /\ op.first \in Nat /\ op.count \in Nat /\ op.left \in Nat /\ op.moved \in Nat /\ op.sector \in Nat
      /\ Lbas \in Nat /\ Piece \in Nat \ {0} /\ op.first \in 0..(Lbas - 1)
  BY <1>t DEF Requests, DiskAssumption
<1>3. op.moved < op.count /\ op.left = op.count - op.moved /\ op.sector = op.first + op.moved
  BY Zenon, <1>1, <1>t DEF Progress
<1>d. op.touched = op.first..(op.first + op.moved - 1)
  BY Zenon, <1>1, <1>t DEF Progress
<1>4. n = IF op.left <= Piece THEN op.left ELSE Piece
  BY Zenon, <1>2, PieceSize
<1> HIDE DEF n
<1>5. n \in Nat /\ n # 0 /\ n <= op.left
  BY <1>2, <1>3, <1>4
<1>c. CardFits'
  BY Zenon, <1>1, <1>t DEF CardFits
<1>6. CASE op' = [op EXCEPT !.result = "error", !.left = 0]
  <2>1. op' \in Requests
    BY Zenon, <1>6, <1>t DEF Requests, Results
  <2>2. DiskTypeOK'
    BY Zenon, <1>1, <1>t, <2>1 DEF DiskTypeOK, Requests
  <2>3. Carried(op)'
    <3>1. /\ op'.touched = op.touched /\ op'.first = op.first /\ op'.moved = op.moved /\ op'.count = op.count
          /\ op'.result = "error"
      BY ZenonT(30), <1>6, <1>t DEF Requests
    <3> QED  BY Zenon, <3>1, <1>1, <1>t DEF Carried, Progress
  <2> QED  BY Zenon, <2>2, <2>3, <1>c, CarriedEnough
<1>7. CASE /\ Ready /\ InRange(op.sector, n)
           /\ op' = [op EXCEPT !.sector = Advance(n), !.left = @ - n,
                               !.touched = @ \union {x % Lbas : x \in op.sector..(op.sector + n - 1)}, !.moved = @ + n,
                               !.result = IF op.left = n THEN "ok" ELSE "busy"]
  <2> DEFINE to == Advance(n)
             left == op.left - n
             all == op.touched \union Span(Lbas, op.sector, n)
             moved == op.moved + n
             res == IF op.left = n THEN "ok" ELSE "busy"
  <2>1. card # Absent /\ disk[card] # Absent /\ op.sector < disk[card].sectors /\ n <= disk[card].sectors - op.sector
    BY Zenon, <1>7 DEF Ready, InRange
  <2>2. disk[card] \in Media
    BY Zenon, <2>1, <1>t DEF DiskTypeOK
  <2>3. disk[card].sectors \in 1..(Lbas - 1)
    BY Zenon, <2>2 DEF Media
  <2>4. op.sector + n < Lbas /\ op.sector + n <= disk[card].sectors
    BY <1>2, <1>5, <2>1, <2>3
  <2>5. to = op.sector + n
    BY <1>2, <1>5, <2>4 DEF Advance
  <2>6. all = op.first..(op.sector + n - 1)
    <3>3. op.first <= op.sector
      BY <1>2, <1>3
    <3>1. op.touched = op.first..(op.sector - 1)
      BY SMTT(30), <1>2, <1>3, <1>d
    <3>2. (op.first..(op.sector - 1)) \union Span(Lbas, op.sector, n) = op.first..(op.sector + n - 1)
      BY SMTT(30), <1>2, <1>5, <2>4, <3>3, PieceSectors
    <3> QED  BY Zenon, <3>1, <3>2
  <2>7. /\ to \in 0..(Lbas - 1) /\ left \in Nat /\ moved \in Nat /\ all \in SUBSET (0..(Lbas - 1)) /\ res \in Results
        /\ left = op.count - moved /\ to = op.first + moved /\ all = op.first..(op.first + moved - 1)
        /\ op.first + moved <= disk[card].sectors
        /\ (res = "busy" => moved < op.count) /\ (res = "ok" => moved = op.count)
    <3> HIDE DEF to, all
    <3>1. res \in Results
      BY Zenon DEF Results
    <3>2. left \in Nat /\ moved \in Nat /\ left = op.count - moved
      BY <1>2, <1>3, <1>5
    <3>7. op.left # n => moved < op.count
      BY <1>2, <1>3, <1>5
    <3>8. op.left = n => moved = op.count
      BY <1>2, <1>3, <1>5
    <3>9. (res = "busy" => moved < op.count) /\ (res = "ok" => moved = op.count)
      BY Zenon, <3>7, <3>8
    <3>3. op.sector + n = op.first + moved
      BY <1>2, <1>3, <1>5
    <3> HIDE DEF left, res, moved
    <3>4. op.first + moved <= disk[card].sectors /\ op.first + moved < Lbas
      BY Zenon, <2>4, <3>3
    <3>5. to = op.first + moved /\ all = op.first..(op.first + moved - 1)
      <4>1. op.sector + n - 1 = op.first + moved - 1
        BY <1>2, <1>5, <3>2, <3>3
      <4>2. all = op.first..(op.first + moved - 1)
        BY ONLY <2>6, <4>1
      <4> QED  BY Zenon, <4>2, <2>5, <3>3
    <3>6. to \in 0..(Lbas - 1) /\ all \in SUBSET (0..(Lbas - 1))
      <4>1. op.first + moved \in 0..(Lbas - 1) /\ op.first + moved - 1 < Lbas /\ op.first \in Nat
            /\ op.first + moved - 1 \in Int /\ Lbas \in Nat
        BY <1>2, <3>2, <3>4
      <4>2. \A x, l \in Nat : \A y \in Int : y < l => x..y \in SUBSET (0..(l - 1))
        OBVIOUS
      <4>3. op.first..(op.first + moved - 1) \in SUBSET (0..(Lbas - 1))
        BY Zenon, <4>1, <4>2
      <4> QED  BY Zenon, <4>1, <4>3, <3>5
    <3> QED  BY Zenon, <3>1, <3>2, <3>4, <3>5, <3>6, <3>9
  <2>8. op' = [op EXCEPT !.sector = to, !.left = left, !.touched = all, !.moved = moved, !.result = res]
    BY Zenon, <1>7 DEF Span
  <2> HIDE DEF to, left, all, moved, res
  <2>9. op' \in Requests
    BY Zenon, <2>7, <2>8, <1>t DEF Requests
  <2>10. /\ op'.first = op.first /\ op'.count = op.count /\ op'.sector = to /\ op'.left = left
         /\ op'.touched = all /\ op'.moved = moved /\ op'.result = res
    BY ZenonT(30), <2>8, <1>t DEF Requests
  <2>11. DiskTypeOK'
    BY Zenon, <1>1, <1>t, <2>9 DEF DiskTypeOK, Requests
  <2>12. Carried(op)'
    BY Zenon, <2>10, <2>7, <2>1, <1>1 DEF Carried
  <2> QED  BY Zenon, <2>11, <2>12, <1>c, CarriedEnough
<1> QED  BY Zenon, <1>6, <1>7 DEF Step, n

\* DiskInv holds when the stack starts.
LEMMA DiskStart == ASSUME DiskAssumption, DiskInit PROVE DiskInv
<1> USE DEF DiskInit
<1>1. op \in Requests
  BY Zenon, IdleCarried
<1>2. DiskTypeOK
  BY Zenon, <1>1 DEF DiskTypeOK, Requests
<1>3. CardFits /\ RequestExact /\ InsideMedium /\ Progress
  BY DEF CardFits, RequestExact, InsideMedium, Progress, Idle
<1> QED  BY Zenon, <1>2, <1>3 DEF DiskInv

\* disk_read and disk_write: a request that succeeds has transferred each of its sectors
\* exactly once and no other, none reaches beyond the medium, and only an on-board
\* reader is ever the card, for every length of request and of transfer.
THEOREM DiskSound == ASSUME DiskAssumption PROVE DiskSpec => []DiskInv
<1>1. DiskInit => DiskInv
  BY Zenon, DiskStart
<1>2. ASSUME DiskInv, [DiskNext]_diskVars PROVE DiskInv'
  <2>1. CASE UNCHANGED diskVars
    BY Zenon, <1>2, <2>1 DEF diskVars, DiskInv, DiskTypeOK, CardFits, RequestExact,
        InsideMedium, Progress
  <2> QED  BY Zenon, <1>2, <2>1, PollStep, RequestStep, StepStep DEF DiskNext
<1>3. DiskInv /\ [DiskNext]_diskVars => DiskInv'
  BY Zenon, <1>2
<1> QED  BY <1>1, <1>3, PTL DEF DiskSpec

\* The memory of the USB stack stays in order, and a request that succeeds has
\* transferred exactly its sectors.
THEOREM StorageCorrect ==
  ASSUME MemoryAssumption, DiskAssumption
  PROVE  HeapSpec /\ DiskSpec => []StorageSound
BY HeapSound, DiskSound, PTL DEF StorageSound

(***************************************************************************)
(* The time stamp.  A sample is taken with interrupts off, less than a turn *)
(* of the counter after the one before it, so it sees every wrap.          *)
(***************************************************************************)

\* The counter is narrower than the stamp, and divides it.
LEMMA ClockNumbers ==
  ASSUME ClockAssumption
  PROVE  /\ Width \in Nat \ {0} /\ Late \in Nat \ {0} /\ Horizon \in Nat \ {0} /\ Late < Width /\ Width <= Horizon
         /\ \E h \in Nat : Horizon = h * Width
<1>1. Width \in Nat \ {0} /\ Late \in Nat \ {0} /\ Horizon \in Nat \ {0} /\ Late < Width /\ Horizon % Width = 0
  BY Zenon DEF ClockAssumption
<1>2. PICK h \in Nat : Horizon = (h * Width) + (Horizon % Width) /\ (Horizon % Width) \in 0..Width - 1
  BY Zenon, <1>1, Euclid
<1>3. Horizon = h * Width
  <2>1. h * Width \in Nat
    BY <1>1
  <2>2. Horizon = (h * Width) + 0
    BY ZenonT(30), <1>1, <1>2
  <2> QED  BY <2>1, <2>2
<1>4. Width <= Horizon
  <2>1. h # 0
    BY <1>1, <1>3
  <2>2. \A a, b \in Nat \ {0} : a * b >= b
    OBVIOUS
  <2> QED  BY ZenonT(30), <1>1, <1>3, <2>1, <2>2
<1> QED  BY Zenon, <1>1, <1>3, <1>4

\* A multiple of the width below the horizon is at least a width below it.
LEMMA WordBelow ==
  ASSUME ClockAssumption, NEW sh \in 0..(Horizon - 1), sh % Width = 0
  PROVE  \E q \in Nat : sh = q * Width /\ sh + Width = (q + 1) * Width /\ sh + Width <= Horizon
<1>w. Width \in Nat \ {0} /\ Horizon \in Nat \ {0} /\ sh \in Nat
  BY ClockNumbers
<1>1. PICK h \in Nat : Horizon = h * Width
  BY Zenon, ClockNumbers
<1>2. PICK q \in Nat : sh = (q * Width) + (sh % Width) /\ (sh % Width) \in 0..Width - 1
  BY Zenon, <1>w, Euclid
<1>3. sh = q * Width
  <2>1. q * Width \in Nat
    BY <1>w
  <2>2. sh = (q * Width) + 0
    BY Zenon, <1>2
  <2> QED  BY <2>1, <2>2
<1>4. sh + Width = (q + 1) * Width
  BY <1>w, <1>3
<1>5. q + 1 <= h
  <2> SUFFICES ASSUME h <= q PROVE FALSE
    OBVIOUS
  <2>1. \A a, b \in Nat, c \in Nat : a <= b => a * c <= b * c
    OBVIOUS
  <2>2. h * Width <= q * Width
    BY Zenon, <2>1, <1>w
  <2>3. Horizon <= sh
    BY Zenon, <2>2, <1>1, <1>3
  <2> QED  BY <2>3, <1>w
<1>6. (q + 1) * Width <= h * Width
  <2>1. \A a, b \in Nat, c \in Nat : a <= b => a * c <= b * c
    OBVIOUS
  <2>2. q + 1 \in Nat
    OBVIOUS
  <2> QED  BY Zenon, <2>1, <2>2, <1>5, <1>w
<1> QED  BY Zenon, <1>1, <1>3, <1>4, <1>6

\* The value of stamp_sample: less than a width after the last sample, the counter
\* tells the time.
LEMMA SampleExact ==
  ASSUME ClockAssumption, stamp_high \in 0..(Horizon - 1), stamp_high % Width = 0, stamp_last \in 0..(Width - 1),
         NEW d \in 0..Late, NEW a, a = (stamp_high + stamp_last + d) % Horizon
  PROVE  /\ High(a % Width) + (a % Width) = a /\ a \in 0..(Horizon - 1) /\ (a % Width) \in 0..(Width - 1)
         /\ High(a % Width) \in 0..(Horizon - 1) /\ High(a % Width) % Width = 0
<1> DEFINE w == a % Width
<1>n. Width \in Nat \ {0} /\ Horizon \in Nat \ {0} /\ Late \in Nat /\ Late < Width
  BY Zenon, ClockNumbers
<1>q. PICK q \in Nat : stamp_high = q * Width /\ stamp_high + Width = (q + 1) * Width /\ stamp_high + Width <= Horizon
  BY Zenon, WordBelow
<1>1. CASE stamp_last + d < Width
  <2>1. stamp_high + stamp_last + d \in 0..(Horizon - 1)
    BY <1>1, <1>n, <1>q
  <2>2. a = stamp_high + stamp_last + d
    BY Zenon, <2>1, <1>n, ModSmall
  <2>3. stamp_last + d \in 0..(Width - 1) /\ stamp_high + stamp_last + d = stamp_high + (stamp_last + d)
        /\ stamp_high + stamp_last + d \in Nat
    BY <1>1, <1>n
  <2>4. w = stamp_last + d
    <3> DEFINE r == stamp_last + d
    <3>1. r \in 0..(Width - 1) /\ a = (q * Width) + r /\ a \in Nat
      BY Zenon, <2>2, <2>3, <1>q
    <3> HIDE DEF r
    <3>2. a % Width = r
      BY Zenon, <3>1, <1>n, ModUnique
    <3> QED  BY Zenon, <3>2 DEF r
  <2>5. High(w) = stamp_high
    BY <2>4, <1>n DEF High
  <2> QED  BY ZenonT(30), <2>1, <2>2, <2>3, <2>4, <2>5
<1>2. CASE ~(stamp_last + d < Width)
  <2> DEFINE r == stamp_last + d - Width
             b == (stamp_high + Width) % Horizon
  <2>1. r \in 0..(Width - 1) /\ r < stamp_last /\ r \in Nat /\ stamp_high + stamp_last + d = stamp_high + Width + r
        /\ stamp_high + Width \in Nat
    BY <1>2, <1>n
  <2>2. a = (b + r) % Horizon
    <3> DEFINE s == stamp_high + Width
    <3>1. s \in Nat /\ a = (s + r) % Horizon
      BY Zenon, <2>1
    <3>2. ((s % Horizon) + r) % Horizon = (s + r) % Horizon
      <4> HIDE DEF s, r
      <4> QED  BY Zenon, <3>1, <2>1, <1>n, ModAdd
    <3> QED  BY Zenon, <3>1, <3>2
  <2>3. \E p \in Nat : b = p * Width /\ b + Width <= Horizon /\ b \in Nat
    <3>1. CASE stamp_high + Width = Horizon
      <4>1. Horizon = (1 * Horizon) + 0 /\ 0 \in 0..(Horizon - 1) /\ 1 \in Nat /\ Horizon \in Nat
        BY <1>n
      <4>2. b = 0
        <5>1. Horizon % Horizon = 0
          BY ONLY <4>1, <1>n, ModUnique
        <5> QED  BY Zenon, <3>1, <5>1
      <4>3. 0 \in Nat /\ b = 0 * Width /\ b + Width <= Horizon
        BY <4>2, <1>n, ClockNumbers
      <4> QED  BY Zenon, <4>2, <4>3
    <3>2. CASE stamp_high + Width < Horizon
      <4>1. stamp_high + Width \in 0..(Horizon - 1)
        BY <3>2, <2>1, <1>n
      <4>2. b = stamp_high + Width
        BY Zenon, <4>1, <1>n, ModSmall
      <4>3. b \in 0..(Horizon - 1) /\ q + 1 \in Nat /\ b = (q + 1) * Width
        <5>1. q + 1 \in Nat
          OBVIOUS
        <5> QED  BY Zenon, <4>1, <4>2, <1>q, <5>1
      <4>4. b % Width = 0
        <5>1. b = ((q + 1) * Width) + 0 /\ b \in Nat /\ 0 \in 0..(Width - 1)
          <6>1. (q + 1) * Width \in Nat
            BY <1>n
          <6> HIDE DEF b
          <6> QED  BY <4>3, <6>1, <1>n
        <5> HIDE DEF b
        <5> QED  BY Zenon, <5>1, <4>3, <1>n, ModUnique
      <4>5. b + Width <= Horizon
        <5> HIDE DEF b
        <5> QED  BY Zenon, <4>3, <4>4, WordBelow
      <4>6. b \in Nat
        <5> HIDE DEF b
        <5> QED  BY <4>3, <1>n
      <4> QED  BY Zenon, <4>3, <4>5, <4>6
    <3> QED  BY SMTT(30), <3>1, <3>2, <1>q, <2>1, <1>n
  <2>4. PICK p \in Nat : b = p * Width /\ b + Width <= Horizon /\ b \in Nat
    BY Zenon, <2>3
  <2>h. r \in 0..(Width - 1) /\ r \in Nat
    BY Zenon, <2>1
  <2>5. b + r \in 0..(Horizon - 1) /\ b \in 0..(Horizon - 1)
    <3> HIDE DEF b, r
    <3> QED  BY <2>4, <2>h, <1>n
  <2>6. a = b + r
    <3> HIDE DEF b, r
    <3> QED  BY Zenon, <2>2, <2>5, <1>n, ModSmall
  <2>7. w = r
    <3>1. a = (p * Width) + r /\ a \in Nat
      <4>1. b + r \in Nat
        <5> HIDE DEF b, r
        <5> QED  BY <2>4, <2>h
      <4> QED  BY Zenon, <2>4, <2>6, <4>1
    <3> HIDE DEF b, r
    <3> QED  BY Zenon, <3>1, <2>h, <1>n, ModUnique
  <2>8. High(w) = b
    BY Zenon, <2>1, <2>7 DEF High
  <2>9. b % Width = 0
    <3>1. b = (p * Width) + 0 /\ 0 \in 0..(Width - 1)
      <4>1. p * Width \in Nat
        BY <1>n
      <4> HIDE DEF b
      <4> QED  BY <2>4, <4>1, <1>n
    <3> HIDE DEF b
    <3> QED  BY Zenon, <3>1, <2>4, <1>n, ModUnique
  <2> QED  BY Zenon, <2>h, <2>5, <2>6, <2>7, <2>8, <2>9
<1> QED  BY Zenon, <1>1, <1>2

\* The states of a call of board_timestamp.
Calls == [pc : {"idle", "sample", "return"}, now : 0..(Width - 1), at : 0..(Horizon - 1),
          value : 0..(Horizon - 1), cpsr : BOOLEAN]

\* The interrupt is no task, and nobody is not a task either.
LEMMA ClockNames ==
  ASSUME ClockAssumption
  PROVE  "tick" \notin Tasks /\ NoTask \notin Tasks /\ NoTask # "tick" /\ "tick" \in Callers /\ Tasks \subseteq Callers
BY Zenon DEF ClockAssumption, Callers

\* What Update leaves: the stamp is the time at which the counter was read.
LEMMA UpdateStep ==
  ASSUME ClockAssumption, ClockTypeOK, StampCurrent, NEW c \in Callers, Update(c)
  PROVE  /\ High(call[c].now) + call[c].now = call[c].at /\ call[c].at \in 0..(Horizon - 1)
         /\ stamp_high' \in 0..(Horizon - 1) /\ stamp_high' % Width = 0 /\ stamp_last' \in 0..(Width - 1)
         /\ unsampled' \in 0..Late /\ stamp_high' + stamp_last' = call[c].at
         /\ time = (call[c].at + unsampled') % Horizon
<1> DEFINE a == call[c].at
           s == stamp_high + stamp_last
<1>n. Width \in Nat \ {0} /\ Horizon \in Nat \ {0} /\ Late \in Nat /\ Late < Width /\ Width <= Horizon
  BY Zenon, ClockNumbers
<1>t. /\ stamp_high \in 0..(Horizon - 1) /\ stamp_high % Width = 0 /\ stamp_last \in 0..(Width - 1)
      /\ unsampled \in 0..Late /\ time \in 0..(Horizon - 1)
  BY Zenon DEF ClockTypeOK
<1>1. PICK d \in 0..unsampled : a = (s + d) % Horizon
  BY Zenon DEF Update, StampCurrent
<1>2. d \in 0..Late /\ d \in Nat /\ s \in Nat /\ unsampled - d \in 0..Late /\ unsampled - d \in Nat
  BY <1>t, <1>n
<1>3. call[c].now = a % Width
  BY Zenon DEF Update, StampCurrent
<1>4. /\ High(a % Width) + (a % Width) = a /\ a \in 0..(Horizon - 1) /\ (a % Width) \in 0..(Width - 1)
      /\ High(a % Width) \in 0..(Horizon - 1) /\ High(a % Width) % Width = 0
  BY Zenon, <1>1, <1>2, <1>t, SampleExact
<1>5. stamp_high' = High(a % Width) /\ stamp_last' = a % Width /\ unsampled' = (time + Horizon - a) % Horizon
  BY Zenon, <1>3 DEF Update
<1> DEFINE b == unsampled - d
<1>6. time = (a + b) % Horizon
  <2>1. s + d \in Nat /\ s + d + b = s + unsampled
    BY <1>2, <1>t, <1>n
  <2>2. (((s + d) % Horizon) + b) % Horizon = (s + d + b) % Horizon
    <3> DEFINE e == s + d
    <3>1. e \in Nat /\ b \in Nat
      BY Zenon, <2>1, <1>2
    <3>2. ((e % Horizon) + b) % Horizon = (e + b) % Horizon
      <4> HIDE DEF e, b
      <4> QED  BY Zenon, <3>1, <1>n, ModAdd
    <3> QED  BY Zenon, <3>2
  <2>3. time = (s + unsampled) % Horizon
    BY Zenon DEF StampCurrent
  <2> QED  BY Zenon, <1>1, <2>1, <2>2, <2>3
<1>7. unsampled' = b
  <2>b. b \in 0..(Horizon - 1) /\ b \in Nat /\ a \in 0..(Horizon - 1) /\ a \in Nat
    BY <1>2, <1>4, <1>n
  <2>e. unsampled' = (time + Horizon - a) % Horizon /\ time = (a + b) % Horizon
    BY Zenon, <1>5, <1>6
  <2> HIDE DEF a, b
  <2>1. CASE a + b < Horizon
    <3>1. a + b \in 0..(Horizon - 1)
      BY <2>1, <2>b, <1>n
    <3>2. time = a + b
      BY Zenon, <2>e, <3>1, <1>n, ModSmall
    <3>3. time + Horizon - a = b + Horizon
      BY <3>2, <2>b, <1>n
    <3>4. (b + Horizon) % Horizon = b % Horizon /\ b % Horizon = b
      BY Zenon, <2>b, <1>n, ModPer, ModSmall
    <3> QED  BY Zenon, <2>e, <3>3, <3>4
  <2>2. CASE ~(a + b < Horizon)
    <3> DEFINE r == a + b - Horizon
    <3>1. r \in 0..(Horizon - 1) /\ r \in Nat /\ a + b = r + Horizon
      BY <2>2, <2>b, <1>n
    <3>2. time = r
      <4> HIDE DEF r
      <4>1. (r + Horizon) % Horizon = r % Horizon /\ r % Horizon = r
        BY ZenonT(30), <3>1, <1>n, ModPer, ModSmall
      <4> QED  BY Zenon, <4>1, <2>e, <3>1
    <3>3. time + Horizon - a = b
      BY <3>2, <2>b, <1>n
    <3>4. b % Horizon = b
      BY Zenon, <2>b, <1>n, ModSmall
    <3> QED  BY Zenon, <2>e, <3>3, <3>4
  <2> QED  BY Zenon, <2>1, <2>2
<1>8. High(call[c].now) + call[c].now = a /\ stamp_high' + stamp_last' = a
  BY Zenon, <1>3, <1>4, <1>5
<1> QED  BY Zenon, <1>2, <1>4, <1>5, <1>6, <1>7, <1>8

\* A caller in its call keeps every other caller out.
LEMMA Alone ==
  ASSUME ClockAssumption, ClockTypeOK, OneCaller, NEW c \in Callers, NEW d \in Callers, c # d,
         call[c].pc # "idle", MayRun(c)
  PROVE  call[d].pc = "idle"
<1>n. "tick" \notin Tasks /\ NoTask \notin Tasks /\ NoTask # "tick"
  BY Zenon, ClockNames
<1>1. CASE c = "tick"
  <2>1. d \in Tasks /\ off = NoTask
    BY Zenon, <1>1 DEF Callers, OneCaller
  <2> QED  BY Zenon, <2>1, <1>n DEF OneCaller
<1>2. CASE c \in Tasks
  <2>1. off = c /\ call["tick"].pc = "idle"
    BY Zenon, <1>2, <1>n DEF OneCaller, MayRun
  <2> QED  BY Zenon, <2>1 DEF OneCaller, Callers
<1> QED  BY Zenon, <1>1, <1>2 DEF Callers

\* The types, with the record of a call named.
LEMMA ClockTyped ==
  ClockTypeOK <=> /\ time \in 0..(Horizon - 1) /\ stamp_high \in 0..(Horizon - 1) /\ unsampled \in 0..Late
             /\ stamp_last \in 0..(Width - 1) /\ stamp_high % Width = 0
             /\ off \in Tasks \union {NoTask} /\ section \in Tasks \union {NoTask} /\ call["tick"].cpsr = FALSE
             /\ call \in [Callers -> Calls]
BY Zenon DEF ClockTypeOK, Calls

\* A caller that is not in board_timestamp.
LEMMA FreeTyped ==
  ASSUME ClockAssumption
  PROVE  Free \in Calls /\ Free.pc = "idle" /\ Free.cpsr = FALSE
BY ClockNumbers DEF Free, Calls

\* Reading the counter.
LEMMA ReadStep ==
  ASSUME ClockAssumption, ClockTypeOK, StampCurrent, StampExact, NEW c \in Callers, NEW before \in BOOLEAN, Read(c, before)
  PROVE  /\ call' \in [Callers -> Calls] /\ StampCurrent' /\ StampExact'
         /\ call'[c].cpsr = before /\ call'[c].pc = "sample" /\ \A d \in Callers \ {c} : call'[d] = call[d]
<1> DEFINE r == [Free EXCEPT !.pc = "sample", !.now = Counter, !.at = time, !.cpsr = before]
<1>n. Width \in Nat \ {0} /\ Horizon \in Nat \ {0} /\ Late \in Nat
  BY Zenon, ClockNumbers
<1>t. time \in 0..(Horizon - 1) /\ call \in [Callers -> Calls] /\ unsampled \in 0..Late
  BY Zenon, ClockTyped
<1>w. Counter \in 0..(Width - 1)
  BY <1>n, <1>t DEF Counter
<1>r. Free \in Calls
  BY Zenon, FreeTyped
<1>1. r \in Calls
  BY Zenon, <1>r, <1>t, <1>w DEF Calls
<1>2. r.pc = "sample" /\ r.now = Counter /\ r.at = time /\ r.cpsr = before
  BY Zenon, <1>r DEF Calls
<1>3. call' = [call EXCEPT ![c] = r] /\ UNCHANGED <<time, stamp_high, stamp_last, unsampled>>
  BY Zenon DEF Read
<1> HIDE DEF r
<1>4. call' \in [Callers -> Calls] /\ call'[c] = r /\ \A d \in Callers \ {c} : call'[d] = call[d]
  BY Zenon, <1>1, <1>3, <1>t
<1>5. StampExact'
  <2>1. r.pc # "return"
    BY Zenon, <1>2
  <2> QED  BY Zenon, <1>4, <2>1 DEF StampExact
<1>6. unsampled \in 0..unsampled
  BY <1>t, <1>n
<1>7. StampCurrent'
  BY Zenon, <1>2, <1>3, <1>4, <1>6 DEF StampCurrent, Counter
<1> QED  BY Zenon, <1>2, <1>4, <1>5, <1>7

\* Steps that end or begin nothing but a call or a section leave the stamp as it is.
LEMMA StampKept ==
  ASSUME StampCurrent, StampExact, UNCHANGED <<time, stamp_high, stamp_last, unsampled>>,
         \A c \in Callers : call'[c] = call[c] \/ call'[c].pc = "idle"
  PROVE  StampCurrent' /\ StampExact'
<1>1. StampExact'
  <2> SUFFICES ASSUME NEW c \in Callers, call'[c].pc = "return" PROVE call'[c].value = call'[c].at
    BY Zenon DEF StampExact
  <2>1. call'[c] = call[c]
    BY Zenon, "return" # "idle"
  <2> QED  BY Zenon, <2>1 DEF StampExact
<1>2. ASSUME NEW c \in Callers, call'[c].pc = "sample" PROVE call'[c] = call[c]
  <2>1. "sample" # "idle"
    BY Zenon
  <2> QED  BY Zenon, <1>2, <2>1
<1>3. StampCurrent'
  BY Zenon, <1>2 DEF StampCurrent
<1> QED  BY Zenon, <1>1, <1>3

\* Every step keeps ClockInv.
LEMMA ClockStep ==
  ASSUME ClockAssumption, ClockInv, [ClockNext]_clockVars
  PROVE  ClockInv'
<1>n. /\ "tick" \notin Tasks /\ NoTask \notin Tasks /\ NoTask # "tick" /\ "tick" \in Callers /\ Tasks \subseteq Callers
      /\ Width \in Nat \ {0} /\ Horizon \in Nat \ {0} /\ Late \in Nat
  BY Zenon, ClockNames, ClockNumbers
<1>i. ClockTypeOK /\ OneCaller /\ StampCurrent /\ StampExact /\ SectionKept
  BY Zenon DEF ClockInv
<1>t. /\ time \in 0..(Horizon - 1) /\ stamp_high \in 0..(Horizon - 1) /\ unsampled \in 0..Late
      /\ stamp_last \in 0..(Width - 1) /\ stamp_high % Width = 0
      /\ off \in Tasks \union {NoTask} /\ section \in Tasks \union {NoTask} /\ call["tick"].cpsr = FALSE
      /\ call \in [Callers -> Calls]
  BY Zenon, <1>i, ClockTyped
<1>f. Free \in Calls /\ Free.pc = "idle" /\ Free.cpsr = FALSE
  BY Zenon, FreeTyped
<1>1. CASE AdvanceTime
  <2>1. /\ time' = (time + 1) % Horizon /\ unsampled' = unsampled + 1 /\ unsampled < Late
        /\ UNCHANGED <<stamp_high, stamp_last, off, call, section>>
    BY Zenon, <1>1 DEF AdvanceTime
  <2>2. unsampled' \in 0..Late /\ 0..unsampled \subseteq 0..unsampled' /\ time' \in 0..(Horizon - 1)
    BY <2>1, <1>n, <1>t
  <2>3. time' = (stamp_high + stamp_last + unsampled') % Horizon
    <3> DEFINE s == stamp_high + stamp_last + unsampled
    <3>1. s \in Nat /\ s + 1 = stamp_high + stamp_last + (unsampled + 1)
      BY <1>n, <1>t
    <3>2. time = s % Horizon
      BY Zenon, <1>i DEF StampCurrent
    <3> HIDE DEF s
    <3>3. ((s % Horizon) + 1) % Horizon = (s + 1) % Horizon
      BY Zenon, <3>1, <1>n, 1 \in Nat, ModAdd
    <3> QED  BY Zenon, <2>1, <3>1, <3>2, <3>3
  <2>4. StampCurrent'
    BY ZenonT(30), <1>i, <2>1, <2>2, <2>3 DEF StampCurrent
  <2>5. OneCaller' /\ StampExact' /\ SectionKept'
    BY Zenon, <1>i, <2>1 DEF OneCaller, StampExact, SectionKept
  <2>6. ClockTypeOK'
    BY Zenon, <1>t, <2>1, <2>2 DEF ClockTypeOK, Calls
  <2> QED  BY Zenon, <2>4, <2>5, <2>6 DEF ClockInv
<1>2. CASE board_tick_clear
  <2>1. MayRun("tick") /\ off' = off /\ Read("tick", FALSE) /\ section' = section
    BY Zenon, <1>2 DEF board_tick_clear, Read
  <2>2. /\ call' \in [Callers -> Calls] /\ StampCurrent' /\ StampExact'
        /\ call'["tick"].cpsr = FALSE /\ \A d \in Callers \ {"tick"} : call'[d] = call[d]
    BY Zenon, <2>1, <1>i, <1>n, ReadStep
  <2>3. off = NoTask /\ \A t \in Tasks : call'[t] = call[t]
    BY Zenon, <2>1, <2>2, <1>n, <1>t DEF MayRun
  <2>4. OneCaller' /\ SectionKept'
    BY Zenon, <1>i, <2>1, <2>3 DEF OneCaller, SectionKept
  <2>5. UNCHANGED <<time, stamp_high, stamp_last, unsampled>>
    BY Zenon, <2>1 DEF Read
  <2>6. ClockTypeOK'
    BY ZenonT(30), <1>t, <2>1, <2>2, <2>5 DEF ClockTypeOK, Calls
  <2> QED  BY Zenon, <2>2, <2>4, <2>6 DEF ClockInv
<1>3. CASE TickDone
  <2>1. call' = [call EXCEPT !["tick"] = Free] /\ UNCHANGED <<time, stamp_high, stamp_last, unsampled, off, section>>
    BY Zenon, <1>3 DEF TickDone
  <2>2. call' \in [Callers -> Calls] /\ call'["tick"] = Free /\ \A d \in Callers \ {"tick"} : call'[d] = call[d]
    BY Zenon, <2>1, <1>t, <1>f, <1>n
  <2>3. \A t \in Tasks : call'[t] = call[t]
    BY Zenon, <2>2, <1>n
  <2>4. OneCaller' /\ SectionKept'
    BY ZenonT(30), <1>i, <1>f, <2>1, <2>2, <2>3 DEF OneCaller, SectionKept
  <2>5. \A c \in Callers : call'[c] = call[c] \/ call'[c].pc = "idle"
    BY Zenon, <2>2, <1>f
  <2>6. StampCurrent' /\ StampExact'
    BY Zenon, <1>i, <2>1, <2>5, StampKept
  <2>7. ClockTypeOK'
    BY Zenon, <1>t, <1>f, <2>1, <2>2 DEF ClockTypeOK, Calls
  <2> QED  BY Zenon, <2>4, <2>6, <2>7 DEF ClockInv
<1>4. ASSUME NEW c \in Callers, Update(c) PROVE ClockInv'
  <2>u. /\ High(call[c].now) + call[c].now = call[c].at /\ call[c].at \in 0..(Horizon - 1)
        /\ stamp_high' \in 0..(Horizon - 1) /\ stamp_high' % Width = 0 /\ stamp_last' \in 0..(Width - 1)
        /\ unsampled' \in 0..Late /\ stamp_high' + stamp_last' = call[c].at
        /\ time = (call[c].at + unsampled') % Horizon
    BY Zenon, <1>4, <1>i, UpdateStep
  <2>1. /\ call[c].pc = "sample" /\ MayRun(c) /\ UNCHANGED <<time, off, section>>
        /\ call' = [call EXCEPT ![c].pc = "return", ![c].value = High(call[c].now) + call[c].now]
    BY Zenon, <1>4 DEF Update
  <2> DEFINE v == High(call[c].now) + call[c].now
             r == [call[c] EXCEPT !.pc = "return", !.value = v]
  <2>2. v \in 0..(Horizon - 1) /\ v = call[c].at
    BY Zenon, <2>u
  <2>3. call[c] \in Calls
    BY Zenon, <1>t
  <2>4. call' = [call EXCEPT ![c] = r]
    BY Zenon, <2>1, <1>t
  <2> HIDE DEF v
  <2>5. r \in Calls /\ r.pc = "return" /\ r.value = v /\ r.at = call[c].at /\ r.cpsr = call[c].cpsr
    BY Zenon, <2>2, <2>3 DEF Calls
  <2> HIDE DEF r
  <2>6. call' \in [Callers -> Calls] /\ call'[c] = r /\ \A d \in Callers \ {c} : call'[d] = call[d]
    BY Zenon, <2>4, <2>5, <1>t
  <2>7. call[c].pc # "idle" /\ call'[c].pc # "idle" /\ call'[c].pc # "sample"
    BY Zenon, <2>1, <2>5, <2>6
  <2>8. \A d \in Callers \ {c} : call[d].pc = "idle" /\ call'[d].pc = "idle"
    BY ZenonT(30), <1>i, <2>1, <2>6, <2>7, Alone
  <2>9. OneCaller' /\ SectionKept'
    <3>1. \A d \in Callers : (call'[d].pc # "idle" <=> call[d].pc # "idle") /\ call'[d].cpsr = call[d].cpsr
      BY Zenon, <2>5, <2>6, <2>7
    <3> QED  BY ZenonT(30), <1>i, <1>n, <2>1, <3>1 DEF OneCaller, SectionKept
  <2>10. StampExact'
    BY ZenonT(30), <2>2, <2>5, <2>6, <2>8 DEF StampExact
  <2>11. StampCurrent'
    <3>1. \A d \in Callers : call'[d].pc # "sample"
      BY Zenon, <2>7, <2>8
    <3>2. time' = (stamp_high' + stamp_last' + unsampled') % Horizon
      BY Zenon, <2>u, <2>1
    <3> QED  BY Zenon, <3>1, <3>2 DEF StampCurrent
  <2>12. call'["tick"].cpsr = FALSE
    BY ZenonT(30), <2>5, <2>6, <1>t, <1>n
  <2>13. ClockTypeOK'
    BY ZenonT(30), <1>t, <2>u, <2>1, <2>6, <2>12 DEF ClockTypeOK, Calls
  <2> QED  BY Zenon, <2>9, <2>10, <2>11, <2>13 DEF ClockInv
<1>5. ASSUME NEW t \in Tasks, Disable(t) \/ Enable(t) PROVE ClockInv'
  <2>1. /\ UNCHANGED <<time, stamp_high, stamp_last, unsampled, call>> /\ call[t].pc = "idle"
        /\ (off = NoTask /\ call["tick"].pc = "idle" /\ off' = t /\ section' = t) \/ (off = t /\ off' = NoTask /\ section' = NoTask)
    BY Zenon, <1>5, <1>n DEF Disable, Enable, MayRun
  <2>2. StampCurrent' /\ StampExact'
    BY Zenon, <1>i, <2>1, StampKept
  <2>3. \A u \in Tasks : call[u].pc = "idle"
    BY Zenon, <1>i, <1>n, <2>1 DEF OneCaller
  <2>4. OneCaller' /\ SectionKept'
    BY Zenon, <1>i, <1>n, <2>1, <2>3 DEF OneCaller, SectionKept
  <2>5. ClockTypeOK'
    BY ZenonT(30), <1>t, <2>1 DEF ClockTypeOK, Calls
  <2> QED  BY Zenon, <2>2, <2>4, <2>5 DEF ClockInv
<1>6. ASSUME NEW t \in Tasks, board_timestamp(t) PROVE ClockInv'
  <2>1. MayRun(t) /\ off' = t /\ Read(t, off = t) /\ section' = section /\ call[t].pc = "idle" /\ (off = t) \in BOOLEAN
    BY Zenon, <1>6 DEF board_timestamp, Read
  <2>2. /\ call' \in [Callers -> Calls] /\ StampCurrent' /\ StampExact' /\ call'[t].cpsr = (off = t)
        /\ call'[t].pc = "sample" /\ \A d \in Callers \ {t} : call'[d] = call[d]
    BY Zenon, <2>1, <1>i, <1>n, ReadStep
  <2>3. (off = NoTask \/ off = t) /\ call["tick"].pc = "idle" /\ call'["tick"] = call["tick"]
    BY Zenon, <2>1, <2>2, <1>n DEF MayRun
  <2>4. section = IF off = t THEN t ELSE NoTask
    BY Zenon, <1>i, <1>n, <2>1, <2>3 DEF OneCaller, SectionKept
  <2>5. \A u \in Tasks \ {t} : call'[u].pc = "idle"
    <3> SUFFICES ASSUME NEW u \in Tasks, u # t PROVE call'[u].pc = "idle"
      BY Zenon
    <3>1. call'[u] = call[u] /\ off # u
      BY Zenon, <1>n, <2>2, <2>3
    <3> QED  BY Zenon, <1>i, <3>1 DEF OneCaller
  <2>6. call'[t].pc # "idle"
    BY Zenon, <2>2
  <2>7. OneCaller'
    BY ZenonT(30), <1>n, <2>1, <2>2, <2>3, <2>4, <2>5, <2>6 DEF OneCaller
  <2>8. SectionKept'
    BY Zenon, <2>1, <2>4 DEF SectionKept
  <2>9. ClockTypeOK'
    <3>1. UNCHANGED <<time, stamp_high, stamp_last, unsampled>>
      BY Zenon, <2>1 DEF Read
    <3>2. off' \in Tasks \union {NoTask} /\ section' \in Tasks \union {NoTask} /\ call'["tick"].cpsr = FALSE
      BY Zenon, <1>t, <2>1, <2>3
    <3> QED  BY ZenonT(30), <1>t, <2>2, <3>1, <3>2 DEF ClockTypeOK, Calls
  <2> QED  BY Zenon, <2>2, <2>7, <2>8, <2>9 DEF ClockInv
<1>7. ASSUME NEW t \in Tasks, Return(t) PROVE ClockInv'
  <2>1. /\ MayRun(t) /\ off' = (IF call[t].cpsr THEN t ELSE NoTask) /\ call' = [call EXCEPT ![t] = Free]
        /\ UNCHANGED <<time, stamp_high, stamp_last, unsampled, section>> /\ call[t].pc = "return"
    BY Zenon, <1>7 DEF Return
  <2>p. call[t].pc # "idle"
    BY Zenon, <2>1
  <2>2. call' \in [Callers -> Calls] /\ call'[t] = Free /\ \A d \in Callers \ {t} : call'[d] = call[d]
    BY Zenon, <2>1, <1>t, <1>f, <1>n
  <2>3. off = t /\ section = (IF call[t].cpsr THEN t ELSE NoTask) /\ section = off'
    BY Zenon, <1>i, <2>1, <2>p DEF OneCaller
  <2>4. call["tick"].pc = "idle" /\ call'["tick"] = call["tick"]
    BY Zenon, <2>1, <2>2, <1>n DEF MayRun
  <2>5. \A u \in Tasks : call'[u].pc = "idle"
    BY ZenonT(30), <1>i, <1>f, <1>n, <2>2, <2>3 DEF OneCaller
  <2>6. OneCaller' /\ SectionKept'
    <3>1. section' = off' /\ call'["tick"].pc = "idle"
      BY Zenon, <2>1, <2>3, <2>4
    <3> QED  BY Zenon, <2>5, <3>1 DEF OneCaller, SectionKept
  <2>7. \A c \in Callers : call'[c] = call[c] \/ call'[c].pc = "idle"
    BY Zenon, <2>2, <1>f
  <2>8. StampCurrent' /\ StampExact'
    BY ZenonT(30), <1>i, <2>1, <2>7, StampKept
  <2>9. ClockTypeOK'
    BY ZenonT(30), <1>t, <2>1, <2>2, <2>3, <2>4 DEF ClockTypeOK, Calls
  <2> QED  BY Zenon, <2>6, <2>8, <2>9 DEF ClockInv
<1>8. CASE UNCHANGED clockVars
  <2>1. UNCHANGED <<time, stamp_high, stamp_last, unsampled, off, call, section>>
    BY Zenon, <1>8 DEF clockVars
  <2>2. ClockTypeOK' /\ OneCaller' /\ SectionKept'
    BY Zenon, <1>i, <2>1 DEF ClockTypeOK, OneCaller, SectionKept
  <2>3. StampCurrent' /\ StampExact'
    BY Zenon, <1>i, <2>1, StampKept
  <2> QED  BY Zenon, <2>2, <2>3 DEF ClockInv
<1> QED  BY ZenonT(30), <1>1, <1>2, <1>3, <1>4, <1>5, <1>6, <1>7, <1>8 DEF ClockNext

\* ClockInv holds at reset.
LEMMA ClockStart == ASSUME ClockAssumption, ClockInit PROVE ClockInv
<1> USE DEF ClockInit
<1>n. /\ Width \in Nat \ {0} /\ Horizon \in Nat \ {0} /\ Late \in Nat
      /\ "tick" \notin Tasks /\ NoTask \notin Tasks /\ "tick" \in Callers /\ Tasks \subseteq Callers
  BY Zenon, ClockNumbers, ClockNames
<1>f. Free \in Calls /\ Free.pc = "idle" /\ Free.cpsr = FALSE /\ Free.pc # "sample" /\ Free.pc # "return"
  BY Zenon, FreeTyped
<1>c. call \in [Callers -> Calls] /\ \A c \in Callers : call[c] = Free
  BY Zenon, <1>f
<1>z. 0 \in 0..(Horizon - 1) /\ 0 \in 0..(Width - 1) /\ 0 \in 0..Late /\ 0 + 0 + 0 = 0
  BY <1>n
<1>m. 0 % Width = 0 /\ 0 % Horizon = 0
  BY Zenon, <1>n, <1>z, ModSmall
<1>1. ClockTypeOK
  BY ZenonT(30), <1>n, <1>f, <1>c, <1>z, <1>m, ClockTyped
<1>2. OneCaller /\ StampExact /\ SectionKept
  BY Zenon, <1>n, <1>f, <1>c DEF OneCaller, StampExact, SectionKept
<1>3. StampCurrent
  BY ZenonT(30), <1>f, <1>c, <1>z, <1>m DEF StampCurrent
<1> QED  BY Zenon, <1>1, <1>2, <1>3 DEF ClockInv

\* board_timestamp returns the true time of its counter read, whatever interrupts it and
\* wherever the counter wraps, and leaves interrupts as they were, for every width of the
\* counter, provided the tick samples it more than once per turn.
THEOREM ClockSound == ASSUME ClockAssumption PROVE ClockSpec => []ClockInv
<1>1. ClockInit => ClockInv
  BY Zenon, ClockStart
<1>2. ClockInv /\ [ClockNext]_clockVars => ClockInv'
  BY Zenon, ClockStep
<1> QED  BY <1>1, <1>2, PTL DEF ClockSpec

(***************************************************************************)
(* The console: ring, counter and UART.                                    *)
(***************************************************************************)

\* Adding a multiple of the modulus changes nothing.
LEMMA ModMultiple ==
  ASSUME NEW m \in Nat \ {0}, NEW a \in Nat, NEW k \in Nat
  PROVE  (a + (k * m)) % m = a % m
<1>1. PICK d \in Nat : a = (d * m) + (a % m) /\ (a % m) \in 0..m - 1
  BY Zenon, Euclid
<1> DEFINE s == a % m
<1>2. s \in 0..m - 1 /\ a = (d * m) + s
  BY Zenon, <1>1
<1> HIDE DEF s
<1>3. a + (k * m) = ((d + k) * m) + s
  BY <1>2
<1>4. a + (k * m) \in Nat /\ d + k \in Nat
  OBVIOUS
<1>5. (a + (k * m)) % m = s
  BY ZenonT(30), <1>2, <1>3, <1>4, ModUnique
<1> QED BY ZenonT(30), <1>5 DEF s

\* Less than a turn further on is another place.
LEMMA ModDistinct ==
  ASSUME NEW m \in Nat \ {0}, NEW a \in Nat, NEW n \in 1..(m - 1)
  PROVE  (a + n) % m # a % m
<1> DEFINE s == a % m
<1>1. s \in 0..(m - 1) /\ n \in Nat
  OBVIOUS
<1>2. (s + n) % m = (a + n) % m
  BY Zenon, <1>1, ModAdd
<1> HIDE DEF s
<1>3. CASE s + n < m
  <2>1. s + n \in 0..(m - 1) /\ s + n # s
    BY <1>1, <1>3
  <2>2. (s + n) % m = s + n
    BY Zenon, <2>1, ModSmall
  <2> QED  BY Zenon, <1>2, <2>1, <2>2 DEF s
<1>4. CASE ~(s + n < m)
  <2> DEFINE r == s + n - m
  <2>1. r \in 0..(m - 1) /\ r \in Nat /\ r # s /\ s + n = r + m
    BY <1>1, <1>4
  <2> HIDE DEF r
  <2>2. (r + m) % m = r % m /\ r % m = r
    BY ZenonT(30), <2>1, ModPer, ModSmall
  <2> QED  BY Zenon, <1>2, <2>1, <2>2 DEF s
<1> QED  BY Zenon, <1>3, <1>4

\* The constants are positive numbers, and a turn of the ring divides the counter's.
LEMMA ConsoleNumbers ==
  ASSUME ConsoleAssumption
  PROVE  /\ Ring \in Nat \ {0} /\ LogWrap \in Nat \ {0} /\ Fifo \in Nat \ {0} /\ Tries \in Nat \ {0} /\ DropCounts \in Nat \ {0}
         /\ \E k \in Nat : LogWrap = k * Ring
<1>1. Ring \in Nat \ {0} /\ LogWrap \in Nat \ {0} /\ Fifo \in Nat \ {0} /\ Tries \in Nat \ {0} /\ DropCounts \in Nat \ {0} /\ LogWrap % Ring = 0
  BY Zenon DEF ConsoleAssumption
<1>2. PICK k \in Nat : LogWrap = (k * Ring) + (LogWrap % Ring) /\ (LogWrap % Ring) \in 0..Ring - 1
  BY Zenon, <1>1, Euclid
<1>3. k * Ring \in Nat /\ LogWrap = (k * Ring) + 0
  BY <1>1, <1>2
<1>4. LogWrap = k * Ring
  BY <1>3
<1> QED  BY Zenon, <1>1, <1>4

\* The counter of characters keeps its place in the ring when it wraps.
LEMMA WrapKeepsPlace ==
  ASSUME ConsoleAssumption, NEW n \in 0..(LogWrap - 1), NEW j \in Nat
  PROVE  (((n + 1) % LogWrap) + j) % Ring = (n + 1 + j) % Ring
<1>n. Ring \in Nat \ {0} /\ LogWrap \in Nat \ {0} /\ n \in Nat /\ n + 1 \in Nat
  BY ConsoleNumbers
<1>1. CASE n + 1 < LogWrap
  <2>1. n + 1 \in 0..(LogWrap - 1)
    BY <1>1, <1>n
  <2>2. (n + 1) % LogWrap = n + 1
    BY Zenon, <2>1, <1>n, ModSmall
  <2> QED  BY Zenon, <2>2
<1>2. CASE n + 1 = LogWrap
  <2>1. PICK k \in Nat : LogWrap = k * Ring
    BY Zenon, ConsoleNumbers
  <2>2. LogWrap = (1 * LogWrap) + 0 /\ 0 \in 0..(LogWrap - 1) /\ 1 \in Nat /\ LogWrap \in Nat
    BY <1>n
  <2>3. LogWrap % LogWrap = 0
    BY ONLY <2>2, <1>n, ModUnique
  <2>4. 0 + j = j /\ n + 1 + j = j + (k * Ring)
    <3>1. k * Ring \in Nat
      BY <1>n
    <3> QED  BY SMTT(30), <1>2, <2>1, <3>1
  <2>5. (j + (k * Ring)) % Ring = j % Ring
    BY Zenon, <1>n, ModMultiple
  <2> QED  BY ZenonT(30), <1>2, <2>3, <2>4, <2>5
<1>3. n + 1 < LogWrap \/ n + 1 = LogWrap
  BY <1>n
<1> QED  BY ZenonT(30), <1>1, <1>2, <1>3

\* Logging a character drops the oldest and keeps the order of the others.
LEMMA LogStep ==
  ASSUME ConsoleAssumption, ConsoleTypeOK, RingExact, NEW w \in Writers, Log(w)
  PROVE  /\ RingExact' /\ board_log' \in [0..(Ring - 1) -> Writers \union {NoWriter}]
         /\ board_log_written' \in 0..(LogWrap - 1) /\ history' \in Seq(Writers \union {NoWriter}) /\ Len(history') = Ring
<1> DEFINE C == Writers \union {NoWriter}
           n == board_log_written
<1>n. Ring \in Nat \ {0} /\ LogWrap \in Nat \ {0} /\ n \in 0..(LogWrap - 1) /\ n \in Nat
  BY ConsoleNumbers DEF ConsoleTypeOK
<1>t. /\ board_log \in [0..(Ring - 1) -> C] /\ history \in Seq(C) /\ Len(history) = Ring /\ w \in C
  BY Zenon DEF ConsoleTypeOK
<1>l. /\ board_log' = [i \in DOMAIN board_log |-> IF i = Index THEN w ELSE board_log[i]]
      /\ board_log_written' = (n + 1) % LogWrap /\ history' = Append(Tail(history), w)
  BY Zenon DEF Log
<1>1. board_log' \in [0..(Ring - 1) -> C] /\ \A i \in 0..(Ring - 1) : board_log'[i] = IF i = Index THEN w ELSE board_log[i]
  BY Zenon, <1>t, <1>l
<1>2. board_log_written' \in 0..(LogWrap - 1)
  BY <1>n, <1>l
<1> HIDE DEF C
<1>3. history' \in Seq(C) /\ Len(history') = Ring /\ \A i \in 1..Ring : history'[i] = IF i = Ring THEN w ELSE history[i + 1]
  <2>1. history # <<>>
    BY Zenon, <1>t, <1>n
  <2>2. Tail(history) \in Seq(C) /\ Len(Tail(history)) = Ring - 1
    BY <2>1, <1>t
  <2>3. \A i \in 1..(Ring - 1) : Tail(history)[i] = history[i + 1]
    BY <2>1, <1>t, <1>n
  <2> DEFINE s == Tail(history)
  <2> HIDE DEF s
  <2>4. s \in Seq(C) /\ Len(s) = Ring - 1 /\ history' = Append(s, w) /\ \A i \in 1..(Ring - 1) : s[i] = history[i + 1]
    BY Zenon, <2>2, <2>3, <1>l DEF s
  <2>5. history' \in Seq(C) /\ Len(history') = Ring
    BY <2>4, <1>t, <1>n
  <2>6. \A i \in 1..Ring : history'[i] = IF i = Ring THEN w ELSE s[i]
    BY <2>4, <1>t, <1>n
  <2>7. \A i \in 1..Ring : i # Ring => i \in 1..(Ring - 1)
    BY <1>n
  <2> QED  BY ZenonT(30), <2>4, <2>5, <2>6, <2>7
<1>4. ASSUME NEW i \in 1..Ring PROVE board_log'[(board_log_written' + i - 1) % Ring] = history'[i]
  <2>1. i - 1 \in Nat /\ n + 1 + (i - 1) = n + i /\ board_log_written' + i - 1 = board_log_written' + (i - 1) /\ n + i \in Nat /\ i \in Nat
    BY <1>n, <1>2
  <2>2. (board_log_written' + (i - 1)) % Ring = (n + i) % Ring
    <3> DEFINE j == i - 1
    <3>1. j \in Nat
      BY Zenon, <2>1
    <3> HIDE DEF j
    <3>2. (((n + 1) % LogWrap) + j) % Ring = (n + 1 + j) % Ring
      BY ZenonT(30), <3>1, <1>n, WrapKeepsPlace
    <3> QED  BY ZenonT(30), <3>2, <2>1, <1>l DEF j
  <2>3. (n + i) % Ring \in 0..(Ring - 1)
    BY <2>1, <1>n
  <2>4. CASE i = Ring
    <3>1. (n + i) % Ring = Index
      BY ZenonT(30), <2>4, <1>n, ModPer DEF Index
    <3> QED  BY Zenon, <1>1, <1>3, <2>1, <2>2, <2>3, <2>4, <3>1
  <2>5. CASE i # Ring
    <3>1. i \in 1..(Ring - 1) /\ i + 1 \in 1..Ring /\ n + (i + 1) - 1 = n + i
      BY <2>5, <1>n
    <3>2. (n + i) % Ring # Index
      BY Zenon, <3>1, <1>n, ModDistinct DEF Index
    <3>3. board_log[(n + i) % Ring] = history[i + 1]
      BY Zenon, <3>1 DEF RingExact
    <3> QED  BY Zenon, <1>1, <1>3, <2>1, <2>2, <2>3, <2>5, <3>2, <3>3
  <2> QED  BY Zenon, <2>4, <2>5
<1>5. RingExact'
  BY Zenon, <1>4 DEF RingExact
<1> QED  BY ZenonT(30), <1>1, <1>2, <1>3, <1>5 DEF C

\* Where a writer can be in outbyte.
Places == {"idle", "poll", "write", "drop", "store"}

\* Steps that log nothing leave the ring alone.
LEMMA RingKept ==
  ASSUME ConsoleTypeOK, RingExact, UNCHANGED <<board_log, board_log_written, history>>
  PROVE  /\ RingExact' /\ board_log' \in [0..(Ring - 1) -> Writers \union {NoWriter}]
         /\ board_log_written' \in 0..(LogWrap - 1) /\ history' \in Seq(Writers \union {NoWriter}) /\ Len(history') = Ring
BY Zenon DEF RingExact, ConsoleTypeOK

\* The next number of polls.
LEMMA PollsBounded ==
  ASSUME ConsoleAssumption, ConsoleTypeOK, NEW w \in Writers
  PROVE  [tries EXCEPT ![w] = IF Polled(w) THEN @ + 1 ELSE 0] \in [Writers -> 0..(Tries - 1)]
         /\ [tries EXCEPT ![w] = 0] \in [Writers -> 0..(Tries - 1)]
<1>1. tries[w] \in 0..(Tries - 1) /\ tries \in [Writers -> 0..(Tries - 1)]
  BY Zenon DEF ConsoleTypeOK
<1>2. (IF Polled(w) THEN tries[w] + 1 ELSE 0) \in 0..(Tries - 1) /\ 0 \in 0..(Tries - 1)
  BY <1>1, ConsoleNumbers DEF Polled
<1> QED  BY Zenon, <1>1, <1>2

\* Every step keeps ConsoleInv.
LEMMA ConsoleStep ==
  ASSUME ConsoleAssumption, ConsoleInv, [ConsoleNext]_consoleVars
  PROVE  ConsoleInv'
<1>n. Fifo \in Nat \ {0} /\ Tries \in Nat \ {0} /\ DropCounts \in Nat \ {0}
  BY Zenon, ConsoleNumbers
<1>i. ConsoleTypeOK /\ RingExact
  BY Zenon DEF ConsoleInv
<1>t. /\ board_uart_dropped \in 0..(DropCounts - 1) /\ fifo \in 0..Fifo /\ con_pc \in [Writers -> Places]
      /\ tries \in [Writers -> 0..(Tries - 1)] /\ copy \in [Writers -> 0..(DropCounts - 1)]
      /\ uart_ready \in BOOLEAN
  BY Zenon, <1>i DEF ConsoleTypeOK, Places
<1>p. \A w \in Writers, to \in Places : [con_pc EXCEPT ![w] = to] \in [Writers -> Places]
  BY Zenon, <1>t
<1>r. /\ "idle" \in Places /\ "poll" \in Places /\ "write" \in Places /\ "drop" \in Places /\ "store" \in Places
  BY Zenon DEF Places
<1> DEFINE Rest == /\ board_uart_dropped' \in 0..(DropCounts - 1) /\ fifo' \in 0..Fifo /\ con_pc' \in [Writers -> Places]
                   /\ tries' \in [Writers -> 0..(Tries - 1)] /\ copy' \in [Writers -> 0..(DropCounts - 1)]
                   /\ uart_ready' \in BOOLEAN
<1>u. ASSUME UNCHANGED <<board_log, board_log_written, history>>, Rest PROVE ConsoleInv'
  <2>1. /\ RingExact' /\ board_log' \in [0..(Ring - 1) -> Writers \union {NoWriter}]
        /\ board_log_written' \in 0..(LogWrap - 1) /\ history' \in Seq(Writers \union {NoWriter}) /\ Len(history') = Ring
    BY ZenonT(30), <1>u, <1>i, RingKept
  <2> QED  BY Zenon, <1>u, <2>1 DEF ConsoleInv, ConsoleTypeOK, Places
<1>1. ASSUME NEW w \in Writers, Log(w) PROVE ConsoleInv'
  <2>1. /\ RingExact' /\ board_log' \in [0..(Ring - 1) -> Writers \union {NoWriter}]
        /\ board_log_written' \in 0..(LogWrap - 1) /\ history' \in Seq(Writers \union {NoWriter}) /\ Len(history') = Ring
    BY ZenonT(30), <1>1, <1>i, LogStep
  <2>2. tries' \in [Writers -> 0..(Tries - 1)]
    BY ZenonT(30), <1>1, <1>i, PollsBounded DEF Log
  <2>3. Rest
    BY ZenonT(30), <1>1, <1>t, <1>p, <1>r, <2>2 DEF Log, Goto
  <2> QED  BY Zenon, <2>1, <2>3 DEF ConsoleInv, ConsoleTypeOK, Places
<1>2. ASSUME NEW w \in Writers, Room(w) PROVE ConsoleInv'
  BY ZenonT(30), <1>2, <1>t, <1>p, <1>r, <1>u DEF Room, Goto
<1>3. ASSUME NEW w \in Writers, Full(w) PROVE ConsoleInv'
  <2>1. tries' \in [Writers -> 0..(Tries - 1)]
    BY ZenonT(30), <1>3, <1>i, PollsBounded DEF Full
  <2> QED  BY ZenonT(30), <1>3, <1>t, <1>p, <1>r, <1>u, <2>1 DEF Full, Goto
<1>4. ASSUME NEW w \in Writers, Write(w) PROVE ConsoleInv'
  <2>1. tries' \in [Writers -> 0..(Tries - 1)]
    BY Zenon, <1>4, <1>i, PollsBounded DEF Write
  <2>2. fifo' = fifo \/ (fifo < Fifo /\ fifo' = fifo + 1)
    BY Zenon, <1>4 DEF Write
  <2>3. fifo' \in 0..Fifo
    BY <2>2, <1>t, <1>n
  <2>4. con_pc' \in [Writers -> Places]
    BY ZenonT(30), <1>4, <1>p, <1>r DEF Write, Goto
  <2> QED  BY ZenonT(30), <1>4, <1>t, <1>u, <2>1, <2>3, <2>4 DEF Write
<1>5. ASSUME NEW w \in Writers, DropLoad(w) PROVE ConsoleInv'
  BY ZenonT(30), <1>5, <1>t, <1>p, <1>r, <1>u DEF DropLoad, Goto
<1>6. ASSUME NEW w \in Writers, DropStore(w) PROVE ConsoleInv'
  <2>1. copy[w] \in 0..(DropCounts - 1)
    BY Zenon, <1>t
  <2>2. (copy[w] + 1) % DropCounts \in 0..(DropCounts - 1) /\ 0 \in 0..(DropCounts - 1)
    BY <1>n, <2>1
  <2>3. Rest
    BY ZenonT(30), <1>6, <1>t, <1>p, <1>r, <2>2 DEF DropStore, Goto
  <2> QED  BY Zenon, <1>6, <1>u, <2>3 DEF DropStore
<1>7. CASE DrainFifo
  <2>1. fifo' \in 0..Fifo
    BY <1>7, <1>t, <1>n DEF DrainFifo
  <2> QED  BY ZenonT(30), <1>7, <1>t, <1>u, <2>1 DEF DrainFifo
<1>8. CASE UNCHANGED consoleVars
  BY Zenon, <1>8, <1>t, <1>u DEF consoleVars
<1>9. CASE board_console_init
  BY Zenon, <1>9, <1>t, <1>u DEF board_console_init
<1> QED  BY Zenon, <1>1, <1>2, <1>3, <1>4, <1>5, <1>6, <1>7, <1>8, <1>9 DEF ConsoleNext, Outbyte

\* ConsoleInv holds at reset.
LEMMA ConsoleStart == ASSUME ConsoleAssumption, ConsoleInit PROVE ConsoleInv
<1> USE DEF ConsoleInit
<1>n. Ring \in Nat \ {0} /\ LogWrap \in Nat \ {0} /\ Fifo \in Nat \ {0} /\ Tries \in Nat \ {0} /\ DropCounts \in Nat \ {0}
  BY Zenon, ConsoleNumbers
<1>1. history \in Seq(Writers \union {NoWriter}) /\ Len(history) = Ring
  BY <1>n
<1>2. 0 \in 0..(LogWrap - 1) /\ 0 \in 0..Fifo /\ 0 \in 0..(Tries - 1) /\ 0 \in 0..(DropCounts - 1)
  BY <1>n
<1>3. ConsoleTypeOK
  BY Zenon, <1>1, <1>2 DEF ConsoleTypeOK
<1>4. ASSUME NEW i \in 1..Ring PROVE board_log[(board_log_written + i - 1) % Ring] = history[i]
  <2>1. (board_log_written + i - 1) % Ring \in 0..(Ring - 1)
    BY SMTT(30), <1>n
  <2> QED  BY Zenon, <2>1
<1> QED  BY Zenon, <1>3, <1>4 DEF ConsoleInv, RingExact

\* outbyte: the ring holds the last characters of all writers in order, also after the
\* counter has wrapped, the polls of a stuck UART are bounded, and a full FIFO is never
\* written, for every number of writers and every size of ring and FIFO.
THEOREM ConsoleSound == ASSUME ConsoleAssumption PROVE ConsoleSpec => []ConsoleInv
<1>1. ConsoleInit => ConsoleInv
  BY Zenon, ConsoleStart
<1>2. ConsoleInv /\ [ConsoleNext]_consoleVars => ConsoleInv'
  BY Zenon, ConsoleStep
<1> QED  BY <1>1, <1>2, PTL DEF ConsoleSpec

\* The time stamps are exact, and the console logs every character in order and never
\* writes to a full FIFO.
THEOREM BoardSound ==
  ASSUME ClockAssumption, ConsoleAssumption
  PROVE  ClockSpec /\ ConsoleSpec => []BoardInv
BY ClockSound, ConsoleSound, PTL DEF BoardInv
=============================================================================
