--------------------------- MODULE IoRingsProofs ---------------------------
(***************************************************************************)
(* The memory and the contexts of iorings, for every table of contexts,    *)
(* address space and set of requests: however setups, setups that fail and *)
(* releases follow each other, the memory of an open ring stays mapped and *)
(* its own, its parts lie apart in it, the contexts at the end of the      *)
(* table come back, and so does all memory but the pages mem_free forgets. *)
(***************************************************************************)
EXTENDS IoRings, FiniteSetTheorems, WellFoundedInduction, TLAPS

(* A set of positions that is not empty has a last one.                     *)
LEMMA LastOf ==
  ASSUME NEW n \in Nat, NEW S, S \subseteq 1..n, S # {}
  PROVE  \E k \in S : \A j \in S : j <= k
<1> DEFINE T == {n - k : k \in S}
<1>1. T \subseteq Nat /\ T # {}
  <2>1. PICK k \in S : k \in 1..n
    OBVIOUS
  <2>2. n - k \in T
    OBVIOUS
  <2>3. T \subseteq Nat
    OBVIOUS
  <2> QED
    BY <2>2, <2>3
<1>2. PICK x \in T : \A y \in T : ~(<<y, x>> \in OpToRel(<, Nat))
  BY <1>1, WFMin, NatLessThanWellFounded
<1>3. \A y \in T : ~(y < x)
  BY <1>1, <1>2 DEF OpToRel
<1>4. PICK k \in S : x = n - k
  BY <1>2
<1>5. \A j \in S : n - j \in T
  OBVIOUS
<1>6. \A j \in S : ~(n - j < n - k)
  BY <1>3, <1>4, <1>5
<1> HIDE DEF T
<1> QED
  BY <1>4, <1>6

-----------------------------------------------------------------------------
(* Sizes. *)

(* There is a last bit. *)
LEMMA LastBit ==
  ASSUME NEW x \in Nat, x # 0, x < 32768
  PROVE  \E b \in 1..32 : IsLastBit(b, x)
<1>1. /\ 2^0 = 1 /\ 2^1 = 2 /\ 2^2 = 4 /\ 2^3 = 8 /\ 2^4 = 16
      /\ 2^5 = 32 /\ 2^6 = 64 /\ 2^7 = 128 /\ 2^8 = 256
  OBVIOUS
<1>2. /\ 2^9 = 512 /\ 2^10 = 1024 /\ 2^11 = 2048 /\ 2^12 = 4096
      /\ 2^13 = 8192 /\ 2^14 = 16384 /\ 2^15 = 32768
  OBVIOUS
<1>3. \/ IsLastBit(1, x) \/ IsLastBit(2, x) \/ IsLastBit(3, x) \/ IsLastBit(4, x)
      \/ IsLastBit(5, x) \/ IsLastBit(6, x) \/ IsLastBit(7, x) \/ IsLastBit(8, x)
      \/ IsLastBit(9, x) \/ IsLastBit(10, x) \/ IsLastBit(11, x) \/ IsLastBit(12, x)
      \/ IsLastBit(13, x) \/ IsLastBit(14, x) \/ IsLastBit(15, x)
  BY <1>1, <1>2 DEF IsLastBit
<1> QED
  BY <1>3

LEMMA PowerIsNumber ==
  ASSUME NEW x \in Nat, x < 32768
  PROVE  2^Fls(x) \in Nat
<1>1. CASE x = 0
  <2>1. Fls(x) = 0 /\ 2^0 = 1
    BY <1>1 DEF Fls
  <2> QED
    BY <2>1
<1>2. CASE x # 0
  <2>1. Fls(x) \in 1..32 /\ IsLastBit(Fls(x), x)
    BY <1>2, LastBit DEF Fls
  <2>2. \E p \in Int : p = 2^Fls(x) /\ x < p
    BY <2>1 DEF IsLastBit
  <2> QED
    BY <2>2
<1> QED
  BY <1>1, <1>2

LEMMA EntriesAreNumbers ==
  ASSUME NEW n \in Nat \ {0}
  PROVE  SqEntries(n) \in Nat
<1> DEFINE e == IF n > MaxEntries THEN MaxEntries ELSE n
           x == e - 1
<1>1. x \in Nat /\ x < 32768
  BY DEF MaxEntries
<1>2. SqEntries(n) = 2^Fls(x)
  BY DEF SqEntries, CeilPow2, Clamped
<1> HIDE DEF x
<1>3. 2^Fls(x) \in Nat
  BY <1>1, PowerIsNumber
<1> QED
  BY <1>2, <1>3, Zenon

LEMMA SizesAreNumbers ==
  ASSUME NEW sq \in Nat
  PROVE  RingsSize(sq) \in Nat /\ SqesSize(sq) \in Nat
BY DEF RingsSize, SqesSize, ArrayOffset, CqEntries, Align, RingsHeader, CqeSize,
       Cacheline, SqeSize

(* What mem_free unmaps is not more than what mem_alloc mapped.             *)
LEMMA FreedIsMapped ==
  ASSUME NEW s \in Nat
  PROVE  /\ PagesFor(s) \in Nat /\ PagesFor(s + Header) \in Nat \ {0}
         /\ PagesFor(s) <= PagesFor(s + Header)
<1>1. \A z \in Nat : Align(z, PageSize) \div PageSize = (z + 4095) \div 4096
  BY DEF Align, PageSize
<1>2. s + 64 \in Nat
  OBVIOUS
<1> QED
  BY <1>1, <1>2 DEF PagesFor, Header

-----------------------------------------------------------------------------
(* Memory. *)

BlockPages(a, s) == PagesFrom(a, PagesFor(s + Header))

(* There is a block at a for s bytes. *)
Holds(m, a, s) ==
  /\ a \in Addresses /\ s \in Nat
  /\ m.sizeAt[a] = s /\ BlockPages(a, s) \subseteq m.mapped

MemoryType(m) ==
  /\ m = [mapped |-> m.mapped, sizeAt |-> m.sizeAt, big |-> m.big]
  /\ m.mapped \subseteq Addresses
  /\ m.sizeAt = [a \in Addresses |-> m.sizeAt[a]]

LEMMA OwnPage ==
  ASSUME NEW a \in Addresses, NEW s \in Nat
  PROVE  a \in BlockPages(a, s) /\ PagesFrom(a, PagesFor(s)) \subseteq BlockPages(a, s)
<1> DEFINE p == PagesFor(s)
           q == PagesFor(s + Header)
<1>1. p \in Nat /\ q \in Nat \ {0} /\ p <= q
  BY FreedIsMapped
<1>2. a \in Int
  BY DEF Addresses
<1> HIDE DEF p, q
<1>3. a \in a..(a + q - 1) /\ a..(a + p - 1) \subseteq a..(a + q - 1)
  BY <1>1, <1>2
<1> QED
  BY <1>3 DEF p, q, BlockPages, PagesFrom

(* Freeing a block leaves the others. *)
LEMMA FreeKeeps ==
  ASSUME NEW m, MemoryType(m), NEW a, NEW s, Holds(m, a, s)
  PROVE  /\ MemoryType(MemFree(m, a))
         /\ \A b, t : Holds(m, b, t) /\ BlockPages(a, s) \cap BlockPages(b, t) = {}
                        => Holds(MemFree(m, a), b, t)
<1> DEFINE f == MemFree(m, a)
           U == Unmapped(m, a)
<1>1. a # NULL /\ a \in Addresses /\ s \in Nat
  BY DEF Holds, Addresses, NULL
<1>2. U \subseteq BlockPages(a, s)
  BY <1>1, OwnPage DEF Holds, Unmapped
<1>3. /\ f.mapped = m.mapped \ U
      /\ f.sizeAt = [b \in Addresses |-> IF b \in U THEN 0 ELSE m.sizeAt[b]]
      /\ f = [mapped |-> f.mapped, sizeAt |-> f.sizeAt, big |-> f.big]
  BY <1>1 DEF MemFree, MemoryType
<1> HIDE DEF f, U
<1>4. MemoryType(f)
  BY <1>3 DEF MemoryType
<1>5. ASSUME NEW b, NEW t, Holds(m, b, t), BlockPages(a, s) \cap BlockPages(b, t) = {}
      PROVE  Holds(f, b, t)
  <2>1. b \in Addresses /\ t \in Nat /\ b \in BlockPages(b, t)
    BY <1>5, OwnPage DEF Holds
  <2>2. b \notin U /\ BlockPages(b, t) \cap U = {}
    BY <1>2, <1>5, <2>1
  <2> QED
    BY <1>3, <1>5, <2>1, <2>2 DEF Holds
<1> QED
  BY <1>4, <1>5 DEF f

LEMMA FreeNothing == ASSUME NEW m PROVE MemFree(m, NULL) = m
BY DEF MemFree

(* A new block is apart from all there are, and they stay.                  *)
LEMMA AllocKeeps ==
  ASSUME NEW m, MemoryType(m), NEW s \in Nat, NEW a \in Places(m, s)
  PROVE  /\ MemoryType(MemAlloc(m, s, a)) /\ Holds(MemAlloc(m, s, a), a, s)
         /\ \A b, t : Holds(m, b, t) =>
              /\ Holds(MemAlloc(m, s, a), b, t)
              /\ BlockPages(a, s) \cap BlockPages(b, t) = {}
<1> DEFINE n == MemAlloc(m, s, a)
<1>1. /\ a \in Addresses /\ BlockPages(a, s) \subseteq Addresses
      /\ BlockPages(a, s) \cap m.mapped = {}
  BY DEF Places, BlockPages
<1>2. /\ n.mapped = m.mapped \cup BlockPages(a, s)
      /\ n.sizeAt = [m.sizeAt EXCEPT ![a] = s]
      /\ n = [mapped |-> n.mapped, sizeAt |-> n.sizeAt, big |-> n.big]
  <2>1. m = [mapped |-> m.mapped, sizeAt |-> m.sizeAt, big |-> m.big]
    BY DEF MemoryType
  <2>2. n = [mapped |-> m.mapped \cup BlockPages(a, s),
             sizeAt |-> [m.sizeAt EXCEPT ![a] = s], big |-> m.big]
    <3>1. n = [m EXCEPT !.mapped = m.mapped \cup BlockPages(a, s), !.sizeAt[a] = s]
      BY DEF MemAlloc, BlockPages
    <3> QED
      BY <2>1, <3>1
  <2> HIDE DEF n
  <2> QED
    BY <2>2
<1> HIDE DEF n
<1>3. MemoryType(n)
  BY <1>1, <1>2 DEF MemoryType
<1>4. n.sizeAt[a] = s /\ \A b \in Addresses \ {a} : n.sizeAt[b] = m.sizeAt[b]
  BY <1>1, <1>2 DEF MemoryType
<1>5. Holds(n, a, s)
  BY <1>1, <1>2, <1>4 DEF Holds
<1>6. ASSUME NEW b, NEW t, Holds(m, b, t)
      PROVE  Holds(n, b, t) /\ BlockPages(a, s) \cap BlockPages(b, t) = {}
  <2>1. b \in Addresses /\ t \in Nat /\ b \in BlockPages(b, t)
    BY <1>6, OwnPage DEF Holds
  <2>2. BlockPages(a, s) \cap BlockPages(b, t) = {}
    BY <1>1, <1>6 DEF Holds
  <2>3. a \in BlockPages(a, s)
    BY <1>1, OwnPage
  <2>4. b # a
    BY <2>1, <2>2, <2>3
  <2> QED
    BY <1>2, <1>4, <1>6, <2>1, <2>2, <2>4 DEF Holds
<1> QED
  BY <1>3, <1>5, <1>6 DEF n

-----------------------------------------------------------------------------
(* The blocks of a context. *)

RingsBlock(x) == BlockPages(x.rings, RingsSize(x.entries))
SqesBlock(x) == BlockPages(x.sqes, SqesSize(x.entries))
Blocks(x) == RingsBlock(x) \cup SqesBlock(x)

Owns(m, x) ==
  /\ Holds(m, x.rings, RingsSize(x.entries)) /\ Holds(m, x.sqes, SqesSize(x.entries))
  /\ RingsBlock(x) \cap SqesBlock(x) = {}

Apart(m, cs, F) ==
  /\ \A c \in F : Owns(m, cs[c])
  /\ \A c, d \in F : c # d => Blocks(cs[c]) \cap Blocks(cs[d]) = {}

(* ioringctx_free leaves the other contexts' memory alone.                  *)
LEMMA CtxMemoryKeeps ==
  ASSUME NEW m, MemoryType(m), NEW x, Owns(m, x)
  PROVE  /\ MemoryType(CtxMemory(m, x))
         /\ \A y : Owns(m, y) /\ Blocks(x) \cap Blocks(y) = {} => Owns(CtxMemory(m, x), y)
<1> DEFINE r == RingsSize(x.entries)
           q == SqesSize(x.entries)
           n == MemFree(m, x.rings)
<1>1. Holds(m, x.rings, r) /\ Holds(m, x.sqes, q)
  BY DEF Owns
<1>2. BlockPages(x.rings, r) \cap BlockPages(x.sqes, q) = {}
  BY DEF Owns, RingsBlock, SqesBlock
<1>3. MemoryType(n) /\ Holds(n, x.sqes, q)
  BY <1>1, <1>2, FreeKeeps
<1>4. CtxMemory(m, x) = MemFree(n, x.sqes)
  BY DEF CtxMemory
<1>5. ASSUME NEW b, NEW t, Holds(m, b, t), Blocks(x) \cap BlockPages(b, t) = {}
      PROVE  Holds(MemFree(n, x.sqes), b, t)
  <2>1. BlockPages(x.rings, r) \cap BlockPages(b, t) = {}
    BY <1>5 DEF Blocks, RingsBlock
  <2>2. BlockPages(x.sqes, q) \cap BlockPages(b, t) = {}
    BY <1>5 DEF Blocks, SqesBlock
  <2>3. Holds(n, b, t)
    BY <1>1, <1>5, <2>1, FreeKeeps
  <2> HIDE DEF n, q
  <2> QED
    BY <1>3, <2>2, <2>3, FreeKeeps
<1>6. MemoryType(MemFree(n, x.sqes))
  <2> HIDE DEF n, q
  <2> QED
    BY <1>3, FreeKeeps
<1> HIDE DEF n, r, q
<1>7. ASSUME NEW y, Owns(m, y), Blocks(x) \cap Blocks(y) = {}
      PROVE  Owns(CtxMemory(m, x), y)
  <2>1. /\ Blocks(x) \cap BlockPages(y.rings, RingsSize(y.entries)) = {}
        /\ Blocks(x) \cap BlockPages(y.sqes, SqesSize(y.entries)) = {}
    BY <1>7 DEF Blocks, RingsBlock, SqesBlock
  <2> QED
    BY <1>4, <1>5, <1>7, <2>1 DEF Owns
<1> QED
  BY <1>4, <1>6, <1>7

(* A new block leaves the contexts' memory alone and is apart from it.      *)
LEMMA AllocApart ==
  ASSUME NEW m, MemoryType(m), NEW s \in Nat, NEW a \in Places(m, s)
  PROVE  \A y : Owns(m, y) => /\ Owns(MemAlloc(m, s, a), y)
                              /\ BlockPages(a, s) \cap Blocks(y) = {}
<1> SUFFICES ASSUME NEW y, Owns(m, y)
             PROVE  Owns(MemAlloc(m, s, a), y) /\ BlockPages(a, s) \cap Blocks(y) = {}
  OBVIOUS
<1>1. Holds(m, y.rings, RingsSize(y.entries)) /\ Holds(m, y.sqes, SqesSize(y.entries))
  BY DEF Owns
<1>2. /\ Holds(MemAlloc(m, s, a), y.rings, RingsSize(y.entries))
      /\ BlockPages(a, s) \cap RingsBlock(y) = {}
  BY <1>1, AllocKeeps DEF RingsBlock
<1>3. /\ Holds(MemAlloc(m, s, a), y.sqes, SqesSize(y.entries))
      /\ BlockPages(a, s) \cap SqesBlock(y) = {}
  BY <1>1, AllocKeeps DEF SqesBlock
<1> QED
  BY <1>2, <1>3 DEF Owns, Blocks

-----------------------------------------------------------------------------
(* The table of contexts. *)

Contexts == [live : BOOLEAN, rings : Int, sqes : Int, entries : Nat]

TableInv ==
  /\ count \in 0..NRings /\ files \subseteq Slots
  /\ ctxs \in [Slots -> Contexts]
  /\ \A c \in Slots : ctxs[c].live <=> c \in files
  /\ \A c \in files : c < count
  /\ count > 0 => count - 1 \in files
  /\ \A c \in Slots \ files : ctxs[c].rings = NULL /\ ctxs[c].sqes = NULL

LEMMA CountFacts ==
  ASSUME NEW n \in Nat, NEW c \in 0..(n - 1), n <= NRings, NEW cs,
         \A d \in Slots : cs[d].live \in BOOLEAN,
         \A d \in Slots : cs[d].live => d < n,
         c # n - 1 => cs[n - 1].live
  PROVE  /\ CountAfter(cs, n, c) \in 0..n
         /\ \A d \in Slots : cs[d].live => d < CountAfter(cs, n, c)
         /\ CountAfter(cs, n, c) > 0 => cs[CountAfter(cs, n, c) - 1].live
<1> DEFINE Fits(k) == /\ \A i \in k..(n - 1) : ~cs[i].live
                      /\ k > 0 => cs[k - 1].live
<1>1. CASE c # n - 1
  BY <1>1 DEF CountAfter
<1>2. CASE c = n - 1
  <2> DEFINE S == {k \in 1..n : cs[k - 1].live}
  <2>1. \E k \in 0..n : Fits(k)
    <3>1. CASE S = {}
      <4>1. \A i \in 0..(n - 1) : i + 1 \in 1..n /\ (i + 1) - 1 = i
        OBVIOUS
      <4>2. \A i \in 0..(n - 1) : ~cs[i].live
        BY <3>1, <4>1
      <4> QED
        BY <4>2
    <3>2. CASE S # {}
      <4>1. PICK k \in S : \A j \in S : j <= k
        BY <3>2, LastOf
      <4>2. \A i \in k..(n - 1) : i + 1 \in 1..n /\ (i + 1) - 1 = i /\ ~(i + 1 <= k)
        OBVIOUS
      <4>3. \A i \in k..(n - 1) : ~cs[i].live
        BY <4>1, <4>2
      <4> QED
        BY <4>1, <4>3
    <3> QED
      BY <3>1, <3>2
  <2>2. CountAfter(cs, n, c) = CHOOSE k \in 0..n : Fits(k)
    BY <1>2 DEF CountAfter
  <2> HIDE DEF Fits
  <2>3. CountAfter(cs, n, c) \in 0..n /\ Fits(CountAfter(cs, n, c))
    BY <2>1, <2>2
  <2> QED
    BY <2>3 DEF Fits, Slots
<1> QED
  BY <1>1, <1>2

(* A context is freed, in a table that is in order but for it.              *)
LEMMA TableFreed ==
  ASSUME NEW n \in Nat, NEW c \in 0..(n - 1), n <= NRings, NEW x \in Contexts,
         ctxs \in [Slots -> Contexts],
         files' \subseteq Slots, c \notin files',
         \A d \in Slots \ {c} : ctxs[d].live <=> d \in files',
         \A d \in files' : d < n,
         c # n - 1 => n - 1 \in files',
         \A d \in Slots \ files' : d # c => ctxs[d].rings = NULL /\ ctxs[d].sqes = NULL,
         ctxs' = [ctxs EXCEPT ![c] = Cleared(x)],
         count' = CountAfter(ctxs', n, c)
  PROVE  TableInv'
<1>1. c \in Slots /\ n - 1 \in Slots /\ NRings \in Nat
  BY IoRingsConstants DEF IoRingsConstants, Slots
<1>2. /\ Cleared(x) \in Contexts /\ Cleared(x).live = FALSE
      /\ Cleared(x).rings = NULL /\ Cleared(x).sqes = NULL
  <2>1. NULL \in Int
    BY DEF NULL
  <2>2. x = [live |-> x.live, rings |-> x.rings, sqes |-> x.sqes, entries |-> x.entries]
    BY DEF Contexts
  <2>3. Cleared(x) = [live |-> FALSE, rings |-> NULL, sqes |-> NULL, entries |-> 0]
    <3>1. Cleared(x)
            = [x EXCEPT !.live = FALSE, !.rings = NULL, !.sqes = NULL, !.entries = 0]
      BY DEF Cleared
    <3> QED
      BY <2>2, <3>1
  <2> QED
    BY <2>1, <2>3 DEF Contexts
<1>3. ctxs' \in [Slots -> Contexts]
  BY <1>1, <1>2
<1>4. ctxs'[c] = Cleared(x) /\ \A d \in Slots \ {c} : ctxs'[d] = ctxs[d]
  BY <1>1
<1>5. \A d \in Slots : ctxs'[d].live <=> d \in files'
  BY <1>2, <1>4
<1>6. \A d \in Slots : ctxs'[d].live \in BOOLEAN
  BY <1>3 DEF Contexts
<1>7. /\ count' \in 0..n
      /\ \A d \in Slots : ctxs'[d].live => d < count'
      /\ count' > 0 => ctxs'[count' - 1].live
  BY <1>1, <1>5, <1>6, CountFacts
<1>8. count' > 0 => count' - 1 \in files'
  <2>1. count' > 0 => count' - 1 \in Slots
    BY <1>1, <1>7 DEF Slots
  <2> QED
    BY <1>5, <1>7, <2>1
<1>9. \A d \in Slots \ files' : ctxs'[d].rings = NULL /\ ctxs'[d].sqes = NULL
  BY <1>2, <1>4
<1>10. count' \in 0..NRings
  BY <1>7, IoRingsConstants DEF IoRingsConstants
<1>11. \A d \in files' : d < count'
  BY <1>5, <1>7
<1> QED
  BY <1>3, <1>5, <1>8, <1>9, <1>10, <1>11 DEF TableInv

-----------------------------------------------------------------------------
RingsInv == TableInv /\ MemoryType(Memory) /\ Apart(Memory, ctxs, files)

LEMMA RingsInit == Init => RingsInv
<1> SUFFICES ASSUME Init PROVE RingsInv
  OBVIOUS
<1>1. NULL \in Int /\ NRings \in Nat
  BY IoRingsConstants DEF IoRingsConstants, NULL
<1>2. Unused \in Contexts /\ Unused.live = FALSE /\ Unused.rings = NULL /\ Unused.sqes = NULL
  BY <1>1 DEF Unused, Contexts
<1>3. TableInv
  BY <1>1, <1>2 DEF Init, TableInv
<1>4. MemoryType(Memory)
  BY DEF Init, MemoryType, Memory
<1> QED
  BY <1>3, <1>4 DEF RingsInv, Apart, Init

LEMMA MemoryBecomes ==
  ASSUME NEW m, MemoryType(m), Becomes(m)
  PROVE  Memory' = m
BY DEF MemoryType, Becomes, Memory

(* _ioring_release *)
LEMMA ReleaseInv == ASSUME RingsInv, NEW c \in Slots, Release(c) PROVE RingsInv'
<1> DEFINE x == ctxs[c]
           m == CtxMemory(Memory, x)
<1>1. c \in files /\ files' = files \ {c} /\ c < count /\ count \in 0..NRings
  BY DEF Release, RingsInv, TableInv
<1>2. /\ Becomes(m) /\ ctxs' = [ctxs EXCEPT ![c] = Cleared(x)]
      /\ count' = CountAfter(ctxs', count, c)
  BY DEF Release, CtxFree
<1>3. Owns(Memory, x) /\ MemoryType(Memory)
  BY <1>1 DEF RingsInv, Apart
<1>4. /\ MemoryType(m)
      /\ \A y : Owns(Memory, y) /\ Blocks(x) \cap Blocks(y) = {} => Owns(m, y)
  <2> HIDE DEF x
  <2> QED
    BY <1>3, CtxMemoryKeeps
<1>5. Memory' = m
  <2> HIDE DEF m
  <2> QED
    BY <1>2, <1>4, MemoryBecomes
<1>6. \A d \in files' : d \in files /\ d # c /\ d \in Slots /\ ctxs'[d] = ctxs[d]
  BY <1>1, <1>2 DEF RingsInv, TableInv
<1>7. \A d \in files' : Owns(m, ctxs'[d])
  <2> TAKE d \in files'
  <2>1. Owns(Memory, ctxs[d]) /\ Blocks(x) \cap Blocks(ctxs[d]) = {}
    BY <1>1, <1>6 DEF RingsInv, Apart
  <2> HIDE DEF m, x
  <2> QED
    BY <1>4, <1>6, <2>1
<1>8. \A d, e \in files' : d # e => Blocks(ctxs'[d]) \cap Blocks(ctxs'[e]) = {}
  BY <1>6 DEF RingsInv, Apart
<1> HIDE DEF m
<1>9. TableInv'
  <2>1. count \in Nat /\ c \in 0..(count - 1) /\ count <= NRings
    BY <1>1, IoRingsConstants DEF IoRingsConstants, Slots
  <2>2. ctxs \in [Slots -> Contexts] /\ x \in Contexts
    BY DEF RingsInv, TableInv
  <2>3. files' \subseteq Slots /\ c \notin files'
    BY <1>1 DEF RingsInv, TableInv
  <2>4. \A d \in Slots \ {c} : ctxs[d].live <=> d \in files'
    BY <1>1 DEF RingsInv, TableInv
  <2>5. \A d \in files' : d < count
    BY <1>1 DEF RingsInv, TableInv
  <2>6. c # count - 1 => count - 1 \in files'
    BY <1>1, <2>1 DEF RingsInv, TableInv
  <2>7. \A d \in Slots \ files' : d # c => ctxs[d].rings = NULL /\ ctxs[d].sqes = NULL
    BY <1>1 DEF RingsInv, TableInv
  <2> HIDE DEF x
  <2> QED
    BY <1>2, <2>1, <2>2, <2>3, <2>4, <2>5, <2>6, <2>7, TableFreed
<1> QED
  BY <1>4, <1>5, <1>7, <1>8, <1>9 DEF RingsInv, Apart

(* What ioringctx_alloc finds: a context without memory.                    *)
LEMMA AllocatedFacts ==
  ASSUME RingsInv, count < NRings, NEW req \in Requests, Accepted(req)
  PROVE  /\ count \in Slots /\ count \in Nat /\ count \notin files
         /\ SqEntries(req[1]) \in Nat
         /\ Allocated(req) = [live |-> TRUE, rings |-> NULL, sqes |-> NULL,
                              entries |-> SqEntries(req[1])]
<1>1. count \in Slots /\ count \in Nat /\ count \notin files
  BY IoRingsConstants DEF IoRingsConstants, RingsInv, TableInv, Slots
<1>2. req[1] \in Nat \ {0}
  BY IoRingsConstants DEF IoRingsConstants, Accepted
<1>3. SqEntries(req[1]) \in Nat
  BY <1>2, EntriesAreNumbers
<1>4. /\ ctxs[count] = [live |-> ctxs[count].live, rings |-> ctxs[count].rings,
                        sqes |-> ctxs[count].sqes, entries |-> ctxs[count].entries]
      /\ ctxs[count].rings = NULL /\ ctxs[count].sqes = NULL
  BY <1>1 DEF RingsInv, TableInv, Contexts
<1>5. Allocated(req) = [ctxs[count] EXCEPT !.live = TRUE, !.entries = SqEntries(req[1])]
  BY DEF Allocated
<1> QED
  BY <1>1, <1>3, <1>4, <1>5

(* A setup that fails with the context freed again, in a memory that has    *)
(* lost nothing of the other rings.                                         *)
LEMMA FailedInv ==
  ASSUME RingsInv, count < NRings, NEW req \in Requests, Accepted(req),
         NEW m, NEW x \in Contexts, CtxFree(m, count + 1, count, x), UNCHANGED files,
         MemoryType(CtxMemory(m, x)),
         \A y : Owns(Memory, y) => Owns(CtxMemory(m, x), y)
  PROVE  RingsInv'
<1> DEFINE f == CtxMemory(m, x)
<1>1. /\ Becomes(f) /\ ctxs' = [ctxs EXCEPT ![count] = Cleared(x)]
      /\ count' = CountAfter(ctxs', count + 1, count)
  BY DEF CtxFree
<1>2. count \in Slots /\ count \in Nat /\ count \notin files
  BY AllocatedFacts
<1>3. MemoryType(f) /\ \A y : Owns(Memory, y) => Owns(f, y)
  OBVIOUS
<1> HIDE DEF f
<1>4. Memory' = f
  BY <1>1, <1>3, MemoryBecomes
<1>5. \A d \in files : d \in Slots /\ d # count /\ ctxs'[d] = ctxs[d]
  BY <1>1, <1>2 DEF RingsInv, TableInv
<1>6. Apart(f, ctxs', files)
  BY <1>3, <1>5 DEF RingsInv, Apart
<1>7. TableInv'
  <2> DEFINE n == count + 1
  <2>1. n \in Nat /\ count \in 0..(n - 1) /\ n <= NRings /\ count = n - 1
    BY <1>2, IoRingsConstants DEF IoRingsConstants
  <2>2. ctxs \in [Slots -> Contexts] /\ files' \subseteq Slots /\ count \notin files'
    BY <1>2 DEF RingsInv, TableInv
  <2>3. \A d \in Slots \ {count} : ctxs[d].live <=> d \in files'
    BY DEF RingsInv, TableInv
  <2>4. \A d \in files' : d < n
    BY <1>2, <1>5 DEF RingsInv, TableInv, Slots
  <2>5. \A d \in Slots \ files' : d # count => ctxs[d].rings = NULL /\ ctxs[d].sqes = NULL
    BY DEF RingsInv, TableInv
  <2>6. count' = CountAfter(ctxs', n, count)
    BY <1>1
  <2> HIDE DEF n
  <2> QED
    BY <1>1, <2>1, <2>2, <2>3, <2>4, <2>5, <2>6, TableFreed
<1> QED
  BY <1>3, <1>4, <1>6, <1>7 DEF RingsInv

LEMMA NoRingsInv ==
  ASSUME RingsInv, NEW req \in Requests, SetupNoRings(req)
  PROVE  RingsInv'
<1> DEFINE x == Allocated(req)
<1>1. Accepted(req) /\ count < NRings /\ CtxFree(Memory, count + 1, count, x)
      /\ UNCHANGED files
  BY DEF SetupNoRings
<1>2. x = [live |-> TRUE, rings |-> NULL, sqes |-> NULL, entries |-> SqEntries(req[1])]
      /\ SqEntries(req[1]) \in Nat
  BY <1>1, AllocatedFacts
<1> HIDE DEF x
<1>3. x \in Contexts
  BY <1>2 DEF Contexts, NULL
<1>4. CtxMemory(Memory, x) = Memory
  BY <1>2, FreeNothing DEF CtxMemory
<1>5. MemoryType(CtxMemory(Memory, x))
  BY <1>4 DEF RingsInv
<1>6. \A y : Owns(Memory, y) => Owns(CtxMemory(Memory, x), y)
  BY <1>4
<1> QED
  BY <1>1, <1>3, <1>5, <1>6, FailedInv

LEMMA NoSqesInv ==
  ASSUME RingsInv, NEW req \in Requests, SetupNoSqes(req)
  PROVE  RingsInv'
<1> DEFINE s == RingsSize(SqEntries(req[1]))
           x == [Allocated(req) EXCEPT !.rings = NULL]
<1>1. Accepted(req) /\ count < NRings /\ UNCHANGED files
  BY DEF SetupNoSqes
<1>2. PICK a \in Places(Memory, s) :
        CtxFree(MemFree(MemAlloc(Memory, s, a), a), count + 1, count, x)
  BY DEF SetupNoSqes
<1>3. Allocated(req) = [live |-> TRUE, rings |-> NULL, sqes |-> NULL,
                        entries |-> SqEntries(req[1])]
      /\ SqEntries(req[1]) \in Nat
  BY <1>1, AllocatedFacts
<1>4. x = [live |-> TRUE, rings |-> NULL, sqes |-> NULL, entries |-> SqEntries(req[1])]
  <2> DEFINE r == Allocated(req)
             e == SqEntries(req[1])
  <2>1. r = [live |-> TRUE, rings |-> NULL, sqes |-> NULL, entries |-> e]
    BY <1>3
  <2>2. x = [r EXCEPT !.rings = NULL]
    OBVIOUS
  <2> HIDE DEF r, e, x
  <2>3. x = [live |-> TRUE, rings |-> NULL, sqes |-> NULL, entries |-> e]
    BY <2>1, <2>2
  <2> QED
    BY <2>3 DEF e
<1>5. s \in Nat
  BY <1>3, SizesAreNumbers
<1> HIDE DEF x, s
<1>6. x \in Contexts
  BY <1>3, <1>4 DEF Contexts, NULL
<1> DEFINE n == MemAlloc(Memory, s, a)
           f == MemFree(n, a)
<1>7. MemoryType(Memory)
  BY DEF RingsInv
<1>8. MemoryType(n) /\ Holds(n, a, s)
  BY <1>5, <1>7, AllocKeeps
<1>9. \A y : Owns(Memory, y) => Owns(n, y) /\ BlockPages(a, s) \cap Blocks(y) = {}
  BY <1>5, <1>7, AllocApart
<1> HIDE DEF n
<1>10. MemoryType(f)
       /\ \A b, t : Holds(n, b, t) /\ BlockPages(a, s) \cap BlockPages(b, t) = {}
                       => Holds(f, b, t)
  BY <1>8, FreeKeeps
<1> HIDE DEF f
<1>11. \A y : Owns(Memory, y) => Owns(f, y)
  <2> SUFFICES ASSUME NEW y, Owns(Memory, y) PROVE Owns(f, y)
    OBVIOUS
  <2>1. Owns(n, y) /\ BlockPages(a, s) \cap Blocks(y) = {}
    BY <1>9
  <2>2. /\ BlockPages(a, s) \cap BlockPages(y.rings, RingsSize(y.entries)) = {}
        /\ BlockPages(a, s) \cap BlockPages(y.sqes, SqesSize(y.entries)) = {}
    BY <2>1 DEF Blocks, RingsBlock, SqesBlock
  <2> QED
    BY <1>10, <2>1, <2>2 DEF Owns
<1>12. CtxMemory(f, x) = f
  BY <1>4, FreeNothing DEF CtxMemory
<1>13. CtxFree(f, count + 1, count, x)
  BY <1>2 DEF f, n
<1>14. MemoryType(CtxMemory(f, x)) /\ \A y : Owns(Memory, y) => Owns(CtxMemory(f, x), y)
  BY <1>10, <1>11, <1>12
<1> QED
  BY <1>1, <1>6, <1>13, <1>14, FailedInv

(* Both blocks are there: the ring is set up, or vfile_open fails and the   *)
(* context is freed with what it holds.                                     *)
LEMMA SetupInv ==
  ASSUME RingsInv, NEW req \in Requests, Setup(req)
  PROVE  RingsInv'
<1> DEFINE sq == SqEntries(req[1])
           s == RingsSize(sq)
           t == SqesSize(sq)
<1>1. Accepted(req) /\ count < NRings
  BY DEF Setup
<1>2. PICK a \in Places(Memory, s) :
        \E b \in Places(MemAlloc(Memory, s, a), t) :
          LET m == MemAlloc(MemAlloc(Memory, s, a), t, b)
              x == [Allocated(req) EXCEPT !.rings = a, !.sqes = b]
          IN \/ /\ Becomes(m)
                /\ ctxs' = [ctxs EXCEPT ![count] = x]
                /\ count' = count + 1 /\ files' = files \cup {count}
             \/ CtxFree(m, count + 1, count, x) /\ UNCHANGED files
  BY DEF Setup
<1> DEFINE n == MemAlloc(Memory, s, a)
<1>3. PICK b \in Places(n, t) :
          LET m == MemAlloc(n, t, b)
              x == [Allocated(req) EXCEPT !.rings = a, !.sqes = b]
          IN \/ /\ Becomes(m)
                /\ ctxs' = [ctxs EXCEPT ![count] = x]
                /\ count' = count + 1 /\ files' = files \cup {count}
             \/ CtxFree(m, count + 1, count, x) /\ UNCHANGED files
  BY <1>2
<1> DEFINE m == MemAlloc(n, t, b)
           x == [Allocated(req) EXCEPT !.rings = a, !.sqes = b]
<1>4. /\ count \in Slots /\ count \in Nat /\ count \notin files /\ sq \in Nat
      /\ Allocated(req) = [live |-> TRUE, rings |-> NULL, sqes |-> NULL, entries |-> sq]
  BY <1>1, AllocatedFacts
<1>5. x = [live |-> TRUE, rings |-> a, sqes |-> b, entries |-> sq]
  <2> DEFINE r == Allocated(req)
  <2>1. r = [live |-> TRUE, rings |-> NULL, sqes |-> NULL, entries |-> sq]
    BY <1>4
  <2>2. x = [r EXCEPT !.rings = a, !.sqes = b]
    OBVIOUS
  <2> HIDE DEF r, x, sq
  <2> QED
    BY <2>1, <2>2
<1>6. s \in Nat /\ t \in Nat
  BY <1>4, SizesAreNumbers
<1>7. \/ /\ Becomes(m)
         /\ ctxs' = [ctxs EXCEPT ![count] = x]
         /\ count' = count + 1 /\ files' = files \cup {count}
      \/ CtxFree(m, count + 1, count, x) /\ UNCHANGED files
  BY <1>3
<1>8. RingsSize(x.entries) = s /\ SqesSize(x.entries) = t /\ x.rings = a /\ x.sqes = b
  BY <1>5
<1>9. a \in Addresses /\ b \in Addresses
  BY DEF Places
<1> HIDE DEF x, s, t
<1>10. MemoryType(Memory)
  BY DEF RingsInv
<1>11. /\ MemoryType(n) /\ Holds(n, a, s)
       /\ \A y : Owns(Memory, y) => Owns(n, y) /\ BlockPages(a, s) \cap Blocks(y) = {}
  BY <1>6, <1>10, AllocKeeps, AllocApart
<1> HIDE DEF n
<1>12. /\ MemoryType(m) /\ Holds(m, b, t) /\ Holds(m, a, s)
       /\ BlockPages(b, t) \cap BlockPages(a, s) = {}
  BY <1>6, <1>11, AllocKeeps
<1>13. \A y : Owns(n, y) => Owns(m, y) /\ BlockPages(b, t) \cap Blocks(y) = {}
  BY <1>6, <1>11, AllocApart
<1> HIDE DEF m
<1>14. Owns(m, x)
  BY <1>8, <1>12 DEF Owns, RingsBlock, SqesBlock
<1>15. \A y : Owns(Memory, y) => Owns(m, y) /\ Blocks(x) \cap Blocks(y) = {}
  <2>1. Blocks(x) = BlockPages(a, s) \cup BlockPages(b, t)
    BY <1>8 DEF Blocks, RingsBlock, SqesBlock
  <2> QED
    BY <1>11, <1>13, <2>1
<1>16. x \in Contexts
  BY <1>4, <1>5, <1>9 DEF Contexts, Addresses
<1>17. CASE CtxFree(m, count + 1, count, x) /\ UNCHANGED files
  <2>1. MemoryType(CtxMemory(m, x))
    BY <1>12, <1>14, CtxMemoryKeeps
  <2>2. \A y : Owns(Memory, y) => Owns(CtxMemory(m, x), y)
    BY <1>12, <1>14, <1>15, CtxMemoryKeeps
  <2> QED
    BY <1>1, <1>16, <1>17, <2>1, <2>2, FailedInv
<1>18. CASE /\ Becomes(m)
            /\ ctxs' = [ctxs EXCEPT ![count] = x]
            /\ count' = count + 1 /\ files' = files \cup {count}
  <2>1. Memory' = m
    BY <1>12, <1>18, MemoryBecomes
  <2>2. \A c \in files : c \in Slots /\ c # count /\ ctxs'[c] = ctxs[c]
    BY <1>4, <1>18 DEF RingsInv, TableInv
  <2>3. ctxs'[count] = x
    BY <1>4, <1>18 DEF RingsInv, TableInv
  <2>4. Apart(m, ctxs', files')
    <3>1. \A c \in files : Owns(m, ctxs'[c]) /\ Blocks(x) \cap Blocks(ctxs'[c]) = {}
      BY <1>15, <2>2 DEF RingsInv, Apart
    <3>2. \A c, d \in files : c # d => Blocks(ctxs'[c]) \cap Blocks(ctxs'[d]) = {}
      BY <2>2 DEF RingsInv, Apart
    <3>3. \A c \in files' : c \in files \/ ctxs'[c] = x
      BY <1>18, <2>3
    <3>4. \A c \in files' : Owns(m, ctxs'[c])
      BY <1>14, <3>1, <3>3
    <3>5. \A c, d \in files' :
            c # d => \/ c \in files /\ d \in files
                     \/ c \in files /\ ctxs'[d] = x
                     \/ d \in files /\ ctxs'[c] = x
      BY <1>18, <2>3
    <3> QED
      BY <3>1, <3>2, <3>4, <3>5 DEF Apart
  <2>5. TableInv'
    <3>1. count' \in 0..NRings /\ files' \subseteq Slots
      BY <1>1, <1>4, <1>18, IoRingsConstants DEF IoRingsConstants, RingsInv, TableInv
    <3>2. ctxs' \in [Slots -> Contexts]
      BY <1>16, <1>18 DEF RingsInv, TableInv
    <3>3. x.live
      BY <1>5
    <3>4. \A c \in Slots \ {count} : ctxs'[c] = ctxs[c]
      BY <1>18 DEF RingsInv, TableInv
    <3>5. \A c \in Slots : ctxs'[c].live <=> c \in files'
      BY <1>4, <1>18, <2>3, <3>3, <3>4 DEF RingsInv, TableInv
    <3>6. \A c \in files' : c < count'
      BY <1>4, <1>18 DEF RingsInv, TableInv, Slots
    <3>7. count' > 0 => count' - 1 \in files'
      BY <1>4, <1>18
    <3>8. \A c \in Slots \ files' : ctxs'[c].rings = NULL /\ ctxs'[c].sqes = NULL
      BY <1>18, <3>4 DEF RingsInv, TableInv
    <3> QED
      BY <3>1, <3>2, <3>5, <3>6, <3>7, <3>8 DEF TableInv
  <2> QED
    BY <1>12, <2>1, <2>4, <2>5 DEF RingsInv
<1> QED
  BY <1>7, <1>17, <1>18

LEMMA RingsStep == ASSUME RingsInv, [Next]_vars PROVE RingsInv'
<1>1. ASSUME NEW req \in Requests, SetupNoRings(req) \/ SetupNoSqes(req) \/ Setup(req)
      PROVE  RingsInv'
  BY <1>1, NoRingsInv, NoSqesInv, SetupInv
<1>2. ASSUME NEW c \in Slots, Release(c)
      PROVE  RingsInv'
  BY <1>2, ReleaseInv
<1>3. CASE UNCHANGED vars
  BY <1>3 DEF vars, RingsInv, TableInv, MemoryType, Apart, Memory, Owns, Holds
<1> QED
  BY <1>1, <1>2, <1>3 DEF Next

-----------------------------------------------------------------------------
(* Whatever setups fail at whatever point, the memory of an open ring is    *)
(* mapped and no other ring's (mem_alloc, mem_free, ioringctx_free).        *)
THEOREM RingsStay == Spec => []RingsMapped
<1>1. RingsInv => RingsMapped
  <2> SUFFICES ASSUME RingsInv PROVE RingsMapped
    OBVIOUS
  <2>1. \A c \in files : Owns(Memory, ctxs[c])
    BY DEF RingsInv, Apart
  <2>2. \A c \in files : /\ RingsPages(c) = RingsBlock(ctxs[c])
                         /\ SqesPages(c) = SqesBlock(ctxs[c])
    BY DEF RingsPages, SqesPages, RingsBlock, SqesBlock, BlockPages
  <2>3. \A c \in files : /\ RingsBlock(ctxs[c]) \cup SqesBlock(ctxs[c]) \subseteq mapped
                         /\ RingsBlock(ctxs[c]) \cap SqesBlock(ctxs[c]) = {}
    BY <2>1 DEF Owns, Holds, Memory, RingsBlock, SqesBlock
  <2>4. \A c, d \in files : c # d =>
          (RingsBlock(ctxs[c]) \cup SqesBlock(ctxs[c]))
            \cap (RingsBlock(ctxs[d]) \cup SqesBlock(ctxs[d])) = {}
    BY DEF RingsInv, Apart, Blocks
  <2> QED
    BY <2>2, <2>3, <2>4 DEF RingsMapped, PagesOf
<1> QED
  BY RingsInit, RingsStep, <1>1, PTL DEF Spec

(* A context is taken exactly while it has a file, and the free ones at the *)
(* end of g_ioringv can be had again (ioringctx_alloc, ioringctx_free).     *)
THEOREM ContextsComeBack == Spec => []ContextsReclaimed
<1>1. RingsInv => ContextsReclaimed
  BY DEF RingsInv, TableInv, ContextsReclaimed
<1> QED
  BY RingsInit, RingsStep, <1>1, PTL DEF Spec

-----------------------------------------------------------------------------
(***************************************************************************)
(* What is given back.                                                     *)
(***************************************************************************)

(* A block takes at most one page more than mem_free counts.                *)
LEMMA OnePageMore ==
  ASSUME NEW s \in Nat
  PROVE  /\ PagesFor(s) \in Nat
         /\ PagesFor(s + Header) = PagesFor(s) \/ PagesFor(s + Header) = PagesFor(s) + 1
<1>1. \A z \in Nat : Align(z, PageSize) \div PageSize = (z + 4095) \div 4096
  BY DEF Align, PageSize
<1>2. s + 64 \in Nat
  OBVIOUS
<1>3. PagesFor(s) = (s + 4095) \div 4096 /\ PagesFor(s + Header) = (s + 64 + 4095) \div 4096
  BY <1>1, <1>2 DEF PagesFor, Header
<1> QED
  BY <1>3

(* What is mapped and in none of the pages O are strays, one for each block *)
(* that was released big.                                                   *)
Accounted(m, O) ==
  /\ m.sizeAt \in [Addresses -> Nat] /\ m.big \in Nat
  /\ Cardinality(m.mapped \ O) <= m.big

LEMMA MappedFinite ==
  ASSUME NEW m, MemoryType(m), NEW O
  PROVE  IsFiniteSet(m.mapped \ O) /\ Cardinality(m.mapped \ O) \in Nat
<1>1. Pages \in Nat
  BY IoRingsConstants DEF IoRingsConstants
<1>2. IsFiniteSet(Addresses)
  BY <1>1, FS_Interval DEF Addresses
<1>3. (m.mapped \ O) \in SUBSET Addresses
  BY DEF MemoryType
<1>4. IsFiniteSet(m.mapped \ O)
  BY <1>2, <1>3, FS_Subset
<1> QED
  BY <1>4, FS_CardinalityType

LEMMA AllocAccounted ==
  ASSUME NEW m, MemoryType(m), NEW s \in Nat, NEW a \in Places(m, s), NEW O, Accounted(m, O)
  PROVE  Accounted(MemAlloc(m, s, a), O \cup BlockPages(a, s))
<1> DEFINE n == MemAlloc(m, s, a)
           P == O \cup BlockPages(a, s)
<1>1. a \in Addresses
  BY DEF Places
<1>2. /\ n.mapped = m.mapped \cup BlockPages(a, s)
      /\ n.sizeAt = [m.sizeAt EXCEPT ![a] = s] /\ n.big = m.big
  <2>1. m = [mapped |-> m.mapped, sizeAt |-> m.sizeAt, big |-> m.big]
    BY DEF MemoryType
  <2>2. n = [mapped |-> m.mapped \cup BlockPages(a, s),
             sizeAt |-> [m.sizeAt EXCEPT ![a] = s], big |-> m.big]
    <3>1. n = [m EXCEPT !.mapped = m.mapped \cup BlockPages(a, s), !.sizeAt[a] = s]
      BY DEF MemAlloc, BlockPages
    <3> QED
      BY <2>1, <3>1
  <2> HIDE DEF n
  <2> QED
    BY <2>2
<1> HIDE DEF n
<1>3. n.sizeAt \in [Addresses -> Nat] /\ n.big \in Nat
  BY <1>1, <1>2 DEF Accounted
<1>4. (n.mapped \ P) \in SUBSET (m.mapped \ O)
  BY <1>2
<1>5. IsFiniteSet(m.mapped \ O) /\ Cardinality(m.mapped \ O) \in Nat
  BY MappedFinite
<1> HIDE DEF P
<1>6. /\ Cardinality(n.mapped \ P) <= Cardinality(m.mapped \ O)
      /\ Cardinality(n.mapped \ P) \in Nat
  BY <1>4, <1>5, FS_Subset, FS_CardinalityType
<1>7. Cardinality(m.mapped \ O) <= m.big /\ m.big \in Nat
  BY DEF Accounted
<1>8. Cardinality(n.mapped \ P) <= n.big
  BY <1>2, <1>5, <1>6, <1>7
<1> QED
  BY <1>3, <1>8 DEF Accounted, P, n

(* A block is freed: its last page may stay, and then big has counted it.   *)
LEMMA FreeAccounted ==
  ASSUME NEW m, MemoryType(m), NEW a, NEW s, Holds(m, a, s), NEW O,
         Accounted(m, O \cup BlockPages(a, s))
  PROVE  Accounted(MemFree(m, a), O)
<1> DEFINE f == MemFree(m, a)
           U == Unmapped(m, a)
           S == m.mapped \ (O \cup BlockPages(a, s))
           p == PagesFor(s)
           q == PagesFor(s + Header)
<1>1. a # NULL /\ a \in Addresses /\ a \in Int /\ s \in Nat /\ m.sizeAt[a] = s
  BY DEF Holds, Addresses, NULL
<1>2. U = a..(a + p - 1) /\ BlockPages(a, s) = a..(a + q - 1)
  BY <1>1 DEF Unmapped, BlockPages, PagesFrom
<1>3. p \in Nat /\ (q = p \/ q = p + 1)
  BY <1>1, OnePageMore
<1>4. /\ f.mapped = m.mapped \ U
      /\ f.sizeAt = [b \in Addresses |-> IF b \in U THEN 0 ELSE m.sizeAt[b]]
      /\ f.big = IF q > p THEN m.big + 1 ELSE m.big
  BY <1>1 DEF MemFree, MemoryType
<1>5. /\ m.sizeAt \in [Addresses -> Nat] /\ m.big \in Nat /\ Cardinality(S) <= m.big
  BY DEF Accounted
<1>6. IsFiniteSet(S) /\ Cardinality(S) \in Nat
  BY MappedFinite
<1> HIDE DEF f, U, p, q
<1>7. f.sizeAt \in [Addresses -> Nat] /\ f.big \in Nat
  BY <1>3, <1>4, <1>5
<1>8. CASE q = p
  <2>1. (f.mapped \ O) \in SUBSET S
    BY <1>2, <1>4, <1>8
  <2> HIDE DEF S
  <2>2. Cardinality(f.mapped \ O) <= Cardinality(S) /\ Cardinality(f.mapped \ O) \in Nat
    BY <1>6, <2>1, FS_Subset, FS_CardinalityType
  <2>3. Cardinality(f.mapped \ O) <= f.big
    BY <1>3, <1>4, <1>5, <1>6, <1>8, <2>2
  <2> QED
    BY <1>7, <2>3 DEF Accounted, f
<1>9. CASE q = p + 1
  <2>1. \A i \in BlockPages(a, s) : i \in U \/ i = a + p
    BY <1>1, <1>2, <1>3, <1>9
  <2>2. (f.mapped \ O) \in SUBSET (S \cup {a + p})
    BY <1>4, <2>1
  <2> HIDE DEF S
  <2>3. /\ IsFiniteSet(S \cup {a + p}) /\ Cardinality(S \cup {a + p}) \in Nat
        /\ Cardinality(S \cup {a + p}) <= Cardinality(S) + 1
    BY <1>6, FS_AddElement, FS_CardinalityType
  <2>4. /\ Cardinality(f.mapped \ O) <= Cardinality(S \cup {a + p})
        /\ Cardinality(f.mapped \ O) \in Nat
    BY <2>2, <2>3, FS_Subset, FS_CardinalityType
  <2>5. f.big = m.big + 1
    BY <1>3, <1>4, <1>9
  <2>6. Cardinality(f.mapped \ O) <= f.big
    BY <1>5, <1>6, <2>3, <2>4, <2>5
  <2> QED
    BY <1>7, <2>6 DEF Accounted, f
<1> QED
  BY <1>3, <1>8, <1>9

(* ioringctx_free gives the blocks of the context back.                     *)
LEMMA CtxAccounted ==
  ASSUME NEW m, MemoryType(m), NEW x, Owns(m, x), NEW O, Accounted(m, O \cup Blocks(x))
  PROVE  Accounted(CtxMemory(m, x), O)
<1> DEFINE r == RingsSize(x.entries)
           q == SqesSize(x.entries)
           n == MemFree(m, x.rings)
<1>1. Holds(m, x.rings, r) /\ Holds(m, x.sqes, q)
  BY DEF Owns
<1>2. BlockPages(x.rings, r) \cap BlockPages(x.sqes, q) = {}
  BY DEF Owns, RingsBlock, SqesBlock
<1>3. MemoryType(n) /\ Holds(n, x.sqes, q)
  BY <1>1, <1>2, FreeKeeps
<1>4. O \cup Blocks(x) = (O \cup BlockPages(x.sqes, q)) \cup BlockPages(x.rings, r)
  BY DEF Blocks, RingsBlock, SqesBlock
<1>5. Accounted(m, (O \cup BlockPages(x.sqes, q)) \cup BlockPages(x.rings, r))
  BY <1>4
<1> HIDE DEF r, q
<1>6. Accounted(n, O \cup BlockPages(x.sqes, q))
  BY <1>1, <1>5, FreeAccounted
<1>7. CtxMemory(m, x) = MemFree(n, x.sqes)
  BY DEF CtxMemory
<1> HIDE DEF n
<1>8. Accounted(MemFree(n, x.sqes), O)
  BY <1>3, <1>6, FreeAccounted
<1> QED
  BY <1>7, <1>8

-----------------------------------------------------------------------------
OpenPages(cs, F) == UNION {Blocks(cs[c]) : c \in F}

(* What a context says of its entries. *)
EntriesInv ==
  /\ \A c \in Slots \ files : ctxs[c].entries = 0
  /\ \A c \in files : \E req \in Requests :
       Accepted(req) /\ ctxs[c].entries = SqEntries(req[1])

(* The strengthening of RingsInv that the account needs.                    *)
BooksInv ==
  /\ Accounted(Memory, OpenPages(ctxs, files)) /\ big <= MaxBig
  /\ EntriesInv

LEMMA BooksInit == Init => BooksInv
<1> SUFFICES ASSUME Init PROVE BooksInv
  OBVIOUS
<1>1. MaxBig \in Nat /\ 0 \in Nat
  BY IoRingsConstants DEF IoRingsConstants
<1>2. Memory.mapped \ OpenPages(ctxs, files) = {}
  BY DEF Init, Memory
<1>3. Cardinality(Memory.mapped \ OpenPages(ctxs, files)) = 0
  BY <1>2, FS_EmptySet
<1>4. Memory.sizeAt \in [Addresses -> Nat] /\ Memory.big = 0
  BY <1>1 DEF Init, Memory
<1>5. EntriesInv
  BY DEF Init, EntriesInv, Unused
<1> QED
  BY <1>1, <1>3, <1>4, <1>5 DEF BooksInv, Accounted, Init

(* A context is cleared, after its blocks were given back.                  *)
LEMMA FreedBooks ==
  ASSUME RingsInv, BooksInv, NEW c \in Slots, NEW x \in Contexts, NEW m, NEW n,
         CtxFree(m, n, c, x), files' = files \ {c}, MemoryType(CtxMemory(m, x)),
         Accounted(CtxMemory(m, x), OpenPages(ctxs, files'))
  PROVE  BooksInv'
<1> DEFINE f == CtxMemory(m, x)
<1>1. Becomes(f) /\ ctxs' = [ctxs EXCEPT ![c] = Cleared(x)] /\ MemoryType(f)
  BY DEF CtxFree
<1> HIDE DEF f
<1>2. Memory' = f /\ big' <= MaxBig
  BY <1>1, MemoryBecomes DEF Becomes
<1>3. Cleared(x).entries = 0
  <2>1. x = [live |-> x.live, rings |-> x.rings, sqes |-> x.sqes, entries |-> x.entries]
    BY DEF Contexts
  <2>2. Cleared(x)
          = [x EXCEPT !.live = FALSE, !.rings = NULL, !.sqes = NULL, !.entries = 0]
    BY DEF Cleared
  <2> QED
    BY <2>1, <2>2
<1>4. ctxs \in [Slots -> Contexts] /\ files \subseteq Slots
  BY DEF RingsInv, TableInv
<1>5. ctxs'[c] = Cleared(x) /\ \A d \in Slots \ {c} : ctxs'[d] = ctxs[d]
  BY <1>1, <1>4
<1>6. EntriesInv'
  <2>1. \A d \in Slots \ files' : ctxs'[d].entries = 0
    BY <1>3, <1>5 DEF BooksInv, EntriesInv
  <2>2. \A d \in files' : \E req \in Requests :
          Accepted(req) /\ ctxs'[d].entries = SqEntries(req[1])
    BY <1>4, <1>5 DEF BooksInv, EntriesInv
  <2> QED
    BY <2>1, <2>2 DEF EntriesInv
<1>7. OpenPages(ctxs', files') = OpenPages(ctxs, files')
  <2>1. \A d \in files' : ctxs'[d] = ctxs[d]
    BY <1>4, <1>5
  <2> QED
    BY <2>1 DEF OpenPages
<1>8. Accounted(f, OpenPages(ctxs', files'))
  BY <1>7 DEF f
<1> QED
  BY <1>2, <1>6, <1>8 DEF BooksInv

LEMMA ReleaseBooks ==
  ASSUME RingsInv, BooksInv, NEW c \in Slots, Release(c)
  PROVE  BooksInv'
<1> DEFINE x == ctxs[c]
           O == OpenPages(ctxs, files \ {c})
<1>1. c \in files /\ files' = files \ {c} /\ CtxFree(Memory, count, c, x)
  BY DEF Release
<1>2. x \in Contexts /\ MemoryType(Memory) /\ Owns(Memory, x)
  BY <1>1 DEF RingsInv, TableInv, Apart
<1>3. OpenPages(ctxs, files) = O \cup Blocks(x)
  BY <1>1 DEF OpenPages
<1>4. Accounted(Memory, O \cup Blocks(x))
  BY <1>3 DEF BooksInv
<1> HIDE DEF x, O
<1>5. MemoryType(CtxMemory(Memory, x)) /\ Accounted(CtxMemory(Memory, x), O)
  BY <1>2, <1>4, CtxMemoryKeeps, CtxAccounted
<1>6. Accounted(CtxMemory(Memory, x), OpenPages(ctxs, files'))
  BY <1>1, <1>5 DEF O
<1> QED
  BY <1>1, <1>2, <1>5, <1>6, FreedBooks

(* The setup that fails: the context is cleared, and holds no open ring.    *)
LEMMA FailedBooks ==
  ASSUME RingsInv, BooksInv, count < NRings, NEW req \in Requests, Accepted(req),
         NEW m, NEW x \in Contexts, CtxFree(m, count + 1, count, x), UNCHANGED files,
         MemoryType(CtxMemory(m, x)), Accounted(CtxMemory(m, x), OpenPages(ctxs, files))
  PROVE  BooksInv'
<1>1. count \in Slots /\ count \notin files
  BY AllocatedFacts
<1>2. files' = files \ {count}
  BY <1>1
<1>3. Accounted(CtxMemory(m, x), OpenPages(ctxs, files'))
  OBVIOUS
<1> DEFINE n == count + 1
<1>4. CtxFree(m, n, count, x)
  OBVIOUS
<1> HIDE DEF n
<1> QED
  BY <1>1, <1>2, <1>3, <1>4, FreedBooks

LEMMA NoRingsBooks ==
  ASSUME RingsInv, BooksInv, NEW req \in Requests, SetupNoRings(req)
  PROVE  BooksInv'
<1> DEFINE x == Allocated(req)
<1>1. Accepted(req) /\ count < NRings /\ CtxFree(Memory, count + 1, count, x)
      /\ UNCHANGED files
  BY DEF SetupNoRings
<1>2. x = [live |-> TRUE, rings |-> NULL, sqes |-> NULL, entries |-> SqEntries(req[1])]
      /\ SqEntries(req[1]) \in Nat
  BY <1>1, AllocatedFacts
<1> HIDE DEF x
<1>3. x \in Contexts
  BY <1>2 DEF Contexts, NULL
<1>4. CtxMemory(Memory, x) = Memory
  BY <1>2, FreeNothing DEF CtxMemory
<1>5. /\ MemoryType(CtxMemory(Memory, x))
      /\ Accounted(CtxMemory(Memory, x), OpenPages(ctxs, files))
  BY <1>4 DEF RingsInv, BooksInv
<1> QED
  BY <1>1, <1>3, <1>5, FailedBooks

LEMMA NoSqesBooks ==
  ASSUME RingsInv, BooksInv, NEW req \in Requests, SetupNoSqes(req)
  PROVE  BooksInv'
<1> DEFINE s == RingsSize(SqEntries(req[1]))
           x == [Allocated(req) EXCEPT !.rings = NULL]
<1>1. Accepted(req) /\ count < NRings /\ UNCHANGED files
  BY DEF SetupNoSqes
<1>2. PICK a \in Places(Memory, s) :
        CtxFree(MemFree(MemAlloc(Memory, s, a), a), count + 1, count, x)
  BY DEF SetupNoSqes
<1>3. Allocated(req) = [live |-> TRUE, rings |-> NULL, sqes |-> NULL,
                        entries |-> SqEntries(req[1])]
      /\ SqEntries(req[1]) \in Nat
  BY <1>1, AllocatedFacts
<1>4. x = [live |-> TRUE, rings |-> NULL, sqes |-> NULL, entries |-> SqEntries(req[1])]
  <2> DEFINE r == Allocated(req)
             e == SqEntries(req[1])
  <2>1. r = [live |-> TRUE, rings |-> NULL, sqes |-> NULL, entries |-> e]
    BY <1>3
  <2>2. x = [r EXCEPT !.rings = NULL]
    OBVIOUS
  <2> HIDE DEF r, e, x
  <2>3. x = [live |-> TRUE, rings |-> NULL, sqes |-> NULL, entries |-> e]
    BY <2>1, <2>2
  <2> QED
    BY <2>3 DEF e
<1>5. s \in Nat
  BY <1>3, SizesAreNumbers
<1> HIDE DEF x, s
<1>6. x \in Contexts
  BY <1>3, <1>4 DEF Contexts, NULL
<1> DEFINE n == MemAlloc(Memory, s, a)
           f == MemFree(n, a)
           O == OpenPages(ctxs, files)
<1>7. MemoryType(Memory) /\ Accounted(Memory, O)
  BY DEF RingsInv, BooksInv
<1> HIDE DEF O
<1>8. MemoryType(n) /\ Holds(n, a, s) /\ Accounted(n, O \cup BlockPages(a, s))
  BY <1>5, <1>7, AllocKeeps, AllocAccounted
<1> HIDE DEF n
<1>9. MemoryType(f) /\ Accounted(f, O)
  BY <1>8, FreeKeeps, FreeAccounted
<1> HIDE DEF f
<1>10. CtxMemory(f, x) = f
  BY <1>4, FreeNothing DEF CtxMemory
<1>11. CtxFree(f, count + 1, count, x)
  BY <1>2 DEF f, n
<1>12. MemoryType(CtxMemory(f, x)) /\ Accounted(CtxMemory(f, x), OpenPages(ctxs, files))
  BY <1>9, <1>10 DEF O
<1> QED
  BY <1>1, <1>6, <1>11, <1>12, FailedBooks

LEMMA SetupBooks ==
  ASSUME RingsInv, BooksInv, NEW req \in Requests, Setup(req)
  PROVE  BooksInv'
<1> DEFINE sq == SqEntries(req[1])
           s == RingsSize(sq)
           t == SqesSize(sq)
           O == OpenPages(ctxs, files)
<1>1. Accepted(req) /\ count < NRings
  BY DEF Setup
<1>2. PICK a \in Places(Memory, s) :
        \E b \in Places(MemAlloc(Memory, s, a), t) :
          LET m == MemAlloc(MemAlloc(Memory, s, a), t, b)
              x == [Allocated(req) EXCEPT !.rings = a, !.sqes = b]
          IN \/ /\ Becomes(m)
                /\ ctxs' = [ctxs EXCEPT ![count] = x]
                /\ count' = count + 1 /\ files' = files \cup {count}
             \/ CtxFree(m, count + 1, count, x) /\ UNCHANGED files
  BY DEF Setup
<1> DEFINE n == MemAlloc(Memory, s, a)
<1>3. PICK b \in Places(n, t) :
          LET m == MemAlloc(n, t, b)
              x == [Allocated(req) EXCEPT !.rings = a, !.sqes = b]
          IN \/ /\ Becomes(m)
                /\ ctxs' = [ctxs EXCEPT ![count] = x]
                /\ count' = count + 1 /\ files' = files \cup {count}
             \/ CtxFree(m, count + 1, count, x) /\ UNCHANGED files
  BY <1>2
<1> DEFINE m == MemAlloc(n, t, b)
           x == [Allocated(req) EXCEPT !.rings = a, !.sqes = b]
<1>4. /\ count \in Slots /\ count \notin files /\ sq \in Nat
      /\ Allocated(req) = [live |-> TRUE, rings |-> NULL, sqes |-> NULL, entries |-> sq]
  BY <1>1, AllocatedFacts
<1>5. x = [live |-> TRUE, rings |-> a, sqes |-> b, entries |-> sq]
  <2> DEFINE r == Allocated(req)
  <2>1. r = [live |-> TRUE, rings |-> NULL, sqes |-> NULL, entries |-> sq]
    BY <1>4
  <2>2. x = [r EXCEPT !.rings = a, !.sqes = b]
    OBVIOUS
  <2> HIDE DEF r, x, sq
  <2> QED
    BY <2>1, <2>2
<1>6. s \in Nat /\ t \in Nat
  BY <1>4, SizesAreNumbers
<1>7. \/ /\ Becomes(m)
         /\ ctxs' = [ctxs EXCEPT ![count] = x]
         /\ count' = count + 1 /\ files' = files \cup {count}
      \/ CtxFree(m, count + 1, count, x) /\ UNCHANGED files
  BY <1>3
<1>8. RingsSize(x.entries) = s /\ SqesSize(x.entries) = t /\ x.rings = a /\ x.sqes = b
  BY <1>5
<1>9. a \in Addresses /\ b \in Addresses
  BY DEF Places
<1> HIDE DEF x, s, t
<1>10. MemoryType(Memory) /\ Accounted(Memory, O)
  BY DEF RingsInv, BooksInv
<1> HIDE DEF O
<1>11. MemoryType(n) /\ Holds(n, a, s) /\ Accounted(n, O \cup BlockPages(a, s))
  BY <1>6, <1>10, AllocKeeps, AllocAccounted
<1> HIDE DEF n
<1>12. /\ MemoryType(m) /\ Holds(m, b, t) /\ Holds(m, a, s)
       /\ BlockPages(b, t) \cap BlockPages(a, s) = {}
  BY <1>6, <1>11, AllocKeeps
<1>13. Accounted(m, (O \cup BlockPages(a, s)) \cup BlockPages(b, t))
  BY <1>6, <1>11, AllocAccounted
<1> HIDE DEF m
<1>14. Owns(m, x)
  BY <1>8, <1>12 DEF Owns, RingsBlock, SqesBlock
<1>15. Accounted(m, O \cup Blocks(x))
  <2>1. O \cup Blocks(x) = (O \cup BlockPages(a, s)) \cup BlockPages(b, t)
    BY <1>8 DEF Blocks, RingsBlock, SqesBlock
  <2> QED
    BY <1>13, <2>1
<1>16. x \in Contexts
  BY <1>4, <1>5, <1>9 DEF Contexts, Addresses
<1>17. CASE CtxFree(m, count + 1, count, x) /\ UNCHANGED files
  <2>1. MemoryType(CtxMemory(m, x)) /\ Accounted(CtxMemory(m, x), O)
    BY <1>12, <1>14, <1>15, CtxMemoryKeeps, CtxAccounted
  <2>2. Accounted(CtxMemory(m, x), OpenPages(ctxs, files))
    BY <2>1 DEF O
  <2> QED
    BY <1>1, <1>16, <1>17, <2>1, <2>2, FailedBooks
<1>18. CASE /\ Becomes(m)
            /\ ctxs' = [ctxs EXCEPT ![count] = x]
            /\ count' = count + 1 /\ files' = files \cup {count}
  <2>1. Memory' = m /\ big' <= MaxBig
    BY <1>12, <1>18, MemoryBecomes DEF Becomes
  <2>2. ctxs \in [Slots -> Contexts] /\ files \subseteq Slots
    BY DEF RingsInv, TableInv
  <2>3. ctxs'[count] = x /\ \A d \in Slots \ {count} : ctxs'[d] = ctxs[d]
    BY <1>4, <1>18, <2>2
  <2>4. OpenPages(ctxs', files') = O \cup Blocks(x)
    <3>1. \A d \in files : ctxs'[d] = ctxs[d]
      BY <1>4, <2>2, <2>3
    <3>2. OpenPages(ctxs', files) = O
      BY <3>1 DEF OpenPages, O
    <3>3. OpenPages(ctxs', files') = OpenPages(ctxs', files) \cup Blocks(ctxs'[count])
      BY <1>18 DEF OpenPages
    <3> QED
      BY <2>3, <3>2, <3>3
  <2>5. x.entries = SqEntries(req[1])
    BY <1>5
  <2>6. \A d \in Slots \ files' : ctxs'[d].entries = 0
    BY <1>18, <2>3 DEF BooksInv, EntriesInv
  <2>7. \A d \in files' : \E r \in Requests :
          Accepted(r) /\ ctxs'[d].entries = SqEntries(r[1])
    <3> TAKE d \in files'
    <3>1. CASE d = count
      BY <1>1, <2>3, <2>5, <3>1
    <3>2. CASE d # count
      <4>1. d \in files /\ ctxs'[d] = ctxs[d]
        BY <1>18, <2>2, <2>3, <3>2
      <4> QED
        BY <4>1 DEF BooksInv, EntriesInv
    <3> QED
      BY <3>1, <3>2
  <2>8. Accounted(m, OpenPages(ctxs', files'))
    BY <1>15, <2>4
  <2> QED
    BY <2>1, <2>6, <2>7, <2>8 DEF BooksInv, EntriesInv
<1> QED
  BY <1>7, <1>17, <1>18

LEMMA BooksStep == ASSUME RingsInv, BooksInv, [Next]_vars PROVE BooksInv'
<1>1. ASSUME NEW req \in Requests, SetupNoRings(req) \/ SetupNoSqes(req) \/ Setup(req)
      PROVE  BooksInv'
  BY <1>1, NoRingsBooks, NoSqesBooks, SetupBooks
<1>2. ASSUME NEW c \in Slots, Release(c)
      PROVE  BooksInv'
  BY <1>2, ReleaseBooks
<1>3. CASE UNCHANGED vars
  BY <1>3 DEF vars, BooksInv, EntriesInv, Memory, Accounted
<1> QED
  BY <1>1, <1>2, <1>3 DEF Next

LEMMA BooksKept == Spec => [](RingsInv /\ BooksInv)
<1>1. Init => RingsInv /\ BooksInv
  BY RingsInit, BooksInit
<1>2. RingsInv /\ BooksInv /\ [Next]_vars => (RingsInv /\ BooksInv)'
  BY RingsStep, BooksStep
<1> QED
  BY <1>1, <1>2, PTL DEF Spec

-----------------------------------------------------------------------------
(* The entries are the least power of two that is enough. *)
LEMMA EntriesFit ==
  ASSUME NEW n \in Nat \ {0}
  PROVE  /\ SqEntries(n) \in Nat \ {0}
         /\ Clamped(n) <= SqEntries(n) /\ SqEntries(n) < 2 * Clamped(n)
         /\ \E b \in 0..15 : SqEntries(n) = 2^b
<1> DEFINE e == Clamped(n)
           x == e - 1
<1>1. e \in Nat \ {0} /\ x \in Nat /\ x < 32768 /\ e = x + 1
  BY DEF Clamped, MaxEntries
<1>2. SqEntries(n) = 2^Fls(x)
  BY DEF SqEntries, CeilPow2
<1> HIDE DEF e, x
<1>3. CASE x = 0
  <2>1. Fls(x) = 0 /\ 2^0 = 1
    BY <1>3 DEF Fls
  <2>2. SqEntries(n) = 1 /\ SqEntries(n) = 2^0 /\ 0 \in 0..15
    BY <1>2, <2>1
  <2> QED
    BY <1>1, <1>3, <2>2 DEF e
<1>4. CASE x # 0
  <2>1. Fls(x) \in 1..32 /\ IsLastBit(Fls(x), x)
    BY <1>1, <1>4, LastBit DEF Fls
  <2>2. PICK b \in 1..32 : b = Fls(x)
    BY <2>1
  <2> DEFINE f == [k \in 0..31 |-> 2^k]
  <2>3. /\ f[0] = 1 /\ f[1] = 2 /\ f[2] = 4 /\ f[3] = 8 /\ f[4] = 16 /\ f[5] = 32
        /\ f[6] = 64 /\ f[7] = 128 /\ f[8] = 256 /\ f[9] = 512 /\ f[10] = 1024
        /\ f[11] = 2048 /\ f[12] = 4096 /\ f[13] = 8192 /\ f[14] = 16384 /\ f[15] = 32768
    OBVIOUS
  <2>4. /\ f[16] = 65536 /\ f[17] = 131072 /\ f[18] = 262144 /\ f[19] = 524288
        /\ f[20] = 1048576 /\ f[21] = 2097152 /\ f[22] = 4194304 /\ f[23] = 8388608
        /\ f[24] = 16777216 /\ f[25] = 33554432 /\ f[26] = 67108864 /\ f[27] = 134217728
        /\ f[28] = 268435456 /\ f[29] = 536870912 /\ f[30] = 1073741824
        /\ f[31] = 2147483648
    OBVIOUS
  <2>5. \A k \in 0..31 : 2^k = f[k]
    OBVIOUS
  <2> HIDE DEF f
  <2>6. \A k \in 15..31 : f[k] \in Nat /\ f[k] >= 32768
    BY <2>3, <2>4
  <2>7. \A k \in 0..14 : f[k] \in Nat /\ f[k + 1] = 2 * f[k]
    BY <2>3
  <2>8. b - 1 \in 0..31 /\ f[b - 1] <= x /\ (b \in 0..31 => x < f[b])
    <3>1. b - 1 \in 0..31 /\ 2^(b - 1) <= x /\ x < 2^b
      BY <2>1, <2>2 DEF IsLastBit
    <3> QED
      BY <2>5, <3>1
  <2>9. b \in 1..15 /\ b \in 0..31 /\ b - 1 \in 0..14
    <3>1. ~(b - 1 \in 15..31)
      BY <1>1, <2>6, <2>8
    <3> QED
      BY <2>8, <3>1
  <2>10. SqEntries(n) = 2^b /\ b \in 0..15 /\ 2^b = f[b]
    <3>1. SqEntries(n) = 2^b
      BY <1>2, <2>2, Zenon
    <3>2. 2^b = f[b]
      BY <2>5, <2>9, Zenon
    <3>3. b \in 0..15
      BY <2>9
    <3> QED
      BY <3>1, <3>2, <3>3, Zenon
  <2>11. f[b - 1] \in Nat /\ f[b] = 2 * f[b - 1]
    <3>1. PICK k \in 0..14 : k = b - 1 /\ k + 1 = b
      BY <2>9
    <3> QED
      BY <2>7, <3>1
  <2>12. e <= f[b] /\ f[b] < 2 * e /\ f[b] \in Nat \ {0}
    BY <1>1, <2>8, <2>9, <2>11
  <2>13. e <= SqEntries(n) /\ SqEntries(n) < 2 * e /\ SqEntries(n) \in Nat \ {0}
    BY <2>10, <2>12
  <2> QED
    BY <2>10, <2>13 DEF e
<1> QED
  BY <1>3, <1>4

(* What an open ring owns, and how many entries it has.                     *)
LEMMA OpenRing ==
  ASSUME RingsInv, BooksInv, NEW c \in files
  PROVE  /\ c \in Slots /\ Owns(Memory, ctxs[c])
         /\ RingsPages(c) = RingsBlock(ctxs[c]) /\ SqesPages(c) = SqesBlock(ctxs[c])
         /\ \E req \in Requests : /\ req[1] \in Nat \ {0}
                                  /\ ctxs[c].entries = SqEntries(req[1])
<1>1. c \in Slots /\ Owns(Memory, ctxs[c])
  BY DEF RingsInv, TableInv, Apart
<1>2. RingsPages(c) = RingsBlock(ctxs[c]) /\ SqesPages(c) = SqesBlock(ctxs[c])
  BY DEF RingsPages, SqesPages, RingsBlock, SqesBlock, BlockPages
<1>3. PICK req \in Requests : Accepted(req) /\ ctxs[c].entries = SqEntries(req[1])
  BY DEF BooksInv, EntriesInv
<1>4. req[1] \in Nat \ {0}
  BY <1>3, IoRingsConstants DEF IoRingsConstants, Accepted
<1> QED
  BY <1>1, <1>2, <1>3, <1>4

(* What is mapped beyond the open rings are the pages mem_free does not     *)
(* count, one for each block released that fills its pages but for the      *)
(* header: setups that fail at any point and releases leave nothing else.   *)
THEOREM MemoryComesBack == Spec => []MemoryInv
<1>1. RingsInv /\ BooksInv => MemoryInv
  <2> SUFFICES ASSUME RingsInv, BooksInv PROVE MemoryInv
    OBVIOUS
  <2>1. mapped \subseteq Addresses /\ sizeAt \in [Addresses -> Nat] /\ big \in 0..MaxBig
    BY IoRingsConstants
    DEF IoRingsConstants, RingsInv, MemoryType, BooksInv, Accounted, Memory
  <2>2. count \in 0..NRings /\ files \subseteq Slots /\ ctxs \in [Slots -> Contexts]
    BY DEF RingsInv, TableInv
  <2>3. \A c \in Slots :
          /\ ctxs[c].live \in BOOLEAN
          /\ ctxs[c].rings \in Addresses \cup {NULL} /\ ctxs[c].sqes \in Addresses \cup {NULL}
          /\ ctxs[c].entries \in {0} \cup {2^b : b \in 0..15}
    <3> TAKE c \in Slots
    <3>1. ctxs[c].live \in BOOLEAN
      BY <2>2 DEF Contexts
    <3>2. CASE c \in files
      <4>1. ctxs[c].rings \in Addresses /\ ctxs[c].sqes \in Addresses
        BY <3>2, OpenRing DEF Owns, Holds
      <4>2. PICK req \in Requests :
              req[1] \in Nat \ {0} /\ ctxs[c].entries = SqEntries(req[1])
        BY <3>2, OpenRing
      <4>3. \E b \in 0..15 : ctxs[c].entries = 2^b
        BY <4>2, EntriesFit
      <4> QED
        BY <3>1, <4>1, <4>3
    <3>3. CASE c \notin files
      BY <3>1, <3>3 DEF RingsInv, TableInv, BooksInv, EntriesInv
    <3> QED
      BY <3>2, <3>3
  <2>4. ctxs \in [Slots -> [live : BOOLEAN, rings : Addresses \cup {NULL},
                            sqes : Addresses \cup {NULL},
                            entries : {0} \cup {2^b : b \in 0..15}]]
    <3> DEFINE R == Addresses \cup {NULL}
               E == {0} \cup {2^b : b \in 0..15}
    <3>1. \A c \in Slots : /\ ctxs[c].live \in BOOLEAN /\ ctxs[c].rings \in R
                           /\ ctxs[c].sqes \in R /\ ctxs[c].entries \in E
      BY <2>3
    <3>2. \A c \in Slots :
            ctxs[c] = [live |-> ctxs[c].live, rings |-> ctxs[c].rings,
                       sqes |-> ctxs[c].sqes, entries |-> ctxs[c].entries]
      BY <2>2 DEF Contexts
    <3> HIDE DEF R, E
    <3>3. \A c \in Slots : ctxs[c] \in [live : BOOLEAN, rings : R, sqes : R, entries : E]
      <4> TAKE c \in Slots
      <4> DEFINE w == ctxs[c]
      <4>1. w.live \in BOOLEAN /\ w.rings \in R /\ w.sqes \in R /\ w.entries \in E
        BY <3>1
      <4>2. w = [live |-> w.live, rings |-> w.rings, sqes |-> w.sqes, entries |-> w.entries]
        BY <3>2
      <4> HIDE DEF w
      <4>3. w \in [live : BOOLEAN, rings : R, sqes : R, entries : E]
        BY <4>1, <4>2
      <4> QED
        BY <4>3 DEF w
    <3>4. ctxs \in [Slots -> [live : BOOLEAN, rings : R, sqes : R, entries : E]]
      BY <2>2, <3>3
    <3> QED
      BY <3>4 DEF R, E
  <2>5. StrayBounded
    <3>1. \A c \in files : PagesOf(c) = Blocks(ctxs[c])
      BY OpenRing DEF PagesOf, Blocks
    <3>2. UNION {PagesOf(c) : c \in files} = OpenPages(ctxs, files)
      BY <3>1 DEF OpenPages
    <3> QED
      BY <3>2 DEF StrayBounded, BooksInv, Accounted, Memory
  <2> QED
    BY <2>1, <2>2, <2>4, <2>5 DEF MemoryInv, TypeOK
<1> QED
  BY BooksKept, <1>1, PTL

(* A block that is mapped holds its bytes behind the header.                *)
LEMMA BlockHolds ==
  ASSUME NEW m, NEW a, NEW s, Holds(m, a, s)
  PROVE  Header + s <= PageSize * Cardinality(BlockPages(a, s) \cap m.mapped)
<1> DEFINE p == PagesFor(s + Header)
<1>1. a \in Int /\ s \in Nat /\ BlockPages(a, s) \subseteq m.mapped
  BY DEF Holds, Addresses
<1>2. BlockPages(a, s) \cap m.mapped = a..(a + p - 1)
  BY <1>1 DEF BlockPages, PagesFrom
<1>3. \A z \in Nat : /\ (z + 4095) \div 4096 \in Nat
                     /\ Align(z, PageSize) \div PageSize = (z + 4095) \div 4096
                     /\ z <= 4096 * ((z + 4095) \div 4096)
  BY DEF Align, PageSize
<1>4. s + Header \in Nat /\ s + Header = s + 64
  BY <1>1 DEF Header
<1>5. p \in Nat /\ s + Header <= 4096 * p
  BY <1>3, <1>4 DEF PagesFor
<1> HIDE DEF p
<1>6. a + p - 1 \in Int
  BY <1>1, <1>5
<1>7. Cardinality(a..(a + p - 1)) = p
  <2>1. Cardinality(a..(a + p - 1)) = IF a > a + p - 1 THEN 0 ELSE (a + p - 1) - a + 1
    BY <1>1, <1>6, FS_Interval
  <2> QED
    BY <1>1, <1>5, <2>1
<1>8. Cardinality(BlockPages(a, s) \cap m.mapped) = p
  BY <1>2, <1>7, Zenon
<1>9. Header + s <= 4096 * p
  BY <1>1, <1>4, <1>5 DEF Header
<1> QED
  BY <1>8, <1>9 DEF PageSize

LEMMA ArrayBehindEntries ==
  ASSUME NEW sq \in Nat
  PROVE  /\ ArrayOffset(sq) \in Nat
         /\ RingsHeader + CqeSize * CqEntries(sq) <= ArrayOffset(sq)
         /\ ArrayOffset(sq) % Cacheline = 0
<1>1. \A z \in Nat : /\ ((z + 63) \div 64) * 64 \in Nat
                     /\ z <= ((z + 63) \div 64) * 64
                     /\ (((z + 63) \div 64) * 64) % 64 = 0
  OBVIOUS
<1> DEFINE z == RingsHeader + CqeSize * CqEntries(sq)
<1>2. z \in Nat
  BY DEF RingsHeader, CqeSize, CqEntries
<1>3. ArrayOffset(sq) = ((z + 63) \div 64) * 64
  BY <1>2 DEF ArrayOffset, Align, Cacheline
<1> HIDE DEF z
<1>4. ArrayOffset(sq) \in Nat /\ z <= ArrayOffset(sq) /\ ArrayOffset(sq) % 64 = 0
  BY <1>1, <1>2, <1>3
<1> QED
  BY <1>4 DEF z, Cacheline

(* For every request: an open ring has the least power of two of entries    *)
(* that is enough, up to the most there may be, and its parts lie apart, in *)
(* the pages that are mapped for it (ioring_create, iorings_size).          *)
THEOREM RingsLaidOut == Spec => []Layout
<1>1. RingsInv /\ BooksInv => Layout
  <2> SUFFICES ASSUME RingsInv, BooksInv, NEW c \in files
               PROVE  LET sq == ctxs[c].entries
                      IN /\ \E req \in Requests :
                              Clamped(req[1]) <= sq /\ sq < 2 * Clamped(req[1])
                         /\ \E b \in 0..15 : sq = 2^b
                         /\ RingsHeader + CqeSize * CqEntries(sq) <= ArrayOffset(sq)
                         /\ ArrayOffset(sq) % Cacheline = 0
                         /\ Header + ArrayOffset(sq) + 4 * sq
                              <= PageSize * Cardinality(RingsPages(c) \cap mapped)
                         /\ Header + SqesSize(sq)
                              <= PageSize * Cardinality(SqesPages(c) \cap mapped)
    BY DEF Layout
  <2> DEFINE sq == ctxs[c].entries
  <2>1. /\ Owns(Memory, ctxs[c])
        /\ RingsPages(c) = RingsBlock(ctxs[c]) /\ SqesPages(c) = SqesBlock(ctxs[c])
    BY OpenRing
  <2>2. PICK req \in Requests : req[1] \in Nat \ {0} /\ sq = SqEntries(req[1])
    BY OpenRing
  <2>3. /\ sq \in Nat
        /\ Clamped(req[1]) <= sq /\ sq < 2 * Clamped(req[1])
        /\ \E b \in 0..15 : sq = 2^b
    BY <2>2, EntriesFit
  <2>4. /\ Holds(Memory, ctxs[c].rings, RingsSize(sq)) /\ Holds(Memory, ctxs[c].sqes, SqesSize(sq))
        /\ RingsPages(c) = BlockPages(ctxs[c].rings, RingsSize(sq))
        /\ SqesPages(c) = BlockPages(ctxs[c].sqes, SqesSize(sq))
    BY <2>1 DEF Owns, RingsBlock, SqesBlock
  <2> HIDE DEF sq
  <2>5. /\ Header + RingsSize(sq) <= PageSize * Cardinality(RingsPages(c) \cap Memory.mapped)
        /\ Header + SqesSize(sq) <= PageSize * Cardinality(SqesPages(c) \cap Memory.mapped)
    BY <2>4, BlockHolds
  <2>6. Memory.mapped = mapped
    BY DEF Memory
  <2>7. /\ ArrayOffset(sq) \in Nat
        /\ RingsHeader + CqeSize * CqEntries(sq) <= ArrayOffset(sq)
        /\ ArrayOffset(sq) % Cacheline = 0
    BY <2>3, ArrayBehindEntries
  <2>8. Header + RingsSize(sq) = Header + ArrayOffset(sq) + 4 * sq
    BY <2>3, <2>7 DEF RingsSize, Header
  <2>9. /\ Header + ArrayOffset(sq) + 4 * sq
             <= PageSize * Cardinality(RingsPages(c) \cap mapped)
        /\ Header + SqesSize(sq) <= PageSize * Cardinality(SqesPages(c) \cap mapped)
    BY <2>5, <2>6, <2>8
  <2> QED
    BY <2>3, <2>7, <2>9 DEF sq
<1> QED
  BY BooksKept, <1>1, PTL
=============================================================================
