------------------------------- MODULE IoRings -------------------------------
(***************************************************************************)
(* The memory of iorings (backends/base/ioring_base.c): how many entries a *)
(* ring gets, how its parts are laid out, the pages that mem_alloc maps    *)
(* and mem_free unmaps, and the contexts of g_ioringv through every way    *)
(* ioring_setup can fail.  Sizes are in bytes, addresses in pages.         *)
(***************************************************************************)
EXTENDS Integers, FiniteSets

CONSTANTS
  NRings,    \* ARRAY_LEN(g_ioringv)
  Pages,     \* bound on the pages of the address space
  Requests,  \* what programs ask for: <<entries, P_IORING_SETUP_CLAMP>>
  MaxBig     \* bound on the releases counted by big

ASSUME IoRingsConstants ==
  /\ NRings \in Nat \ {0} /\ Pages \in Nat /\ MaxBig \in Nat
  /\ Requests \subseteq Nat \X BOOLEAN

VARIABLES
  mapped, \* pages that are mapped
  sizeAt, \* memalloc_header_t.size at the start of a page, 0 in other pages
  ctxs,   \* g_ioringv: whether flags is set, rings, sq_sqes, sq_entries
  count,  \* g_ioringc
  files,  \* contexts that have a virtual file
  big     \* history: blocks released whose header took a page of its own

vars == <<mapped, sizeAt, ctxs, count, files, big>>

NULL == -1
Slots == 0..(NRings - 1)
Addresses == 0..(Pages - 1)
Unused == [live |-> FALSE, rings |-> NULL, sqes |-> NULL, entries |-> 0]

Init ==
  /\ mapped = {} /\ sizeAt = [a \in Addresses |-> 0]
  /\ ctxs = [c \in Slots |-> Unused] /\ count = 0
  /\ files = {} /\ big = 0

-----------------------------------------------------------------------------
(* Sizes. *)

PageSize == 4096
Cacheline == 64
Header == 64        \* sizeof(memalloc_header_t)
RingsHeader == 320  \* sizeof(iorings_t)
CqeSize == 16
SqeSize == 64
MaxEntries == 32768 \* IORING_MAX_ENTRIES

(* fls: the last bit that is set, counted from 1. *)
IsLastBit(b, x) == 2^(b - 1) <= x /\ x < 2^b
Fls(x) == IF x = 0 THEN 0 ELSE CHOOSE b \in 1..32 : IsLastBit(b, x)

CeilPow2(n) == 2^Fls(n - 1)

Clamped(entries) == IF entries > MaxEntries THEN MaxEntries ELSE entries

(* The number of submission entries for a request that is not refused.      *)
SqEntries(entries) == CeilPow2(Clamped(entries))

CqEntries(sq) == 2 * sq

Align(x, a) == ((x + a - 1) \div a) * a

(* Mutant: the two numbers are passed in the other order. *)
ArrayOffsetSwapped(sq) == Align(RingsHeader + CqeSize * sq, Cacheline)

(* iorings_size: where sq_array is, behind the completion entries.          *)
ArrayOffset(sq) == Align(RingsHeader + CqeSize * CqEntries(sq), Cacheline)

RingsSize(sq) == ArrayOffset(sq) + 4 * sq
SqesSize(sq) == SqeSize * sq

PagesFor(size) == Align(size, PageSize) \div PageSize

-----------------------------------------------------------------------------
(* mem_alloc and mem_free, as functions of the memory m: the pages that are *)
(* mapped, the sizes in the headers, and how many big blocks were released. *)

Memory == [mapped |-> mapped, sizeAt |-> sizeAt, big |-> big]

PagesFrom(a, n) == a..(a + n - 1)

(* Where mmap may place a block: anywhere, and it may fail.                 *)
Places(m, size) ==
  {a \in Addresses : /\ PagesFrom(a, PagesFor(size + Header)) \subseteq Addresses
                     /\ PagesFrom(a, PagesFor(size + Header)) \cap m.mapped = {}}

MemAlloc(m, size, a) ==
  [m EXCEPT !.mapped = @ \cup PagesFrom(a, PagesFor(size + Header)), !.sizeAt[a] = size]

(* munmap(h, h->size): the size without the header. *)
Unmapped(m, a) == PagesFrom(a, PagesFor(m.sizeAt[a]))

MemFree(m, a) ==
  IF a = NULL THEN m
  ELSE [m EXCEPT
          !.mapped = @ \ Unmapped(m, a),
          !.sizeAt = [b \in Addresses |-> IF b \in Unmapped(m, a) THEN 0 ELSE @[b]],
          !.big = IF PagesFor(m.sizeAt[a] + Header) > PagesFor(m.sizeAt[a])
                  THEN @ + 1 ELSE @]

(* Mutant: ctx->sq_sqes is not freed. *)
CtxMemoryRings(m, x) == MemFree(m, x.rings)

(* What ioringctx_free does to the memory. *)
CtxMemory(m, x) == MemFree(MemFree(m, x.rings), x.sqes)

(* Mutant: ctx->sq_sqes = NULL is forgotten. *)
ClearedRings(x) == [x EXCEPT !.live = FALSE, !.rings = NULL]

(* entries is left as it was and means nothing: the model resets it.        *)
Cleared(x) == [x EXCEPT !.live = FALSE, !.rings = NULL, !.sqes = NULL, !.entries = 0]

(* Mutant: the last context goes alone. *)
CountOne(cs, n, c) == IF c = n - 1 THEN n - 1 ELSE n

(* The last context takes the free ones before it along.                    *)
CountAfter(cs, n, c) ==
  IF c # n - 1 THEN n
  ELSE CHOOSE k \in 0..n : /\ \A i \in k..(n - 1) : ~cs[i].live
                           /\ k > 0 => cs[k - 1].live

Becomes(m) == mapped' = m.mapped /\ sizeAt' = m.sizeAt /\ big' = m.big /\ big' <= MaxBig

(* ioringctx_free of a context that is x by now, in a table of n contexts.  *)
CtxFree(m, n, c, x) ==
  /\ Becomes(CtxMemory(m, x))
  /\ ctxs' = [ctxs EXCEPT ![c] = Cleared(x)]
  /\ count' = CountAfter(ctxs', n, c)

-----------------------------------------------------------------------------
(* _psys_ioring_setup.  The flags that are not supported, zero entries, and *)
(* too many without the clamp flag change nothing.                          *)
Accepted(req) == req[1] > 0 /\ (req[1] <= MaxEntries \/ req[2])

(* ioringctx_alloc, and sq_entries as alloc_rings sets it.                  *)
Allocated(req) ==
  [ctxs[count] EXCEPT !.live = TRUE, !.entries = SqEntries(req[1])]

(* The first mem_alloc fails: nothing of this setup is in the context yet.  *)
SetupNoRings(req) ==
  /\ Accepted(req) /\ count < NRings
  /\ CtxFree(Memory, count + 1, count, Allocated(req))
  /\ UNCHANGED files

(* The second one fails: alloc_rings frees the first block.                 *)
SetupNoSqes(req) ==
  /\ Accepted(req) /\ count < NRings
  /\ \E a \in Places(Memory, RingsSize(SqEntries(req[1]))) :
       LET m == MemAlloc(Memory, RingsSize(SqEntries(req[1])), a)
       IN CtxFree(MemFree(m, a), count + 1, count, [Allocated(req) EXCEPT !.rings = NULL])
  /\ UNCHANGED files

(* Both succeed; then vfile_open does, or the context is freed again.       *)
Setup(req) ==
  LET sq == SqEntries(req[1])
  IN /\ Accepted(req) /\ count < NRings
     /\ \E a \in Places(Memory, RingsSize(sq)) :
          LET m1 == MemAlloc(Memory, RingsSize(sq), a)
          IN \E b \in Places(m1, SqesSize(sq)) :
               LET m2 == MemAlloc(m1, SqesSize(sq), b)
                   x == [Allocated(req) EXCEPT !.rings = a, !.sqes = b]
               IN \/ /\ Becomes(m2)
                     /\ ctxs' = [ctxs EXCEPT ![count] = x]
                     /\ count' = count + 1 /\ files' = files \cup {count}
                  \/ CtxFree(m2, count + 1, count, x) /\ UNCHANGED files

(* _ioring_release *)
Release(c) ==
  /\ c \in files /\ files' = files \ {c}
  /\ CtxFree(Memory, count, c, ctxs[c])

Next == \/ \E req \in Requests : SetupNoRings(req) \/ SetupNoSqes(req) \/ Setup(req)
        \/ \E c \in Slots : Release(c)

Spec == Init /\ [][Next]_vars

-----------------------------------------------------------------------------
RingsPages(c) == PagesFrom(ctxs[c].rings, PagesFor(RingsSize(ctxs[c].entries) + Header))
SqesPages(c) == PagesFrom(ctxs[c].sqes, PagesFor(SqesSize(ctxs[c].entries) + Header))
PagesOf(c) == RingsPages(c) \cup SqesPages(c)

TypeOK ==
  /\ mapped \subseteq Addresses /\ sizeAt \in [Addresses -> Nat]
  /\ ctxs \in [Slots -> [live : BOOLEAN, rings : Addresses \cup {NULL},
                        sqes : Addresses \cup {NULL},
                        entries : {0} \cup {2^b : b \in 0..15}]]
  /\ count \in 0..NRings /\ files \subseteq Slots /\ big \in 0..MaxBig

(* However rings are set up, released and fail to be set up, the memory of  *)
(* a ring a program has open stays mapped, and is no other ring's: what     *)
(* _ioring_mmap has handed out is not pulled away by the release of another *)
(* ring or by the clean-up of a setup that failed in the same context.      *)
RingsMapped ==
  /\ \A c \in files : PagesOf(c) \subseteq mapped /\ RingsPages(c) \cap SqesPages(c) = {}
  /\ \A c, d \in files : c # d => PagesOf(c) \cap PagesOf(d) = {}

(* A failed setup and a release leave behind nothing of a ring except the   *)
(* page that mem_free does not count: one for each block that would fill    *)
(* its pages but for the header, as the entries of rings of 64 and more do. *)
StrayBounded == Cardinality(mapped \ UNION {PagesOf(c) : c \in files}) <= big

(* Through setups, setups that fail half-way and releases, what no open     *)
(* ring uses is given back, but for those pages.                            *)
MemoryInv == TypeOK /\ StrayBounded

(* A context is in use exactly while it has a virtual file, and the table   *)
(* shrinks as far as its last contexts are free: once the programs have     *)
(* closed their rings all contexts can be had again.                        *)
ContextsReclaimed ==
  /\ \A c \in Slots : ctxs[c].live <=> c \in files
  /\ count > 0 => count - 1 \in files

(* Each ring a program has open has the least power of two of entries that  *)
(* holds what was asked for, or 32768 if that was more; its completion      *)
(* entries and its submission array lie apart, the array begins a cache     *)
(* line, and all of it is in the memory mapped for it, behind the header.   *)
Layout ==
  \A c \in files :
    LET sq == ctxs[c].entries
    IN /\ \E req \in Requests : Clamped(req[1]) <= sq /\ sq < 2 * Clamped(req[1])
       /\ \E b \in 0..15 : sq = 2^b
       /\ RingsHeader + CqeSize * CqEntries(sq) <= ArrayOffset(sq)
       /\ ArrayOffset(sq) % Cacheline = 0
       /\ Header + ArrayOffset(sq) + 4 * sq <= PageSize * Cardinality(RingsPages(c) \cap mapped)
       /\ Header + SqesSize(sq) <= PageSize * Cardinality(SqesPages(c) \cap mapped)
=============================================================================
