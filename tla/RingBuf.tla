------------------------------ MODULE RingBuf ------------------------------
(***************************************************************************)
(* The ring buffer of backends/wgpu/src/ringbuf.c, which carries the       *)
(* messages of a GUI surface to the program that reads it.  r is the first *)
(* byte to read, w the last byte written (starting one before zero, in     *)
(* unsigned arithmetic), and both are offsets into a block of cap bytes.   *)
(***************************************************************************)
EXTENDS Integers, Sequences

CONSTANTS
  Word,        \* 2^32, the range of u32
  InitCap,     \* capacity given to p_ringbuf_init
  MaxCap,      \* bound on the capacity
  Growths,     \* pairs <<capacity, new capacity>> p_ringbuf_move is called with
  Bytes, Junk, \* byte values, and what memory never written holds
  MaxLen       \* bound on the bytes of one read or write

ASSUME RingConstants ==
  /\ InitCap \in Nat \ {0} /\ MaxCap \in Nat /\ InitCap <= MaxCap
  /\ Word \in Nat /\ 2 * MaxCap < Word
  /\ Word % InitCap = 0  \* 4096 divides 2^32
  /\ \A g \in Growths : g \in (1..MaxCap) \X (1..MaxCap) /\ g[1] < g[2]
  /\ Junk \notin Bytes
  /\ MaxLen \in Nat

VARIABLES r, w, cap, len, mem, ret

vars == <<r, w, cap, len, mem, ret>>

Offsets == 0..(MaxCap - 1)
Data == UNION {[1..n -> Bytes] : n \in 0..MaxLen}

Least(a, b) == IF a < b THEN a ELSE b
Ret(n, bytes) == [n |-> n, bytes |-> bytes]

(* p_ringbuf_init *)
Init ==
  /\ r = 0 /\ w = Word - 1 /\ cap = InitCap /\ len = 0
  /\ mem = [o \in Offsets |-> Junk]
  /\ ret = Ret(0, <<>>)

(* memcpy of the bytes of a sequence to offset at *)
CopyIn(m, at, bytes) ==
  [o \in DOMAIN m |->
     IF at <= o /\ o < at + Len(bytes) THEN bytes[o - at + 1] ELSE m[o]]

(* memcpy of n bytes from offset at *)
CopyOut(m, at, n) == [k \in 1..n |-> m[at + k - 1]]

-----------------------------------------------------------------------------
Start == (w + 1) % Word

(* How much of a wrapping transfer fits before the end of the block.        *)
FirstPart(from) == cap - from

Put(data, n) ==
  LET part == SubSeq(data, 1, n)
      n1 == FirstPart(Start)
  IN /\ mem' = IF Start + n > cap
               THEN CopyIn(CopyIn(mem, Start % cap, SubSeq(part, 1, n1)),
                           0, SubSeq(part, n1 + 1, n))
               ELSE CopyIn(mem, Start % cap, part)
     /\ w' = ((w + n) % Word) % cap
     /\ len' = len + n
     /\ ret' = Ret(n, <<>>)
     /\ UNCHANGED <<r, cap>>

Take(n) ==
  LET n1 == FirstPart(r)
  IN IF n = 0
     THEN ret' = Ret(0, <<>>) /\ UNCHANGED <<r, w, cap, len, mem>>
     ELSE /\ ret' = Ret(n, IF r + n > cap
                           THEN CopyOut(mem, r, n1) \o CopyOut(mem, 0, n - n1)
                           ELSE CopyOut(mem, r, n))
          /\ r' = (r + n) % cap
          /\ len' = len - n
          /\ UNCHANGED <<w, cap, mem>>

Accepted(n) == Least(cap - len, n)

Write(data) == Put(data, Accepted(Len(data)))
Read(n) == Take(Least(len, n))

WriteX(data) ==
  IF cap - len < Len(data)
  THEN ret' = Ret(0, <<>>) /\ UNCHANGED <<r, w, cap, len, mem>>
  ELSE Write(data)

ReadX(n) ==
  IF len < n
  THEN ret' = Ret(0, <<>>) /\ UNCHANGED <<r, w, cap, len, mem>>
  ELSE Read(n)

-----------------------------------------------------------------------------
(* p_ringbuf_move.  The chunk from r to the end of the block goes to the    *)
(* end of the new block with memcpy, whose outcome is undefined when the    *)
(* two overlap: copying upwards byte by byte repeats the first bytes.       *)

(* Mutant: b->r = newr is forgotten. *)
MovedReadForgotten(newcap) == r

MovedRead(newcap) == newcap - (cap - r)

(* Mutant: the chunk is taken from the start of the block. *)
FromStart(k, newcap) == k

(* A byte k into the chunk comes from here, copying downwards or upwards.   *)
FromBelow(k, newcap) == r + k
FromAbove(k, newcap) == r + (k % (newcap - cap))

MoveTo(newcap, From(_, _)) ==
  /\ IF w < r
     THEN LET newr == newcap - (cap - r)
          IN /\ mem' = [o \in Offsets |->
                          IF newr <= o /\ o < newcap
                          THEN mem[From(o - newr, newcap)] ELSE mem[o]]
             /\ r' = MovedRead(newcap)
     ELSE UNCHANGED <<mem, r>>
  /\ cap' = newcap
  /\ UNCHANGED <<w, len, ret>>

Move ==
  \E g \in Growths :
    /\ g[1] = cap
    /\ len > 0
    /\ MoveTo(g[2], FromBelow) \/ MoveTo(g[2], FromAbove)

Next == \/ \E data \in Data : Write(data) \/ WriteX(data)
        \/ \E n \in 0..MaxLen : Read(n) \/ ReadX(n)
        \/ Move

Spec == Init /\ [][Next]_vars

-----------------------------------------------------------------------------
TypeOK ==
  /\ cap \in InitCap..MaxCap /\ len \in 0..cap /\ r \in 0..(cap - 1)
  /\ w \in 0..(cap - 1) \cup {Word - 1}
  /\ mem \in [Offsets -> Bytes \cup {Junk}]
  /\ ret.n \in 0..MaxCap /\ ret.bytes \in Seq(Bytes)

(* The next byte is written right behind the last one to be read, whatever  *)
(* sequence of writes, reads and moves led here: r, w, len and cap are four *)
(* variables updated separately, the first of them by p_ringbuf_move.       *)
WriteFollowsData == Start % cap = (r + len) % cap

(* r, w and len stay within cap and agree with each other through every      *)
(* mixture of writes, reads and moves, unsigned wrap-around included.        *)
BufferInv == TypeOK /\ WriteFollowsData

(* The bytes the buffer stands for. *)
Queue == [k \in 1..len |-> mem[(r + k - 1) % cap]]

Abstract == INSTANCE ByteQueue WITH queue <- Queue

(* The ring implements the byte queue: nothing is lost, duplicated or       *)
(* reordered by wrapping around, and a move to a larger block loses at most *)
(* what lies further back in the queue than the block has grown.            *)
ImplementsByteQueue == Abstract!Spec

(* "move the read chunk over to the end so that we don't over-write it"     *)
(* (ringbuf.c:91): a move keeps every buffered byte.  It does when the      *)
(* block at least doubles, and not when it grows by less than the chunk.    *)
MoveKeepsAll == [][cap' # cap => Queue' = Queue]_vars
=============================================================================
