--------------------------- MODULE GuiSurfProofs ---------------------------
(***************************************************************************)
(* GUI surfaces, for every number of windows, capacity and limit of it,    *)
(* number of sizes and size of reads: windows, surfaces and the waiting    *)
(* read agree, and no message is torn or reordered on its way from a       *)
(* callback to the program, nor lost but by the growth of a buffer.        *)
(***************************************************************************)
EXTENDS GuiSurf, SequenceTheorems, TLAPS

Surface == [state : {"none", "open", "failed", "closed"}, window : BOOLEAN,
            shouldClose : BOOLEAN, cap : InitCap..MaxCap, q : Seq(Byte),
            grown : 0..MaxSizes, refused : BOOLEAN]
EventType == [kind : {"resize", "close", "mouse"}, surf : Surfs, size : 0..MaxSizes]
Waiting == [surf : Surfs, got : Seq(Byte), want : Nat, woken : BOOLEAN]

-----------------------------------------------------------------------------
(* Bytes and messages. *)

LEMMA MessageBytes ==
  ASSUME NEW k \in 1..MaxSizes
  PROVE  Header(k) \in Byte /\ Payload(k) \in Byte
BY DEF Header, Payload, Byte

(* What a message's two writes do to the bytes that are buffered. *)
LEMMA Joined ==
  ASSUME NEW u \in Seq(Byte), NEW x \in Byte, NEW y \in Byte
  PROVE  /\ Append(Append(u, x), y) \in Seq(Byte)
         /\ Len(Append(Append(u, x), y)) = Len(u) + 2
         /\ \A i \in 1..Len(u) : Append(Append(u, x), y)[i] = u[i]
         /\ Append(Append(u, x), y)[Len(u) + 1] = x
         /\ Append(Append(u, x), y)[Len(u) + 2] = y
<1>1. /\ Append(u, x) \in Seq(Byte) /\ Len(Append(u, x)) = Len(u) + 1
      /\ \A i \in 1..Len(u) : Append(u, x)[i] = u[i]
      /\ Append(u, x)[Len(u) + 1] = x
  BY AppendProperties
<1>2. Len(u) \in Nat
  BY LenProperties
<1> DEFINE v == Append(u, x)
<1> HIDE DEF v
<1>3. /\ v \in Seq(Byte) /\ Len(v) = Len(u) + 1
      /\ \A i \in 1..Len(u) : v[i] = u[i]
      /\ v[Len(u) + 1] = x
  BY <1>1 DEF v
<1>4. /\ Append(v, y) \in Seq(Byte) /\ Len(Append(v, y)) = Len(v) + 1
      /\ \A i \in 1..Len(v) : Append(v, y)[i] = v[i]
      /\ Append(v, y)[Len(v) + 1] = y
  BY <1>3, AppendProperties
<1> QED
  BY <1>2, <1>3, <1>4 DEF v

LEMMA JoinedAfter ==
  ASSUME NEW t \in Seq(Byte), NEW u \in Seq(Byte), NEW x \in Byte, NEW y \in Byte
  PROVE  t \o Append(Append(u, x), y) = Append(Append(t \o u, x), y)
<1> DEFINE m == <<x>> \o <<y>>
<1>1. /\ <<x>> \in Seq(Byte) /\ <<y>> \in Seq(Byte)
      /\ t \o u \in Seq(Byte)
  BY ConcatProperties
<1>2. \A v \in Seq(Byte) : Append(Append(v, x), y) = v \o m
  <2> SUFFICES ASSUME NEW v \in Seq(Byte)
               PROVE  Append(Append(v, x), y) = v \o m
    OBVIOUS
  <2>1. Append(v, x) = v \o <<x>> /\ Append(v, x) \in Seq(Byte)
    BY AppendIsConcat, AppendProperties
  <2>2. Append(Append(v, x), y) = Append(v, x) \o <<y>>
    BY <2>1, AppendIsConcat
  <2>3. (v \o <<x>>) \o <<y>> = v \o m
    BY <1>1, ConcatAssociative
  <2> QED
    BY <2>1, <2>2, <2>3, Zenon
<1>3. m \in Seq(Byte)
  BY <1>1, ConcatProperties
<1>4. Append(Append(u, x), y) = u \o m /\ Append(Append(t \o u, x), y) = (t \o u) \o m
  BY <1>1, <1>2
<1> HIDE DEF m
<1>5. (t \o u) \o m = t \o (u \o m)
  BY <1>3, ConcatAssociative
<1> QED
  BY <1>4, <1>5

LEMMA HalvesOfMessages ==
  ASSUME NEW k \in Nat
  PROVE  /\ (2 * k + 1) % 2 = 1 /\ (2 * k + 1 + 1) \div 2 = k + 1
         /\ (2 * k + 2) % 2 = 0 /\ (2 * k + 2) \div 2 = k + 1
OBVIOUS

LEMMA HalvesBound ==
  ASSUME NEW k \in Nat, NEW j \in 1..(2 * k)
  PROVE  /\ j % 2 = 1 => (j + 1) \div 2 \in 1..k
         /\ j % 2 # 1 => j \div 2 \in 1..k
<1>1. j % 2 \in {0, 1}
  OBVIOUS
<1>2. j = 2 * (j \div 2) + (j % 2)
  OBVIOUS
<1>3. j + 1 = 2 * ((j + 1) \div 2) + ((j + 1) % 2) /\ (j + 1) % 2 \in {0, 1}
  OBVIOUS
<1>4. j \div 2 \in Int /\ (j + 1) \div 2 \in Int
  OBVIOUS
<1>5. ASSUME j % 2 = 1 PROVE (j + 1) \div 2 \in 1..k
  BY <1>2, <1>3, <1>4, <1>5
<1>6. ASSUME j % 2 # 1 PROVE j \div 2 \in 1..k
  BY <1>1, <1>2, <1>4, <1>6
<1> QED
  BY <1>5, <1>6

LEMMA FramesBytes ==
  ASSUME NEW k \in 0..MaxSizes
  PROVE  /\ Frames(k) \in Seq(Byte)
         /\ Len(Frames(k)) = 2 * k
         /\ \A j \in 1..(2 * k) : Frames(k)[j] =
              IF j % 2 = 1 THEN Header((j + 1) \div 2) ELSE Payload(j \div 2)
<1>0. k \in Nat /\ MaxSizes \in Nat /\ k <= MaxSizes
  BY SurfConstants
<1> DEFINE F(j) == IF j % 2 = 1 THEN Header((j + 1) \div 2) ELSE Payload(j \div 2)
<1>1. ASSUME NEW j \in 1..(2 * k) PROVE F(j) \in Byte
  <2>1. /\ j % 2 = 1 => (j + 1) \div 2 \in 1..MaxSizes
        /\ j % 2 # 1 => j \div 2 \in 1..MaxSizes
    BY <1>0, HalvesBound
  <2> QED
    BY <2>1, MessageBytes
<1>2. Frames(k) = [j \in 1..(2 * k) |-> F(j)]
  BY DEF Frames, MsgSize
<1> HIDE DEF F
<1>3. 2 * k \in Nat
  BY <1>0
<1>4. Frames(k) \in [1..(2 * k) -> Byte]
  BY <1>1, <1>2
<1>5. Frames(k) \in Seq(Byte) /\ Len(Frames(k)) = 2 * k
  <2> DEFINE n == 2 * k
  <2> HIDE DEF n
  <2>1. n \in Nat /\ Frames(k) \in [1..n -> Byte]
    BY <1>3, <1>4 DEF n
  <2>2. Frames(k) \in Seq(Byte)
    BY <2>1, SeqDef
  <2>3. DOMAIN Frames(k) = 1..n /\ DOMAIN Frames(k) = 1..Len(Frames(k))
        /\ Len(Frames(k)) \in Nat
    BY <2>1, <2>2, LenProperties
  <2> QED
    BY <2>1, <2>2, <2>3 DEF n
<1> QED
  BY <1>2, <1>5 DEF F

(* One more message behind the first k. *)
LEMMA NextFrame ==
  ASSUME NEW k \in 0..(MaxSizes - 1)
  PROVE  Frames(k + 1) = Append(Append(Frames(k), Header(k + 1)), Payload(k + 1))
<1>0. k \in 0..MaxSizes /\ k + 1 \in 1..MaxSizes /\ k + 1 \in 0..MaxSizes /\ k \in Nat
  BY SurfConstants
<1> DEFINE f == Frames(k)
           g == Frames(k + 1)
           h == Append(Append(f, Header(k + 1)), Payload(k + 1))
<1>1. /\ f \in Seq(Byte) /\ Len(f) = 2 * k
      /\ \A j \in 1..(2 * k) : f[j] =
              IF j % 2 = 1 THEN Header((j + 1) \div 2) ELSE Payload(j \div 2)
  BY <1>0, FramesBytes
<1>2. /\ g \in Seq(Byte) /\ Len(g) = 2 * (k + 1)
      /\ \A j \in 1..(2 * (k + 1)) : g[j] =
              IF j % 2 = 1 THEN Header((j + 1) \div 2) ELSE Payload(j \div 2)
  BY <1>0, FramesBytes
<1>3. Header(k + 1) \in Byte /\ Payload(k + 1) \in Byte
  BY <1>0, MessageBytes
<1>4. /\ h \in Seq(Byte) /\ Len(h) = Len(f) + 2
      /\ \A j \in 1..Len(f) : h[j] = f[j]
      /\ h[Len(f) + 1] = Header(k + 1) /\ h[Len(f) + 2] = Payload(k + 1)
  BY <1>1, <1>3, Joined
<1>5. g[2 * k + 1] = Header(k + 1) /\ g[2 * k + 2] = Payload(k + 1)
  <2>1. 2 * k + 1 \in 1..(2 * (k + 1)) /\ 2 * k + 2 \in 1..(2 * (k + 1))
    BY <1>0
  <2>2. /\ (2 * k + 1) % 2 = 1 /\ (2 * k + 1 + 1) \div 2 = k + 1
        /\ (2 * k + 2) % 2 = 0 /\ (2 * k + 2) \div 2 = k + 1
    BY <1>0, HalvesOfMessages
  <2>3. g[2 * k + 1] = Header((2 * k + 1 + 1) \div 2)
    BY <1>2, <2>1, <2>2
  <2>4. g[2 * k + 2] = Payload((2 * k + 2) \div 2)
    BY <1>2, <2>1, <2>2
  <2> QED
    BY <2>2, <2>3, <2>4
<1> HIDE DEF f, g, h
<1>6. ASSUME NEW j \in 1..Len(g) PROVE g[j] = h[j]
  <2>1. j \in 1..(2 * k) \/ j = 2 * k + 1 \/ j = 2 * k + 2
    BY <1>0, <1>2
  <2>2. CASE j \in 1..(2 * k)
    <3>1. j \in 1..(2 * (k + 1))
      BY <1>0, <2>2
    <3>2. g[j] = f[j]
      BY <1>1, <1>2, <2>2, <3>1
    <3> QED
      BY <1>1, <1>4, <2>2, <3>2
  <2> QED
    BY <1>1, <1>4, <1>5, <2>1, <2>2
<1>7. Len(g) = Len(h)
  BY <1>0, <1>1, <1>2, <1>4
<1>8. g = h
  BY <1>2, <1>4, <1>6, <1>7, SeqEqual
<1> QED
  BY <1>8 DEF f, g, h

(* What a read takes and what it leaves are the whole. *)
LEMMA TakenAndLeft ==
  ASSUME NEW u \in Seq(Byte), NEW n \in Nat
  PROVE  /\ SubSeq(u, 1, Least(n, Len(u))) \in Seq(Byte)
         /\ SubSeq(u, n + 1, Len(u)) \in Seq(Byte)
         /\ Len(SubSeq(u, 1, Least(n, Len(u)))) <= n
         /\ Len(SubSeq(u, n + 1, Len(u))) <= Len(u)
         /\ SubSeq(u, 1, Least(n, Len(u))) \o SubSeq(u, n + 1, Len(u)) = u
<1>0. Len(u) \in Nat
  BY LenProperties
<1>1. \A i \in 1..Len(u) : u[i] \in Byte
  BY ElementOfSeq
<1> DEFINE a == Least(n, Len(u))
<1>2. a \in 0..Len(u) /\ a <= n /\ (n <= Len(u) => a = n) /\ (n > Len(u) => a = Len(u))
  BY <1>0 DEF Least
<1> HIDE DEF a
<1>3. /\ SubSeq(u, 1, a) \in Seq(Byte)
      /\ Len(SubSeq(u, 1, a)) = IF 1 <= a THEN a - 1 + 1 ELSE 0
  <2>1. \A i \in 1..a : u[i] \in Byte
    BY <1>0, <1>1, <1>2
  <2>2. a \in Int /\ 1 \in Int
    BY <1>2
  <2> QED
    BY <2>1, <2>2, SubSeqProperties
<1>4. /\ SubSeq(u, n + 1, Len(u)) \in Seq(Byte)
      /\ Len(SubSeq(u, n + 1, Len(u))) = IF n + 1 <= Len(u) THEN Len(u) - (n + 1) + 1 ELSE 0
  <2>1. \A i \in (n + 1)..Len(u) : u[i] \in Byte
    BY <1>0, <1>1
  <2>2. n + 1 \in Int /\ Len(u) \in Int
    BY <1>0
  <2> QED
    BY <2>1, <2>2, SubSeqProperties
<1>5. SubSeq(u, 1, a) \o SubSeq(u, n + 1, Len(u)) = u
  <2>1. CASE n <= Len(u)
    <3>1. a = n /\ n \in (1 - 1)..Len(u) /\ 1 \in 1..(Len(u) + 1) /\ Len(u) \in n..Len(u)
      BY <1>0, <1>2, <2>1
    <3>2. SubSeq(u, 1, n) \o SubSeq(u, n + 1, Len(u)) = SubSeq(u, 1, Len(u))
      BY <3>1, ConcatAdjacentSubSeq
    <3> QED
      BY <3>1, <3>2, SubSeqFull
  <2>2. CASE n > Len(u)
    <3>1. a = Len(u) /\ Len(u) < n + 1 /\ n + 1 \in Int /\ Len(u) \in Int
      BY <1>0, <1>2, <2>2
    <3>2. SubSeq(u, n + 1, Len(u)) = <<>>
      BY <3>1, SubSeqEmpty
    <3>3. SubSeq(u, 1, Len(u)) = u
      BY SubSeqFull
    <3> QED
      BY <3>1, <3>2, <3>3, ConcatEmptySeq
  <2>3. n <= Len(u) \/ n > Len(u)
    BY <1>0
  <2> QED
    BY <2>1, <2>2, <2>3
<1>6. Len(SubSeq(u, 1, a)) <= n /\ Len(SubSeq(u, n + 1, Len(u))) <= Len(u)
  BY <1>0, <1>2, <1>3, <1>4
<1> QED
  BY <1>3, <1>4, <1>5, <1>6, Zenon DEF a

-----------------------------------------------------------------------------
(* Posting. *)

(* What is buffered after a growth for the k-th message: the bytes there     *)
(* were, some of which may be lost.                                          *)
Worn(b, c, k) ==
  /\ c.q \in Seq(Byte) /\ Len(c.q) = Len(b.q)
  /\ c.grown \in {b.grown, k}
  /\ \A j \in 1..Len(b.q) : c.q[j] = b.q[j] \/ (c.q[j] = Lost /\ c.grown = k)

LEMMA RoomMade ==
  ASSUME NEW b \in Surface, NEW k \in 1..MaxSizes, NEW memory \in BOOLEAN, NEW lost,
         Len(b.q) <= b.cap
  PROVE  LET c == WithRoom(b, k, memory, lost)
         IN /\ c \in Surface /\ Len(c.q) <= c.cap /\ Worn(b, c, k)
            /\ c.state = b.state /\ c.window = b.window /\ c.shouldClose = b.shouldClose
            /\ b.refused => c.refused
            /\ ~c.refused => c.cap - Len(c.q) >= MsgSize
<1>0. /\ InitCap \in Nat /\ InitCap >= 2 /\ MaxCap \in Nat /\ MaxSizes \in Nat
      /\ b.q \in Seq(Byte) /\ Len(b.q) \in Nat /\ k \in 0..MaxSizes
      /\ b.cap \in InitCap..MaxCap /\ b.cap \in Nat /\ b.cap >= 2
  BY SurfConstants, LenProperties DEF Surface
<1>1. CASE b.cap - Len(b.q) >= MsgSize
  BY <1>0, <1>1 DEF WithRoom, MsgSize, Worn
<1>2. CASE b.cap - Len(b.q) < MsgSize /\ memory /\ NewCap(b) <= MaxCap
  <2> DEFINE u == Without(b.q, lost)
             c == [b EXCEPT !.cap = NewCap(b), !.q = u, !.grown = k]
  <2>1. WithRoom(b, k, memory, lost) = c
    BY <1>2 DEF WithRoom, Grown
  <2>2. NewCap(b) \in InitCap..MaxCap /\ NewCap(b) = b.cap + 2
    BY <1>0, <1>2 DEF NewCap, Least, MsgSize
  <2>3. /\ u \in Seq(Byte) /\ Len(u) = Len(b.q)
        /\ \A j \in 1..Len(b.q) : u[j] = b.q[j] \/ u[j] = Lost
    <3> DEFINE n == Len(b.q)
    <3>1. DOMAIN b.q = 1..n /\ n \in Nat /\ \A j \in 1..n : b.q[j] \in Byte
      BY <1>0, LenProperties, ElementOfSeq
    <3> HIDE DEF n
    <3>2. u = [j \in 1..n |-> IF j \in lost THEN Lost ELSE b.q[j]]
      BY <3>1 DEF Without
    <3>3. u \in [1..n -> Byte]
      BY <3>1, <3>2 DEF Byte
    <3>4. u \in Seq(Byte)
      BY <3>1, <3>3, SeqDef
    <3>5. Len(u) = n
      BY <3>1, <3>3, <3>4, LenProperties
    <3> QED
      BY <3>2, <3>4, <3>5 DEF n
  <2> HIDE DEF u
  <2>4. /\ c \in Surface /\ c.cap = b.cap + 2 /\ c.q = u /\ c.grown = k
        /\ c.state = b.state /\ c.window = b.window /\ c.shouldClose = b.shouldClose
        /\ c.refused = b.refused
    BY <1>0, <2>2, <2>3 DEF Surface
  <2> HIDE DEF c
  <2>5. c.cap - Len(c.q) >= MsgSize /\ Len(c.q) <= c.cap
    BY <1>0, <2>3, <2>4 DEF MsgSize
  <2>6. Worn(b, c, k)
    BY <2>3, <2>4 DEF Worn
  <2> QED
    BY <2>1, <2>4, <2>5, <2>6
<1>3. CASE b.cap - Len(b.q) < MsgSize /\ ~(memory /\ NewCap(b) <= MaxCap)
  <2> DEFINE c == [b EXCEPT !.refused = TRUE]
  <2>1. WithRoom(b, k, memory, lost) = c
    BY <1>3 DEF WithRoom, Grown
  <2>2. c \in Surface /\ c.refused /\ c.q = b.q /\ c.cap = b.cap /\ c.state = b.state
        /\ c.window = b.window /\ c.shouldClose = b.shouldClose /\ c.grown = b.grown
    BY DEF Surface
  <2> HIDE DEF c
  <2> QED
    BY <1>0, <2>1, <2>2 DEF Worn
<1>4. b.cap - Len(b.q) >= MsgSize \/ b.cap - Len(b.q) < MsgSize
  BY <1>0 DEF MsgSize
<1> QED
  BY <1>1, <1>2, <1>3, <1>4

LEMMA OneWritten ==
  ASSUME NEW b \in Surface, NEW x \in Byte, Len(b.q) <= b.cap
  PROVE  LET c == Written(b, x)
         IN /\ c \in Surface /\ Len(c.q) <= c.cap
            /\ c.state = b.state /\ c.window = b.window /\ c.shouldClose = b.shouldClose
            /\ c.refused = b.refused /\ c.cap = b.cap /\ c.grown = b.grown
            /\ b.cap - Len(b.q) >= 1 => c.q = Append(b.q, x) /\ Len(c.q) = Len(b.q) + 1
<1>0. b.q \in Seq(Byte) /\ Len(b.q) \in Nat /\ b.cap \in Nat
  BY SurfConstants, LenProperties DEF Surface
<1>1. Append(b.q, x) \in Seq(Byte) /\ Len(Append(b.q, x)) = Len(b.q) + 1
  BY <1>0, AppendProperties
<1>2. CASE Len(b.q) < b.cap
  <2> DEFINE c == [b EXCEPT !.q = Append(b.q, x)]
  <2>1. Written(b, x) = c
    BY <1>2 DEF Written
  <2>2. c \in Surface /\ c.q = Append(b.q, x) /\ c.cap = b.cap /\ c.state = b.state
        /\ c.window = b.window /\ c.shouldClose = b.shouldClose /\ c.refused = b.refused
        /\ c.grown = b.grown
    BY <1>1 DEF Surface
  <2> HIDE DEF c
  <2> QED
    BY <1>0, <1>1, <1>2, <2>1, <2>2
<1>3. CASE ~(Len(b.q) < b.cap)
  <2>1. Written(b, x) = b
    BY <1>3 DEF Written
  <2> QED
    BY <1>0, <1>3, <2>1
<1> QED
  BY <1>2, <1>3

(* A message is buffered whole, behind what is buffered, unless the buffer   *)
(* was refused a growth; if it grew, what was buffered is worn.              *)
Behind(b, c, k) ==
  \E d \in Surface : /\ Worn(b, d, k) /\ c.grown = d.grown
                     /\ c.q = Append(Append(d.q, Header(k)), Payload(k))

LEMMA MessagePosted ==
  ASSUME NEW b \in Surface, NEW k \in 1..MaxSizes, NEW memory \in BOOLEAN, NEW lost,
         Len(b.q) <= b.cap
  PROVE  LET c == Posted(b, k, memory, lost)
         IN /\ c \in Surface /\ Len(c.q) <= c.cap
            /\ c.state = b.state /\ c.window = b.window /\ c.shouldClose = b.shouldClose
            /\ b.refused => c.refused
            /\ ~c.refused => Behind(b, c, k)
<1>1. Header(k) \in Byte /\ Payload(k) \in Byte
  BY MessageBytes
<1> DEFINE d == WithRoom(b, k, memory, lost)
<1>2. /\ d \in Surface /\ Len(d.q) <= d.cap /\ Worn(b, d, k)
      /\ d.state = b.state /\ d.window = b.window /\ d.shouldClose = b.shouldClose
      /\ b.refused => d.refused
      /\ ~d.refused => d.cap - Len(d.q) >= MsgSize
  BY RoomMade
<1> HIDE DEF d
<1>3. d.cap \in Nat /\ Len(d.q) \in Nat
  BY <1>2, SurfConstants, LenProperties DEF Surface
<1> DEFINE e == Written(d, Header(k))
<1>5. /\ e \in Surface /\ Len(e.q) <= e.cap
      /\ e.state = d.state /\ e.window = d.window /\ e.shouldClose = d.shouldClose
      /\ e.refused = d.refused /\ e.cap = d.cap /\ e.grown = d.grown
      /\ d.cap - Len(d.q) >= 1 => e.q = Append(d.q, Header(k)) /\ Len(e.q) = Len(d.q) + 1
  BY <1>1, <1>2, OneWritten
<1> HIDE DEF e
<1> DEFINE c == Written(e, Payload(k))
<1>6. /\ c \in Surface /\ Len(c.q) <= c.cap
      /\ c.state = e.state /\ c.window = e.window /\ c.shouldClose = e.shouldClose
      /\ c.refused = e.refused /\ c.cap = e.cap /\ c.grown = e.grown
      /\ e.cap - Len(e.q) >= 1 => c.q = Append(e.q, Payload(k))
  BY <1>1, <1>5, OneWritten
<1>7. Posted(b, k, memory, lost) = c
  BY DEF Posted, c, d, e
<1> HIDE DEF c
<1>8. ~c.refused => c.q = Append(Append(d.q, Header(k)), Payload(k))
  <2> SUFFICES ASSUME ~c.refused
               PROVE  c.q = Append(Append(d.q, Header(k)), Payload(k))
    OBVIOUS
  <2>1. d.cap - Len(d.q) >= 2
    BY <1>2, <1>5, <1>6 DEF MsgSize
  <2>2. e.q = Append(d.q, Header(k)) /\ Len(e.q) = Len(d.q) + 1
    BY <1>3, <1>5, <2>1
  <2>3. e.cap - Len(e.q) >= 1
    BY <1>3, <1>5, <2>1, <2>2
  <2> QED
    BY <1>6, <2>2, <2>3
<1>9. ~c.refused => Behind(b, c, k)
  BY <1>2, <1>5, <1>6, <1>8 DEF Behind
<1> QED
  BY <1>2, <1>5, <1>6, <1>7, <1>9

LEMMA NoFrames == MessageStream(<<>>, 0, 0)
BY EmptySeq DEF MessageStream, MsgSize

(* Two streams that are alike but for lost bytes stay so with a message more. *)
Alike(c, f, n) ==
  /\ Len(c) = Len(f)
  /\ \A j \in 1..Len(f) : c[j] = f[j] \/ (c[j] = Lost /\ j <= n)

LEMMA JoinedAlike ==
  ASSUME NEW c \in Seq(Byte), NEW f \in Seq(Byte), NEW x \in Byte, NEW y \in Byte,
         NEW n, Alike(c, f, n)
  PROVE  Alike(Append(Append(c, x), y), Append(Append(f, x), y), n)
<1> DEFINE z == Append(Append(c, x), y)
           d == Append(Append(f, x), y)
<1>1. /\ z \in Seq(Byte) /\ Len(z) = Len(c) + 2
      /\ \A i \in 1..Len(c) : z[i] = c[i]
      /\ z[Len(c) + 1] = x /\ z[Len(c) + 2] = y
  BY Joined
<1>2. /\ Len(d) = Len(f) + 2 /\ \A i \in 1..Len(f) : d[i] = f[i]
      /\ d[Len(f) + 1] = x /\ d[Len(f) + 2] = y
  BY Joined
<1>3. Len(f) \in Nat
  BY LenProperties
<1> HIDE DEF z, d
<1>4. Len(c) = Len(f) /\ \A j \in 1..Len(f) : c[j] = f[j] \/ (c[j] = Lost /\ j <= n)
  BY DEF Alike
<1>5. ASSUME NEW j \in 1..(Len(f) + 2)
      PROVE  z[j] = d[j] \/ (z[j] = Lost /\ j <= n)
  <2>1. j \in 1..Len(f) \/ j = Len(f) + 1 \/ j = Len(f) + 2
    BY <1>3
  <2> QED
    BY <1>1, <1>2, <1>4, <2>1
<1>6. Alike(z, d, n)
  BY <1>1, <1>2, <1>4, <1>5 DEF Alike
<1> QED
  BY <1>6 DEF z, d

(* The elements of a concatenation of bytes.                                 *)
LEMMA JoinedBytes ==
  ASSUME NEW h \in Seq(Byte), NEW u \in Seq(Byte)
  PROVE  /\ h \o u \in Seq(Byte) /\ Len(h \o u) = Len(h) + Len(u)
         /\ \A j \in 1..(Len(h) + Len(u)) : (h \o u)[j] = IF j <= Len(h) THEN h[j] ELSE u[j - Len(h)]
<1> DEFINE S == Byte
<1>1. h \in Seq(S) /\ u \in Seq(S)
  OBVIOUS
<1> HIDE DEF S
<1>2. /\ h \o u \in Seq(S) /\ Len(h \o u) = Len(h) + Len(u)
      /\ \A j \in 1..(Len(h) + Len(u)) : (h \o u)[j] = IF j <= Len(h) THEN h[j] ELSE u[j - Len(h)]
  BY <1>1, ConcatProperties
<1> QED
  BY <1>2 DEF S

(* A stream of k messages, of which v is buffered, once one more is posted   *)
(* and v may have become u.                                                  *)
LEMMA StreamGoesOn ==
  ASSUME NEW k \in 0..(MaxSizes - 1), NEW g, NEW g2,
         NEW h \in Seq(Byte), NEW v \in Seq(Byte), NEW u \in Seq(Byte),
         MessageStream(h \o v, k, g),
         Len(u) = Len(v), g2 \in {g, k + 1},
         \A j \in 1..Len(v) : u[j] = v[j] \/ (u[j] = Lost /\ g2 = k + 1)
  PROVE  MessageStream(h \o Append(Append(u, Header(k + 1)), Payload(k + 1)), k + 1, g2)
<1> DEFINE x == Header(k + 1)
           y == Payload(k + 1)
           f == Frames(k)
           a == h \o v
           c == h \o u
           z == Append(Append(c, x), y)
<1>0. /\ k \in Nat /\ k \in 0..MaxSizes /\ k + 1 \in 1..MaxSizes
      /\ Len(h) \in Nat /\ Len(u) \in Nat /\ Len(v) \in Nat
  BY SurfConstants, LenProperties
<1>1. x \in Byte /\ y \in Byte
  BY <1>0, MessageBytes
<1>2. f \in Seq(Byte) /\ Len(f) = 2 * k
  BY <1>0, FramesBytes
<1>3. Frames(k + 1) = Append(Append(f, x), y)
  BY NextFrame
<1>4. /\ c \in Seq(Byte) /\ Len(c) = Len(h) + Len(u)
      /\ \A j \in 1..(Len(h) + Len(u)) : c[j] = IF j <= Len(h) THEN h[j] ELSE u[j - Len(h)]
  BY JoinedBytes
<1>5. /\ a \in Seq(Byte) /\ Len(a) = Len(h) + Len(v)
      /\ \A j \in 1..(Len(h) + Len(v)) : a[j] = IF j <= Len(h) THEN h[j] ELSE v[j - Len(h)]
  BY JoinedBytes
<1>6. /\ Len(a) = 2 * k
      /\ \A j \in 1..(2 * k) : a[j] = f[j] \/ (a[j] = Lost /\ j <= 2 * (g - 1))
  <2>1. DOMAIN a = 1..Len(a)
    BY <1>5, LenProperties
  <2> QED
    BY <2>1 DEF MessageStream, MsgSize
<1> HIDE DEF a, c, f, x, y
<1>7. h \o Append(Append(u, x), y) = z
  BY <1>1, JoinedAfter DEF c
<1>10. Len(c) = 2 * k
  BY <1>0, <1>4, <1>5, <1>6
<1>11. ASSUME NEW j \in 1..(2 * k)
       PROVE  c[j] = f[j] \/ (c[j] = Lost /\ j <= 2 * (g2 - 1))
  <2>1. a[j] = f[j] \/ (a[j] = Lost /\ j <= 2 * (g - 1))
    BY <1>6
  <2>2. c[j] = a[j] \/ (c[j] = Lost /\ g2 = k + 1)
    <3>1. CASE j <= Len(h)
      BY <1>0, <1>4, <1>5, <1>6, <3>1
    <3>2. CASE ~(j <= Len(h))
      <4>1. j - Len(h) \in 1..Len(v)
        BY <1>0, <1>5, <1>6, <3>2
      <4>2. c[j] = u[j - Len(h)] /\ a[j] = v[j - Len(h)]
        BY <1>0, <1>4, <1>5, <1>6, <3>2
      <4> QED
        BY <4>1, <4>2
    <3> QED
      BY <3>1, <3>2
  <2>3. g2 = k + 1 => j <= 2 * (g2 - 1)
    BY <1>0
  <2> QED
    BY <2>1, <2>2, <2>3
<1>12. Alike(c, f, 2 * (g2 - 1))
  BY <1>2, <1>10, <1>11 DEF Alike
<1>13. Alike(z, Frames(k + 1), 2 * (g2 - 1))
  BY <1>1, <1>2, <1>3, <1>4, <1>12, JoinedAlike
<1>14. z \in Seq(Byte) /\ Len(Frames(k + 1)) = 2 * (k + 1)
  BY <1>0, <1>1, <1>4, AppendProperties, FramesBytes
<1> HIDE DEF z
<1>15. DOMAIN z = 1..Len(Frames(k + 1)) /\ Len(z) = 2 * (k + 1)
  BY <1>13, <1>14, LenProperties DEF Alike
<1> QED
  BY <1>7, <1>13, <1>15 DEF Alike, MessageStream, MsgSize, x, y

-----------------------------------------------------------------------------
(* The sizes that are under way to a surface. *)

SizeFor(e, s) == e.kind = "resize" /\ e.surf = s

(* Of the sizes 1..n a window was given, those after the p-th are queued, in *)
(* order, each once.                                                        *)
UnderWay(ev, s, p, n) ==
  /\ p <= n
  /\ \A i \in 1..Len(ev) : SizeFor(ev[i], s) => ev[i].size \in (p + 1)..n
  /\ \A i, j \in 1..Len(ev) :
       SizeFor(ev[i], s) /\ SizeFor(ev[j], s) /\ i < j => ev[i].size < ev[j].size
  /\ \A k \in (p + 1)..n : \E i \in 1..Len(ev) : SizeFor(ev[i], s) /\ ev[i].size = k

LEMMA NoneUnderWay ==
  ASSUME NEW ev, NEW s, NEW p \in Nat, \A i \in 1..Len(ev) : ev[i].surf # s
  PROVE  UnderWay(ev, s, p, p)
BY DEF UnderWay, SizeFor

LEMMA EventsAppended ==
  ASSUME NEW ev \in Seq(EventType), NEW e \in EventType
  PROVE  /\ Append(ev, e) \in Seq(EventType) /\ Len(ev) \in Nat
         /\ Len(Append(ev, e)) = Len(ev) + 1
         /\ \A i \in 1..Len(ev) : Append(ev, e)[i] = ev[i]
         /\ Append(ev, e)[Len(ev) + 1] = e
         /\ \A i \in 1..(Len(ev) + 1) : i \in 1..Len(ev) \/ i = Len(ev) + 1
<1>1. Len(ev) \in Nat
  BY LenProperties
<1> QED
  BY <1>1, AppendProperties

LEMMA SizeQueued ==
  ASSUME NEW ev \in Seq(EventType), NEW e \in EventType, NEW s, NEW p \in Nat,
         NEW n \in Nat, UnderWay(ev, s, p, n), SizeFor(e, s), e.size = n + 1
  PROVE  UnderWay(Append(ev, e), s, p, n + 1)
<1> DEFINE f == Append(ev, e)
           l == Len(ev)
<1>1. /\ l \in Nat /\ Len(f) = l + 1
      /\ \A i \in 1..l : f[i] = ev[i]
      /\ f[l + 1] = e
  BY EventsAppended
<1> HIDE DEF f
<1>2. \A i \in 1..Len(f) : i \in 1..l \/ i = l + 1
  BY <1>1
<1>3. \A i \in 1..l : SizeFor(ev[i], s) => ev[i].size \in (p + 1)..n
  BY DEF UnderWay
<1>4. p <= n + 1
  BY DEF UnderWay
<1>5. ASSUME NEW i \in 1..Len(f), SizeFor(f[i], s) PROVE f[i].size \in (p + 1)..(n + 1)
  <2>1. CASE i \in 1..l
    <3>1. ev[i].size \in (p + 1)..n
      BY <1>1, <1>3, <1>5, <2>1
    <3> QED
      BY <1>1, <2>1, <3>1
  <2>2. CASE i = l + 1
    <3>1. p <= n
      BY DEF UnderWay
    <3> QED
      BY <1>1, <2>2, <3>1
  <2> QED
    BY <1>2, <2>1, <2>2
<1>6. ASSUME NEW i \in 1..Len(f), NEW j \in 1..Len(f), SizeFor(f[i], s),
             SizeFor(f[j], s), i < j
      PROVE  f[i].size < f[j].size
  <2>1. i \in 1..l
    BY <1>1, <1>6
  <2>2. f[i] = ev[i] /\ ev[i].size \in (p + 1)..n
    BY <1>1, <1>3, <1>6, <2>1
  <2>3. CASE j \in 1..l
    <3>1. f[j] = ev[j]
      BY <1>1, <2>3
    <3> QED
      BY <1>6, <2>1, <2>2, <2>3, <3>1 DEF UnderWay
  <2>4. CASE j = l + 1
    BY <1>1, <2>2, <2>4
  <2> QED
    BY <1>2, <2>3, <2>4
<1>7. ASSUME NEW k \in (p + 1)..(n + 1)
      PROVE  \E i \in 1..Len(f) : SizeFor(f[i], s) /\ f[i].size = k
  <2>1. CASE k = n + 1
    <3>1. l + 1 \in 1..Len(f)
      BY <1>1
    <3> QED
      BY <1>1, <2>1, <3>1
  <2>2. CASE k # n + 1
    <3>1. k \in (p + 1)..n
      BY <2>2
    <3>2. PICK i \in 1..l : SizeFor(ev[i], s) /\ ev[i].size = k
      BY <3>1 DEF UnderWay
    <3>3. i \in 1..Len(f) /\ f[i] = ev[i]
      BY <1>1
    <3> QED
      BY <3>2, <3>3
  <2> QED
    BY <2>1, <2>2
<1>8. UnderWay(f, s, p, n + 1)
  BY <1>4, <1>5, <1>6, <1>7 DEF UnderWay
<1> QED
  BY <1>8 DEF f

LEMMA OtherQueued ==
  ASSUME NEW ev \in Seq(EventType), NEW e \in EventType, NEW s, NEW p \in Nat,
         NEW n \in Nat, UnderWay(ev, s, p, n), ~SizeFor(e, s)
  PROVE  UnderWay(Append(ev, e), s, p, n)
<1> DEFINE f == Append(ev, e)
           l == Len(ev)
<1>1. /\ l \in Nat /\ Len(f) = l + 1
      /\ \A i \in 1..l : f[i] = ev[i]
      /\ f[l + 1] = e
  BY EventsAppended
<1> HIDE DEF f
<1>2. \A i \in 1..Len(f) : SizeFor(f[i], s) => i \in 1..l /\ f[i] = ev[i]
  BY <1>1
<1>3. \A i \in 1..l : i \in 1..Len(f) /\ f[i] = ev[i]
  BY <1>1
<1>4. UnderWay(f, s, p, n)
  BY <1>2, <1>3 DEF UnderWay
<1> QED
  BY <1>4 DEF f

LEMMA TailEvents ==
  ASSUME NEW ev \in Seq(EventType), ev # <<>>
  PROVE  /\ Head(ev) \in EventType /\ Head(ev) = ev[1] /\ 1 \in 1..Len(ev)
         /\ Tail(ev) \in Seq(EventType) /\ Len(Tail(ev)) = Len(ev) - 1
         /\ Len(ev) \in Nat
         /\ \A i \in 1..Len(Tail(ev)) : i + 1 \in 1..Len(ev) /\ Tail(ev)[i] = ev[i + 1]
         /\ \A i \in 1..Len(ev) : i # 1 => i - 1 \in 1..Len(Tail(ev))
                                           /\ Tail(ev)[i - 1] = ev[i]
<1>1. Len(ev) \in Nat \ {0}
  BY EmptySeq
<1>2. /\ Head(ev) \in EventType /\ Tail(ev) \in Seq(EventType)
      /\ Len(Tail(ev)) = Len(ev) - 1
      /\ \A i \in 1..Len(Tail(ev)) : Tail(ev)[i] = ev[i + 1]
  BY HeadTailProperties
<1>3. Head(ev) = ev[1]
  OBVIOUS
<1>4. \A i \in 1..Len(ev) : i # 1 => i - 1 \in 1..Len(Tail(ev))
  BY <1>1, <1>2
<1>5. \A i \in 1..Len(Tail(ev)) : i + 1 \in 1..Len(ev)
  BY <1>1, <1>2
<1>6. ASSUME NEW i \in 1..Len(ev), i # 1 PROVE Tail(ev)[i - 1] = ev[i]
  <2>1. Tail(ev)[i - 1] = ev[(i - 1) + 1]
    BY <1>2, <1>4, <1>6
  <2>2. (i - 1) + 1 = i
    OBVIOUS
  <2> QED
    BY <2>1, <2>2
<1> QED
  BY <1>1, <1>2, <1>3, <1>4, <1>5, <1>6

(* The first size in the queue is the one that follows what was posted.     *)
LEMMA SizeTaken ==
  ASSUME NEW ev \in Seq(EventType), ev # <<>>, NEW s, NEW p \in Nat, NEW n \in Nat,
         UnderWay(ev, s, p, n), SizeFor(Head(ev), s)
  PROVE  Head(ev).size = p + 1 /\ p + 1 <= n /\ UnderWay(Tail(ev), s, p + 1, n)
<1> DEFINE f == Tail(ev)
<1>1. /\ Head(ev) = ev[1] /\ 1 \in 1..Len(ev) /\ Len(ev) \in Nat
      /\ f \in Seq(EventType) /\ Len(f) = Len(ev) - 1
      /\ \A i \in 1..Len(f) : i + 1 \in 1..Len(ev) /\ f[i] = ev[i + 1]
      /\ \A i \in 1..Len(ev) : i # 1 => i - 1 \in 1..Len(f) /\ f[i - 1] = ev[i]
  BY TailEvents
<1> HIDE DEF f
<1>2. ev[1].size \in (p + 1)..n
  BY <1>1 DEF UnderWay
<1>3. p + 1 \in (p + 1)..n
  BY <1>2
<1>4. PICK m \in 1..Len(ev) : SizeFor(ev[m], s) /\ ev[m].size = p + 1
  BY <1>3 DEF UnderWay
<1>5. m = 1
  <2> SUFFICES ASSUME 1 < m PROVE FALSE
    OBVIOUS
  <2>1. ev[1].size < ev[m].size
    BY <1>1, <1>4 DEF UnderWay
  <2> QED
    BY <1>2, <1>4, <2>1
<1>6. ev[1].size = p + 1
  BY <1>4, <1>5
<1>7. ASSUME NEW i \in 1..Len(f), SizeFor(f[i], s) PROVE f[i].size \in (p + 1 + 1)..n
  <2>1. i + 1 \in 1..Len(ev) /\ f[i] = ev[i + 1] /\ 1 < i + 1
    BY <1>1
  <2>2. ev[1].size < ev[i + 1].size
    BY <1>1, <1>7, <2>1 DEF UnderWay
  <2>3. ev[i + 1].size \in (p + 1)..n
    BY <1>7, <2>1 DEF UnderWay
  <2> QED
    BY <1>6, <2>1, <2>2, <2>3
<1>8. ASSUME NEW i \in 1..Len(f), NEW j \in 1..Len(f), SizeFor(f[i], s),
             SizeFor(f[j], s), i < j
      PROVE  f[i].size < f[j].size
  <2>1. /\ i + 1 \in 1..Len(ev) /\ f[i] = ev[i + 1]
        /\ j + 1 \in 1..Len(ev) /\ f[j] = ev[j + 1] /\ i + 1 < j + 1
    BY <1>1, <1>8
  <2> QED
    BY <1>8, <2>1 DEF UnderWay
<1>9. ASSUME NEW k \in (p + 1 + 1)..n
      PROVE  \E i \in 1..Len(f) : SizeFor(f[i], s) /\ f[i].size = k
  <2>1. k \in (p + 1)..n /\ k # p + 1
    OBVIOUS
  <2>2. PICK i \in 1..Len(ev) : SizeFor(ev[i], s) /\ ev[i].size = k
    BY <2>1 DEF UnderWay
  <2>3. i # 1
    BY <1>6, <2>1, <2>2
  <2>4. i - 1 \in 1..Len(f) /\ f[i - 1] = ev[i]
    BY <1>1, <2>3
  <2> QED
    BY <2>2, <2>4
<1>10. p + 1 <= n
  BY <1>3
<1>11. UnderWay(f, s, p + 1, n)
  BY <1>7, <1>8, <1>9, <1>10 DEF UnderWay
<1> QED
  BY <1>1, <1>6, <1>10, <1>11 DEF f

LEMMA OtherTaken ==
  ASSUME NEW ev \in Seq(EventType), ev # <<>>, NEW s, NEW p \in Nat, NEW n \in Nat,
         UnderWay(ev, s, p, n), ~SizeFor(Head(ev), s)
  PROVE  UnderWay(Tail(ev), s, p, n)
<1> DEFINE f == Tail(ev)
<1>1. /\ Head(ev) = ev[1] /\ Len(ev) \in Nat
      /\ \A i \in 1..Len(f) : i + 1 \in 1..Len(ev) /\ f[i] = ev[i + 1]
      /\ \A i \in 1..Len(ev) : i # 1 => i - 1 \in 1..Len(f) /\ f[i - 1] = ev[i]
  BY TailEvents
<1> HIDE DEF f
<1>2. ASSUME NEW i \in 1..Len(f), SizeFor(f[i], s) PROVE f[i].size \in (p + 1)..n
  BY <1>1, <1>2 DEF UnderWay
<1>3. ASSUME NEW i \in 1..Len(f), NEW j \in 1..Len(f), SizeFor(f[i], s),
             SizeFor(f[j], s), i < j
      PROVE  f[i].size < f[j].size
  <2>1. /\ i + 1 \in 1..Len(ev) /\ f[i] = ev[i + 1]
        /\ j + 1 \in 1..Len(ev) /\ f[j] = ev[j + 1] /\ i + 1 < j + 1
    BY <1>1, <1>3
  <2> QED
    BY <1>3, <2>1 DEF UnderWay
<1>4. ASSUME NEW k \in (p + 1)..n
      PROVE  \E i \in 1..Len(f) : SizeFor(f[i], s) /\ f[i].size = k
  <2>1. PICK i \in 1..Len(ev) : SizeFor(ev[i], s) /\ ev[i].size = k
    BY DEF UnderWay
  <2>2. i # 1
    BY <1>1, <2>1
  <2>3. i - 1 \in 1..Len(f) /\ f[i - 1] = ev[i]
    BY <1>1, <2>2
  <2> QED
    BY <2>1, <2>3
<1>5. p <= n
  BY DEF UnderWay
<1>6. UnderWay(f, s, p, n)
  BY <1>2, <1>3, <1>4, <1>5 DEF UnderWay
<1> QED
  BY <1>6 DEF f

-----------------------------------------------------------------------------
(* The inductive invariant. *)

Typed ==
  /\ surf \in [Surfs -> Surface]
  /\ sizes \in [Surfs -> 0..MaxSizes]
  /\ posts \in [Surfs -> 0..MaxSizes]
  /\ received \in [Surfs -> Seq(Byte)]
  /\ events \in Seq(EventType) /\ Len(events) <= MaxEvents
  /\ reader \in Waiting \cup {Idle} /\ Len(reader.got) <= reader.want
  /\ wild \in BOOLEAN

BuffersFit == \A s \in Surfs : Len(surf[s].q) <= surf[s].cap

(* Nothing has happened yet to a surface that was never opened. *)
Unopened ==
  /\ \A s \in Surfs : surf[s].state = "none" =>
       /\ ~surf[s].window /\ ~surf[s].refused /\ surf[s].grown = 0
       /\ surf[s].q = <<>> /\ received[s] = <<>>
  /\ \A i \in 1..Len(events) : surf[events[i].surf].state # "none"

SizesInOrder ==
  \A s \in Surfs : surf[s].window /\ surf[s].state = "open" =>
    UnderWay(events, s, posts[s], sizes[s])

SurfInv ==
  Typed /\ BuffersFit /\ Unopened /\ SizesInOrder /\ WindowsOwned /\ StreamIntact

LEMMA IdleReader ==
  /\ Idle.surf = None /\ Idle.got = <<>> /\ Idle.want = 0 /\ ~Idle.woken
  /\ Len(Idle.got) = 0
  /\ \A s \in Surfs : Idle.surf # s
  /\ \A v \in Waiting : v # Idle /\ v.surf \in Surfs /\ v.got \in Seq(Byte) /\ v.want \in Nat
BY SurfConstants DEF Idle, None, Waiting

LEMMA EventSurfs ==
  ASSUME NEW ev \in Seq(EventType)
  PROVE  \A i \in 1..Len(ev) : ev[i] \in EventType /\ ev[i].surf \in Surfs
<1>1. \A i \in 1..Len(ev) : ev[i] \in EventType
  BY ElementOfSeq
<1> QED
  BY <1>1 DEF EventType

LEMMA SurfInit == Init => SurfInv
<1> SUFFICES ASSUME Init PROVE SurfInv
  OBVIOUS
<1> USE DEF Init
<1>0. MaxSizes \in Nat /\ MaxEvents \in Nat /\ InitCap \in InitCap..MaxCap /\ 0 <= InitCap
  BY SurfConstants
<1>1. <<>> \in Seq(Byte) /\ <<>> \in Seq(EventType)
  BY EmptySeq
<1>2. Typed
  <2>1. surf \in [Surfs -> Surface]
    BY <1>0, <1>1 DEF Surface
  <2>2. reader \in {Idle} /\ Len(reader.got) <= reader.want
    BY IdleReader
  <2>3. Len(<<>>) = 0 /\ 0 <= MaxEvents
    BY <1>0
  <2>4. sizes \in [Surfs -> 0..MaxSizes] /\ posts \in [Surfs -> 0..MaxSizes]
        /\ received \in [Surfs -> Seq(Byte)]
    BY <1>0, <1>1
  <2>5. reader \in Waiting \cup {Idle}
    BY <2>2
  <2>6. events \in Seq(EventType) /\ Len(events) <= MaxEvents
    BY <1>1, <2>3
  <2> QED
    BY <2>1, <2>2, <2>4, <2>5, <2>6 DEF Typed
<1>3. BuffersFit
  BY <1>0 DEF BuffersFit
<1>4. Unopened
  BY DEF Unopened
<1>5. SizesInOrder /\ StreamIntact
  BY DEF SizesInOrder, StreamIntact
<1>6. WindowsOwned
  BY DEF WindowsOwned
<1> QED
  BY <1>2, <1>3, <1>4, <1>5, <1>6 DEF SurfInv

LEMMA InvTypes ==
  ASSUME SurfInv, NEW s \in Surfs
  PROVE  /\ surf[s] \in Surface /\ surf[s].q \in Seq(Byte) /\ Len(surf[s].q) \in Nat
         /\ surf[s].window \in BOOLEAN /\ surf[s].refused \in BOOLEAN
         /\ received[s] \in Seq(Byte) /\ InCall(s) \in Seq(Byte)
         /\ posts[s] \in 0..MaxSizes /\ sizes[s] \in 0..MaxSizes
         /\ posts[s] \in Nat /\ sizes[s] \in Nat
<1>1. surf[s] \in Surface /\ received[s] \in Seq(Byte)
      /\ posts[s] \in 0..MaxSizes /\ sizes[s] \in 0..MaxSizes
  BY DEF SurfInv, Typed
<1>2. surf[s].q \in Seq(Byte) /\ surf[s].window \in BOOLEAN /\ surf[s].refused \in BOOLEAN
  BY <1>1 DEF Surface
<1>3. InCall(s) \in Seq(Byte)
  BY IdleReader, EmptySeq DEF SurfInv, Typed, InCall
<1> QED
  BY <1>1, <1>2, <1>3, LenProperties

(* Calls that change surfaces alone: opens and closes. *)

LEMMA OpenKeeps ==
  ASSUME SurfInv, NEW s \in Surfs, Open(s)
  PROVE  SurfInv'
<1> USE DEF Open
<1>0. /\ surf[s] \in Surface /\ 1 \in 1..MaxSizes /\ 1 \in 0..MaxSizes
      /\ Len(surf[s].q) <= surf[s].cap
  BY InvTypes, SurfConstants DEF SurfInv, BuffersFit
<1>1. /\ ~surf[s].window /\ ~surf[s].refused /\ surf[s].q = <<>> /\ received[s] = <<>>
      /\ surf[s].grown = 0
      /\ \A i \in 1..Len(events) : events[i].surf # s
  BY DEF SurfInv, Unopened
<1>2. reader = Idle /\ ~wild
  BY DEF InProgram
<1>3. PICK memory \in BOOLEAN :
        surf' = [surf EXCEPT ![s] = [Posted(@, 1, memory, {}) EXCEPT !.state = "open",
                                                                     !.window = TRUE]]
  OBVIOUS
<1> DEFINE c == Posted(surf[s], 1, memory, {})
           d == [c EXCEPT !.state = "open", !.window = TRUE]
<1>4. /\ c \in Surface /\ Len(c.q) <= c.cap
      /\ ~c.refused => Behind(surf[s], c, 1)
  BY <1>0, MessagePosted
<1>5. surf' = [surf EXCEPT ![s] = d]
  BY <1>3
<1> HIDE DEF c
<1>6. /\ d \in Surface /\ d.q = c.q /\ d.cap = c.cap /\ d.refused = c.refused
      /\ d.grown = c.grown
      /\ d.state = "open" /\ d.window
  BY <1>4 DEF Surface
<1> HIDE DEF d
<1>7. surf'[s] = d /\ \A t \in Surfs : t # s => surf'[t] = surf[t]
  BY <1>5 DEF SurfInv, Typed
<1>8. Typed'
  BY <1>0, <1>5, <1>6 DEF SurfInv, Typed
<1>9. BuffersFit'
  BY <1>4, <1>6, <1>7 DEF SurfInv, BuffersFit
<1>10. Unopened'
  <2>1. \A t \in Surfs : surf'[t].state = "none" => t # s
    BY <1>6, <1>7
  <2>2. \A i \in 1..Len(events) : events[i].surf \in Surfs
    BY EventSurfs DEF SurfInv, Typed
  <2>3. \A t \in Surfs : t # s => received'[t] = received[t]
    OBVIOUS
  <2> QED
    BY <1>1, <1>7, <2>1, <2>2, <2>3 DEF SurfInv, Unopened
<1>11. SizesInOrder'
  <2>1. UnderWay(events, s, 1, 1)
    BY <1>1, NoneUnderWay
  <2>2. posts'[s] = 1 /\ sizes'[s] = 1
    BY DEF SurfInv, Typed
  <2>3. \A t \in Surfs : t # s => posts'[t] = posts[t] /\ sizes'[t] = sizes[t]
    BY DEF SurfInv, Typed
  <2> QED
    BY <1>7, <2>1, <2>2, <2>3 DEF SurfInv, SizesInOrder
<1>12. WindowsOwned'
  BY <1>2, <1>6, <1>7 DEF SurfInv, WindowsOwned
<1>13. StreamIntact'
  <2> SUFFICES ASSUME NEW t \in Surfs, surf'[t].window, surf'[t].state = "open",
                      ~surf'[t].refused
               PROVE  MessageStream(received'[t] \o InCall(t)' \o surf'[t].q,
                                    posts'[t], surf'[t].grown)
    BY DEF StreamIntact
  <2>1. CASE t = s
    <3>1. received'[s] = <<>> /\ InCall(s)' = <<>> /\ posts'[s] = 1
      BY <1>1, <1>2, IdleReader DEF SurfInv, Typed, InCall
    <3>2. ~c.refused
      BY <1>6, <1>7, <2>1
    <3>3. PICK e \in Surface :
            /\ Worn(surf[s], e, 1) /\ c.grown = e.grown
            /\ c.q = Append(Append(e.q, Header(1)), Payload(1))
      BY <1>4, <3>2 DEF Behind
    <3>4. e.q \in Seq(Byte) /\ Len(e.q) = 0 /\ e.grown \in {0, 1} /\ Len(<<>>) = 0
          /\ <<>> \in Seq(Byte) /\ <<>> \o <<>> = <<>>
      BY <1>1, <3>3, EmptySeq, ConcatEmptySeq DEF Worn
    <3>5. 0 \in 0..(MaxSizes - 1) /\ 0 + 1 = 1
      BY SurfConstants
    <3>6. MessageStream(<<>> \o <<>>, 0, 0)
      BY <3>4, NoFrames
    <3>7. MessageStream(<<>> \o Append(Append(e.q, Header(0 + 1)), Payload(0 + 1)),
                        0 + 1, e.grown)
      <4> DEFINE nil == <<>>
      <4>1. /\ nil \in Seq(Byte) /\ Len(nil) = 0 /\ Len(e.q) = Len(nil)
            /\ MessageStream(nil \o nil, 0, 0) /\ e.q \in Seq(Byte)
            /\ e.grown \in {0, 0 + 1}
        BY <3>4, <3>6
      <4>2. \A j \in 1..Len(nil) :
              e.q[j] = nil[j] \/ (e.q[j] = Lost /\ e.grown = 0 + 1)
        BY <4>1
      <4> HIDE DEF nil
      <4>3. MessageStream(nil \o Append(Append(e.q, Header(0 + 1)), Payload(0 + 1)),
                          0 + 1, e.grown)
        BY <3>5, <4>1, <4>2, StreamGoesOn, ZenonT(60)
      <4> QED
        BY <4>3 DEF nil
    <3>8. surf'[s].q = Append(Append(e.q, Header(1)), Payload(1)) /\ surf'[s].grown = e.grown
      BY <1>6, <1>7, <3>3
    <3> QED
      BY <2>1, <3>1, <3>4, <3>5, <3>7, <3>8, Zenon
  <2>2. CASE t # s
    <3>1. received'[t] = received[t] /\ InCall(t)' = InCall(t) /\ posts'[t] = posts[t]
          /\ surf'[t] = surf[t]
      BY <1>7, <2>2 DEF SurfInv, Typed, InCall
    <3> QED
      BY <3>1 DEF SurfInv, StreamIntact
  <2> QED
    BY <2>1, <2>2
<1> QED
  BY <1>8, <1>9, <1>10, <1>11, <1>12, <1>13 DEF SurfInv

(* A surface that is changed, but whose window shows nothing open any more. *)
Shut(b) == b.state # "none" /\ (b.window => b.state = "failed")

LEMMA ShutKeeps ==
  ASSUME SurfInv, NEW s \in Surfs, NEW b \in Surface, InProgram,
         Len(b.q) <= b.cap, Shut(b),
         surf' = [surf EXCEPT ![s] = b],
         reader' = Idle, received' = received,
         UNCHANGED <<sizes, events, posts, wild>>
  PROVE  SurfInv'
<1>1. surf'[s] = b /\ \A t \in Surfs : t # s => surf'[t] = surf[t]
  BY DEF SurfInv, Typed
<1>2. reader = Idle /\ ~wild
  BY DEF InProgram
<1>3. Typed'
  BY IdleReader DEF SurfInv, Typed
<1>4. BuffersFit'
  BY <1>1 DEF SurfInv, BuffersFit
<1>5. Unopened'
  <2>1. \A i \in 1..Len(events) : events[i].surf \in Surfs
    BY EventSurfs DEF SurfInv, Typed
  <2> QED
    BY <1>1, <2>1 DEF SurfInv, Unopened, Shut
<1>6. SizesInOrder'
  BY <1>1 DEF SurfInv, SizesInOrder, Shut
<1>7. WindowsOwned'
  BY <1>1, <1>2 DEF SurfInv, WindowsOwned, Shut
<1>8. StreamIntact'
  <2>1. \A t \in Surfs : InCall(t)' = InCall(t)
    BY <1>2 DEF InCall
  <2> QED
    BY <1>1, <2>1 DEF SurfInv, StreamIntact, Shut
<1> QED
  BY <1>3, <1>4, <1>5, <1>6, <1>7, <1>8 DEF SurfInv

LEMMA OpenFailsKeeps ==
  ASSUME SurfInv, NEW s \in Surfs, OpenFails(s)
  PROVE  SurfInv'
<1> USE DEF OpenFails
<1>1. PICK window \in BOOLEAN :
        surf' = [surf EXCEPT ![s] = [@ EXCEPT !.state = "failed", !.window = window]]
  OBVIOUS
<1> DEFINE b == [surf[s] EXCEPT !.state = "failed", !.window = window]
<1>2. surf[s] \in Surface /\ Len(surf[s].q) <= surf[s].cap
  BY InvTypes DEF SurfInv, BuffersFit
<1>3. b \in Surface /\ b.q = surf[s].q /\ b.cap = surf[s].cap /\ b.refused = surf[s].refused
      /\ b.state = "failed"
  BY <1>2 DEF Surface
<1>4. surf' = [surf EXCEPT ![s] = b]
  BY <1>1
<1> HIDE DEF b
<1>5. Len(b.q) <= b.cap /\ Shut(b)
  BY <1>2, <1>3 DEF Shut
<1> QED
  BY <1>3, <1>4, <1>5, ShutKeeps DEF InProgram

LEMMA CloseKeeps ==
  ASSUME SurfInv, NEW s \in Surfs, Close(s)
  PROVE  SurfInv'
<1> USE DEF Close
<1> DEFINE b == [Destroyed(surf[s]) EXCEPT !.state = "closed", !.q = <<>>]
<1>1. surf[s] \in Surface
  BY InvTypes
<1>2. <<>> \in Seq(Byte) /\ Len(<<>>) = 0
  BY EmptySeq
<1>3. b \in Surface /\ b.q = <<>> /\ b.state = "closed" /\ ~b.window
  BY <1>1, <1>2 DEF Surface, Destroyed
<1>4. surf' = [surf EXCEPT ![s] = b]
  OBVIOUS
<1> HIDE DEF b
<1>5. b.cap \in InitCap..MaxCap
  BY <1>3 DEF Surface
<1>6. Len(b.q) <= b.cap /\ Shut(b)
  BY <1>2, <1>3, <1>5, SurfConstants DEF Shut
<1> QED
  BY <1>3, <1>4, <1>6, ShutKeeps DEF InProgram

-----------------------------------------------------------------------------
(* The window system. *)

LEMMA EventKeeps ==
  ASSUME SurfInv, NEW s \in Surfs, NEW kind \in {"resize", "close", "mouse"},
         NEW k \in 0..MaxSizes, Event(kind, s, k),
         \/ kind = "resize" /\ k = sizes[s] + 1 /\ sizes' = [sizes EXCEPT ![s] = k]
         \/ kind # "resize" /\ sizes' = sizes
  PROVE  SurfInv'
<1> USE DEF Event
<1> DEFINE e == [kind |-> kind, surf |-> s, size |-> k]
<1>1. e \in EventType /\ e.kind = kind /\ e.surf = s /\ e.size = k
  BY DEF EventType
<1>2. events \in Seq(EventType) /\ MaxEvents \in Nat /\ Len(events) < MaxEvents
      /\ events' = Append(events, e)
  BY SurfConstants DEF SurfInv, Typed
<1> HIDE DEF e
<1>3. /\ events' \in Seq(EventType) /\ Len(events) \in Nat
      /\ Len(events') = Len(events) + 1
      /\ \A i \in 1..Len(events) : events'[i] = events[i]
      /\ events'[Len(events) + 1] = e
      /\ \A i \in 1..(Len(events) + 1) : i \in 1..Len(events) \/ i = Len(events) + 1
  BY <1>1, <1>2, EventsAppended
<1>4. sizes' \in [Surfs -> 0..MaxSizes]
  BY DEF SurfInv, Typed
<1>5. Typed'
  <2>1. Len(events') <= MaxEvents
    BY <1>2, <1>3
  <2> QED
    BY <1>3, <1>4, <2>1 DEF SurfInv, Typed
<1>6. BuffersFit'
  BY DEF SurfInv, BuffersFit
<1>7. Unopened'
  <2>1. surf[s].state # "none"
    BY DEF SurfInv, Unopened
  <2> QED
    BY <1>1, <1>3, <2>1 DEF SurfInv, Unopened
<1>8. SizesInOrder'
  <2> SUFFICES ASSUME NEW t \in Surfs, surf[t].window, surf[t].state = "open"
               PROVE  UnderWay(events', t, posts[t], sizes'[t])
    BY DEF SizesInOrder
  <2>1. UnderWay(events, t, posts[t], sizes[t]) /\ posts[t] \in Nat /\ sizes[t] \in Nat
    BY InvTypes DEF SurfInv, SizesInOrder
  <2>2. CASE SizeFor(e, t)
    <3>1. t = s /\ kind = "resize" /\ k = sizes[s] + 1
      BY <1>1, <2>2 DEF SizeFor
    <3>2. sizes'[t] = sizes[t] + 1 /\ e.size = sizes[t] + 1
      BY <1>1, <3>1 DEF SurfInv, Typed
    <3> QED
      BY <1>1, <1>2, <2>1, <2>2, <3>2, SizeQueued
  <2>3. CASE ~SizeFor(e, t)
    <3>1. sizes'[t] = sizes[t]
      BY <1>1, <2>3 DEF SurfInv, Typed, SizeFor
    <3> QED
      BY <1>1, <1>2, <2>1, <2>3, <3>1, OtherQueued
  <2> QED
    BY <2>2, <2>3
<1>9. WindowsOwned'
  BY DEF SurfInv, WindowsOwned
<1>10. StreamIntact'
  BY DEF SurfInv, StreamIntact, InCall
<1> QED
  BY <1>5, <1>6, <1>7, <1>8, <1>9, <1>10 DEF SurfInv

LEMMA WindowEventKeeps ==
  ASSUME SurfInv, NEW s \in Surfs, Resize(s) \/ ClickClose(s) \/ MoveMouse(s)
  PROVE  SurfInv'
<1>1. sizes[s] \in 0..MaxSizes /\ MaxSizes \in Nat
  BY InvTypes, SurfConstants
<1>2. CASE Resize(s)
  <2>1. sizes[s] + 1 \in 0..MaxSizes
    BY <1>1, <1>2 DEF Resize
  <2>2. sizes' = [sizes EXCEPT ![s] = sizes[s] + 1] /\ Event("resize", s, sizes[s] + 1)
    BY <1>2 DEF Resize
  <2> QED
    BY <2>1, <2>2, EventKeeps
<1>3. CASE ClickClose(s)
  <2>1. 0 \in 0..MaxSizes /\ Event("close", s, 0) /\ sizes' = sizes
    BY <1>1, <1>3 DEF ClickClose
  <2> QED
    BY <2>1, EventKeeps
<1>4. CASE MoveMouse(s)
  <2>1. 0 \in 0..MaxSizes /\ Event("mouse", s, 0) /\ sizes' = sizes
    BY <1>1, <1>4 DEF MoveMouse
  <2> QED
    BY <2>1, EventKeeps
<1> QED
  BY <1>2, <1>3, <1>4

-----------------------------------------------------------------------------
(* Reads.  Bytes go from the buffer to the call and from the call to the    *)
(* program, and none on the way.                                            *)

LEMMA BytesMove ==
  ASSUME SurfInv, NEW s \in Surfs, surf[s].window, surf[s].state = "open",
         NEW u \in Seq(Byte), Len(u) <= Len(surf[s].q),
         surf' = [surf EXCEPT ![s].q = u],
         reader \in {Idle} \/ reader.surf = s,
         reader' \in Waiting \cup {Idle}, Len(reader'.got) <= reader'.want,
         reader' = Idle \/ reader'.surf = s,
         NEW v \in Seq(Byte), received' = [received EXCEPT ![s] = @ \o v],
         received'[s] \o InCall(s)' \o u = received[s] \o InCall(s) \o surf[s].q,
         UNCHANGED <<sizes, events, posts, wild>>
  PROVE  SurfInv'
<1>1. /\ surf[s] \in Surface /\ received[s] \in Seq(Byte)
      /\ surf[s].q \in Seq(Byte) /\ Len(surf[s].q) \in Nat
      /\ Len(surf[s].q) <= surf[s].cap
  BY InvTypes DEF SurfInv, BuffersFit
<1> DEFINE b == [surf[s] EXCEPT !.q = u]
<1>2. /\ b \in Surface /\ b.q = u /\ b.cap = surf[s].cap /\ b.refused = surf[s].refused
      /\ b.grown = surf[s].grown /\ b.state = "open" /\ b.window
  BY <1>1 DEF Surface
<1>3. surf' = [surf EXCEPT ![s] = b]
  OBVIOUS
<1> HIDE DEF b
<1>4. surf'[s] = b /\ \A t \in Surfs : t # s => surf'[t] = surf[t]
  BY <1>3 DEF SurfInv, Typed
<1>5. received[s] \o v \in Seq(Byte)
  BY <1>1, ConcatProperties
<1>6. \A t \in Surfs : t # s => received'[t] = received[t] /\ InCall(t)' = InCall(t)
  BY IdleReader DEF SurfInv, Typed, InCall
<1>7. Typed'
  <2>1. surf' \in [Surfs -> Surface]
    BY <1>2, <1>3 DEF SurfInv, Typed
  <2>2. received' \in [Surfs -> Seq(Byte)]
    BY <1>5 DEF SurfInv, Typed
  <2> QED
    BY <2>1, <2>2 DEF SurfInv, Typed
<1>8. BuffersFit'
  <2>1. Len(b.q) <= b.cap
    <3>1. b.cap \in Nat /\ Len(u) \in Nat
      BY <1>2, SurfConstants, LenProperties DEF Surface
    <3> QED
      BY <1>1, <1>2, <3>1
  <2> QED
    BY <1>4, <2>1 DEF SurfInv, BuffersFit
<1>9. Unopened'
  <2>1. \A i \in 1..Len(events) : events[i].surf \in Surfs
    BY EventSurfs DEF SurfInv, Typed
  <2>2. \A t \in Surfs : surf'[t].state = "none" => t # s
    BY <1>2, <1>4
  <2> QED
    BY <1>2, <1>4, <1>6, <2>1, <2>2 DEF SurfInv, Unopened
<1>10. SizesInOrder'
  BY <1>2, <1>4 DEF SurfInv, SizesInOrder
<1>11. WindowsOwned'
  <2>1. \A t \in Surfs : surf'[t].window = surf[t].window /\ surf'[t].state = surf[t].state
    BY <1>2, <1>4
  <2> QED
    BY <2>1, IdleReader DEF SurfInv, WindowsOwned
<1>12. StreamIntact'
  <2> SUFFICES ASSUME NEW t \in Surfs, surf'[t].window, surf'[t].state = "open",
                      ~surf'[t].refused
               PROVE  MessageStream(received'[t] \o InCall(t)' \o surf'[t].q,
                                    posts'[t], surf'[t].grown)
    BY DEF StreamIntact
  <2>1. CASE t = s
    <3>1. MessageStream(received[s] \o InCall(s) \o surf[s].q, posts[s], surf[s].grown)
      BY <1>2, <1>4, <2>1 DEF SurfInv, StreamIntact
    <3>2. surf'[s].q = u /\ posts'[s] = posts[s] /\ surf'[s].grown = surf[s].grown
      BY <1>2, <1>4
    <3> QED
      BY <2>1, <3>1, <3>2, Zenon
  <2>2. CASE t # s
    BY <1>4, <1>6, <2>2 DEF SurfInv, StreamIntact
  <2> QED
    BY <2>1, <2>2
<1> QED
  BY <1>7, <1>8, <1>9, <1>10, <1>11, <1>12 DEF SurfInv

LEMMA Regrouped ==
  \A t, u, x \in Seq(Byte) : (t \o u) \o x = t \o (u \o x)
BY ConcatAssociative

LEMMA ReadGoneKeeps ==
  ASSUME SurfInv, NEW s \in Surfs, ReadGone(s)
  PROVE  SurfInv'
<1> USE DEF ReadGone, Returns
<1>1. received' = received
  <2>1. received[s] \o <<>> = received[s]
    BY InvTypes, ConcatEmptySeq
  <2> QED
    BY <2>1 DEF SurfInv, Typed
<1>2. reader' = reader
  BY DEF InProgram
<1>3. Typed' /\ BuffersFit' /\ Unopened'
  BY <1>1, <1>2 DEF SurfInv, Typed, BuffersFit, Unopened
<1>4. SizesInOrder' /\ WindowsOwned' /\ StreamIntact'
  BY <1>1, <1>2 DEF SurfInv, SizesInOrder, WindowsOwned, StreamIntact, InCall
<1> QED
  BY <1>3, <1>4 DEF SurfInv

LEMMA TakesAndLeaves ==
  ASSUME SurfInv, NEW s \in Surfs, NEW n \in Nat
  PROVE  /\ Taken(s, n) \in Seq(Byte) /\ Left(s, n) \in Seq(Byte)
         /\ Len(Taken(s, n)) <= n /\ Len(Left(s, n)) <= Len(surf[s].q)
         /\ Taken(s, n) \o Left(s, n) = surf[s].q
<1>1. surf[s].q \in Seq(Byte)
  BY InvTypes
<1> QED
  BY <1>1, TakenAndLeft DEF Taken, Left

LEMMA ReadBufferedKeeps ==
  ASSUME SurfInv, NEW s \in Surfs, NEW n \in Nat, surf[s].state = "open",
         ReadBuffered(s, n)
  PROVE  SurfInv'
<1> USE DEF ReadBuffered, Returns
<1> DEFINE u == Left(s, n)
           v == Taken(s, n)
<1>1. /\ u \in Seq(Byte) /\ v \in Seq(Byte) /\ Len(u) <= Len(surf[s].q)
      /\ v \o u = surf[s].q
  BY TakesAndLeaves
<1>2. /\ surf' = [surf EXCEPT ![s].q = u] /\ received' = [received EXCEPT ![s] = @ \o v]
      /\ reader = Idle /\ reader' = Idle
  BY DEF InProgram
<1> HIDE DEF u, v
<1>3. received[s] \in Seq(Byte) /\ received'[s] = received[s] \o v
  BY <1>2, InvTypes DEF SurfInv, Typed
<1>4. InCall(s) = <<>> /\ InCall(s)' = <<>>
  BY <1>2, IdleReader DEF InCall
<1>5. received'[s] \o InCall(s)' \o u = received[s] \o InCall(s) \o surf[s].q
  <2>1. received[s] \o v \in Seq(Byte)
    BY <1>1, <1>3, ConcatProperties
  <2>2. (received[s] \o v) \o <<>> = received[s] \o v /\ received[s] \o <<>> = received[s]
    BY <1>3, <2>1, ConcatEmptySeq
  <2>3. (received[s] \o v) \o u = received[s] \o (v \o u)
    <3>1. received[s] \in Seq(Byte) /\ v \in Seq(Byte) /\ u \in Seq(Byte)
      BY <1>1, <1>3
    <3> QED
      BY <3>1, Regrouped, Zenon
  <2> QED
    BY <1>1, <1>3, <1>4, <2>2, <2>3, Zenon
<1>6. reader' \in Waiting \cup {Idle} /\ Len(reader'.got) <= reader'.want
  BY <1>2, IdleReader
<1> QED
  BY <1>1, <1>2, <1>5, <1>6, BytesMove

LEMMA ReadLastKeeps ==
  ASSUME SurfInv, NEW s \in Surfs, NEW n \in Nat, surf[s].state = "open",
         ReadLast(s, n)
  PROVE  SurfInv'
<1> USE DEF ReadLast, Returns
<1> DEFINE u == Left(s, n)
           b == [Destroyed(surf[s]) EXCEPT !.q = u]
<1>1. u \in Seq(Byte) /\ Len(u) <= Len(surf[s].q)
  BY TakesAndLeaves
<1>2. surf' = [surf EXCEPT ![s] = b]
  OBVIOUS
<1> HIDE DEF u
<1>3. /\ surf[s] \in Surface /\ surf[s].q \in Seq(Byte) /\ Len(surf[s].q) \in Nat
      /\ Len(surf[s].q) <= surf[s].cap
  BY InvTypes DEF SurfInv, BuffersFit
<1>4. /\ b \in Surface /\ b.q = u /\ b.cap = surf[s].cap /\ b.refused = surf[s].refused
      /\ b.state = "open" /\ ~b.window
  BY <1>1, <1>3 DEF Surface, Destroyed
<1> HIDE DEF b
<1>5. received' = received
  <2>1. received[s] \o <<>> = received[s]
    BY InvTypes, ConcatEmptySeq
  <2> QED
    BY <2>1 DEF SurfInv, Typed
<1>6. Len(b.q) <= b.cap
  <2>1. b.cap \in Nat /\ Len(u) \in Nat
    BY <1>1, <1>4, SurfConstants, LenProperties DEF Surface
  <2> QED
    BY <1>1, <1>3, <1>4, <2>1
<1>8. Shut(b) /\ InProgram /\ reader' = Idle
  BY <1>4 DEF Shut
<1> QED
  BY <1>2, <1>4, <1>5, <1>6, <1>8, ShutKeeps

LEMMA ReadWaitsKeeps ==
  ASSUME SurfInv, NEW s \in Surfs, NEW n \in Nat, surf[s].state = "open",
         ReadWaits(s, n)
  PROVE  SurfInv'
<1> USE DEF ReadWaits
<1> DEFINE u == Left(s, n)
           v == Taken(s, n)
<1>1. /\ u \in Seq(Byte) /\ v \in Seq(Byte) /\ Len(u) <= Len(surf[s].q)
      /\ Len(v) <= n /\ v \o u = surf[s].q
  BY TakesAndLeaves
<1>2. /\ surf' = [surf EXCEPT ![s].q = u]
      /\ reader = Idle /\ reader' = [surf |-> s, got |-> v, want |-> n, woken |-> FALSE]
  BY DEF InProgram
<1> HIDE DEF u, v
<1>3. received[s] \in Seq(Byte) /\ received[s] \o <<>> = received[s] /\ <<>> \in Seq(Byte)
  BY InvTypes, ConcatEmptySeq, EmptySeq
<1>4. received' = [received EXCEPT ![s] = @ \o <<>>] /\ received'[s] = received[s]
  BY <1>3 DEF SurfInv, Typed
<1>5. InCall(s) = <<>> /\ InCall(s)' = v
  BY <1>2, IdleReader DEF InCall
<1>6. received'[s] \o InCall(s)' \o u = received[s] \o InCall(s) \o surf[s].q
  <2>1. (received[s] \o v) \o u = received[s] \o (v \o u)
    BY <1>1, <1>3, Regrouped, Zenon
  <2> QED
    BY <1>1, <1>3, <1>4, <1>5, <2>1, Zenon
<1>7. reader' \in Waiting \cup {Idle} /\ Len(reader'.got) <= reader'.want /\ reader'.surf = s
  BY <1>1, <1>2 DEF Waiting
<1> QED
  BY <1>1, <1>2, <1>3, <1>4, <1>6, <1>7, BytesMove

LEMMA ReadEndsKeeps ==
  ASSUME SurfInv, ReadEnds
  PROVE  SurfInv'
<1> USE DEF ReadEnds, Returns
<1>0. PICK s \in Surfs : reader.surf = s
  BY IdleReader DEF SurfInv, Typed
<1>1. reader \in Waiting /\ reader.got \in Seq(Byte) /\ reader.want \in Nat
  BY IdleReader DEF SurfInv, Typed
<1> DEFINE u == Left(s, Rest)
           v == reader.got \o Taken(s, Rest)
<1>2. surf[s].window /\ surf[s].state = "open"
  BY <1>0, <1>1, IdleReader DEF SurfInv, WindowsOwned
<1>3. Rest \in Nat
  <2>1. Len(surf[s].q) \in Nat /\ Len(reader.got) \in Nat /\ Len(reader.got) <= reader.want
    BY <1>1, InvTypes, LenProperties DEF SurfInv, Typed
  <2> QED
    BY <1>0, <1>1, <2>1 DEF Rest, Least
<1>4. /\ u \in Seq(Byte) /\ Taken(s, Rest) \in Seq(Byte) /\ Len(u) <= Len(surf[s].q)
      /\ Taken(s, Rest) \o u = surf[s].q
  BY <1>1, <1>3, TakesAndLeaves
<1>5. v \in Seq(Byte)
  BY <1>1, <1>4, ConcatProperties
<1>6. /\ surf' = [surf EXCEPT ![s].q = u] /\ received' = [received EXCEPT ![s] = @ \o v]
      /\ reader' = Idle /\ UNCHANGED <<sizes, events, posts, wild>>
  BY <1>0
<1>7. received[s] \in Seq(Byte) /\ received'[s] = received[s] \o v
  BY <1>1, <1>6, InvTypes DEF SurfInv, Typed
<1>8. InCall(s) = reader.got /\ InCall(s)' = <<>>
  <2>1. InCall(s) = reader.got
    BY <1>0 DEF InCall
  <2>2. reader'.surf # s
    BY <1>1, <1>6, IdleReader
  <2> QED
    BY <2>1, <2>2 DEF InCall
<1> DEFINE g == reader.got
           w == Taken(s, Rest)
<1>9. received'[s] \o InCall(s)' \o u = received[s] \o InCall(s) \o surf[s].q
  <2>1. v = g \o w /\ g \in Seq(Byte) /\ w \in Seq(Byte) /\ w \o u = surf[s].q
    BY <1>1, <1>4
  <2> HIDE DEF u, v, w, g
  <2>2. received[s] \o v \in Seq(Byte) /\ received[s] \o g \in Seq(Byte)
    BY <1>5, <1>7, <2>1, ConcatProperties
  <2>3. (received[s] \o v) \o <<>> = received[s] \o v
    BY <2>2, ConcatEmptySeq
  <2>4. received[s] \o (g \o w) = (received[s] \o g) \o w
    BY <1>7, <2>1, Regrouped, Zenon
  <2>5. ((received[s] \o g) \o w) \o u = (received[s] \o g) \o (w \o u)
    <3>1. received[s] \o g \in Seq(Byte) /\ w \in Seq(Byte) /\ u \in Seq(Byte)
      BY <1>4, <2>1, <2>2 DEF u
    <3> QED
      BY <3>1, Regrouped, Zenon
  <2>6. InCall(s) = g
    BY <1>8 DEF g
  <2> QED
    BY <1>7, <1>8, <2>1, <2>3, <2>4, <2>5, <2>6, Zenon
<1> HIDE DEF u, v
<1>10. reader' \in Waiting \cup {Idle} /\ Len(reader'.got) <= reader'.want
  BY <1>6, IdleReader
<1> QED
  BY <1>0, <1>1, <1>2, <1>4, <1>5, <1>6, <1>9, <1>10, BytesMove

-----------------------------------------------------------------------------
(* The callbacks that run in glfwWaitEvents. *)

(* What holds whichever callback runs. *)
LEMMA QueueMoves ==
  ASSUME SurfInv, WaitEvents
  PROVE  /\ events \in Seq(EventType) /\ events # <<>>
         /\ Head(events) \in EventType /\ Head(events).surf \in Surfs
         /\ Head(events).size \in 0..MaxSizes
         /\ surf[Head(events).surf].state # "none"
         /\ events' \in Seq(EventType) /\ Len(events') <= MaxEvents
         /\ \A i \in 1..Len(events') : /\ events'[i].surf \in Surfs
                                       /\ surf[events'[i].surf].state # "none"
         /\ reader \in Waiting /\ reader' \in Waiting /\ reader' # Idle
         /\ reader'.surf = reader.surf /\ reader'.got = reader.got
         /\ reader'.want = reader.want
         /\ sizes' = sizes /\ received' = received
         /\ \A t \in Surfs : InCall(t)' = InCall(t)
<1> USE DEF WaitEvents
<1>1. events \in Seq(EventType) /\ events # <<>> /\ events' = Tail(events)
      /\ Len(events) <= MaxEvents /\ MaxEvents \in Nat
  BY SurfConstants DEF SurfInv, Typed
<1>2. /\ Head(events) \in EventType /\ Head(events) = events[1] /\ 1 \in 1..Len(events)
      /\ events' \in Seq(EventType) /\ Len(events') = Len(events) - 1
      /\ Len(events) \in Nat
      /\ \A i \in 1..Len(events') : i + 1 \in 1..Len(events) /\ events'[i] = events[i + 1]
  BY <1>1, TailEvents
<1>3. \A i \in 1..Len(events) : events[i].surf \in Surfs /\ surf[events[i].surf].state # "none"
  BY <1>1, EventSurfs DEF SurfInv, Unopened
<1>4. \A i \in 1..Len(events') : events'[i].surf \in Surfs
                                  /\ surf[events'[i].surf].state # "none"
  BY <1>2, <1>3
<1>5. reader \in Waiting
  BY DEF SurfInv, Typed
<1>6. /\ reader' \in Waiting /\ reader' # Idle
      /\ reader'.surf = reader.surf /\ reader'.got = reader.got
      /\ reader'.want = reader.want
  <2>1. reader' = [reader EXCEPT !.woken = TRUE]
    OBVIOUS
  <2>2. /\ reader' \in Waiting /\ reader'.surf = reader.surf
        /\ reader'.got = reader.got /\ reader'.want = reader.want
    BY <1>5, <2>1 DEF Waiting
  <2> QED
    BY <2>2, IdleReader
<1>7. \A t \in Surfs : InCall(t)' = InCall(t)
  BY <1>6 DEF InCall
<1>8. Head(events).surf \in Surfs /\ Head(events).size \in 0..MaxSizes
  BY <1>2 DEF EventType
<1>9. Len(events') <= MaxEvents
  BY <1>1, <1>2
<1> QED
  BY <1>1, <1>2, <1>3, <1>4, <1>5, <1>6, <1>7, <1>8, <1>9

(* A callback that posts nothing. *)
LEMMA CallbackKeeps ==
  ASSUME SurfInv, WaitEvents, posts' = posts, NEW s \in Surfs, NEW b \in Surface,
         surf' = [surf EXCEPT ![s] = b], b.q = surf[s].q, b.cap = surf[s].cap,
         b.grown = surf[s].grown,
         b.refused = surf[s].refused, b.window = surf[s].window, b.state = surf[s].state,
         \A t \in Surfs : surf[t].window /\ surf[t].state = "open" => ~SizeFor(Head(events), t),
         wild' \in BOOLEAN,
         wild' => \E t \in Surfs : surf[t].state = "failed" /\ surf[t].window
  PROVE  SurfInv'
<1> DEFINE Same(t) == /\ surf'[t].q = surf[t].q /\ surf'[t].cap = surf[t].cap
                      /\ surf'[t].refused = surf[t].refused
                      /\ surf'[t].grown = surf[t].grown
                      /\ surf'[t].window = surf[t].window
                      /\ surf'[t].state = surf[t].state
<1>1. \A t \in Surfs : Same(t)
  BY DEF SurfInv, Typed
<1>2. /\ events \in Seq(EventType) /\ events # <<>>
      /\ events' \in Seq(EventType) /\ Len(events') <= MaxEvents
      /\ \A i \in 1..Len(events') : /\ events'[i].surf \in Surfs
                                    /\ surf[events'[i].surf].state # "none"
      /\ reader \in Waiting /\ reader' \in Waiting /\ reader' # Idle
      /\ reader'.surf = reader.surf /\ reader'.got = reader.got
      /\ reader'.want = reader.want
      /\ sizes' = sizes /\ received' = received
      /\ \A t \in Surfs : InCall(t)' = InCall(t)
  BY QueueMoves
<1>3. Typed'
  <2>1. surf' \in [Surfs -> Surface]
    BY DEF SurfInv, Typed
  <2>2. Len(reader'.got) <= reader'.want
    BY <1>2 DEF SurfInv, Typed
  <2> QED
    BY <1>2, <2>1, <2>2 DEF SurfInv, Typed
<1>4. BuffersFit'
  BY <1>1 DEF SurfInv, BuffersFit
<1>5. Unopened'
  BY <1>1, <1>2 DEF SurfInv, Unopened
<1>6. SizesInOrder'
  <2> SUFFICES ASSUME NEW t \in Surfs, surf'[t].window, surf'[t].state = "open"
               PROVE  UnderWay(events', t, posts'[t], sizes'[t])
    BY DEF SizesInOrder
  <2>1. surf[t].window /\ surf[t].state = "open"
    BY <1>1
  <2>2. UnderWay(events, t, posts[t], sizes[t]) /\ posts[t] \in Nat /\ sizes[t] \in Nat
    BY <2>1, InvTypes DEF SurfInv, SizesInOrder
  <2>3. UnderWay(Tail(events), t, posts[t], sizes[t])
    BY <1>2, <2>1, <2>2, OtherTaken
  <2> QED
    BY <1>2, <2>3 DEF WaitEvents
<1>7. WindowsOwned'
  <2>1. reader # Idle
    BY <1>2, IdleReader
  <2>2. reader.surf \in Surfs
    BY <1>2, IdleReader
  <2>3. \A t \in Surfs : surf'[t].window => surf'[t].state \in {"open", "failed"}
    BY <1>1 DEF SurfInv, WindowsOwned
  <2>4. surf'[reader'.surf].window /\ surf'[reader'.surf].state = "open"
    BY <1>1, <1>2, <2>1, <2>2 DEF SurfInv, WindowsOwned
  <2>5. wild' => \E t \in Surfs : surf'[t].state = "failed" /\ surf'[t].window
    BY <1>1
  <2> QED
    BY <2>3, <2>4, <2>5 DEF WindowsOwned
<1>8. StreamIntact'
  <2> SUFFICES ASSUME NEW t \in Surfs, surf'[t].window, surf'[t].state = "open",
                      ~surf'[t].refused
               PROVE  MessageStream(received'[t] \o InCall(t)' \o surf'[t].q,
                                    posts'[t], surf'[t].grown)
    BY DEF StreamIntact
  <2>1. surf[t].window /\ surf[t].state = "open" /\ ~surf[t].refused
    BY <1>1
  <2>2. MessageStream(received[t] \o InCall(t) \o surf[t].q, posts[t], surf[t].grown)
    BY <2>1 DEF SurfInv, StreamIntact
  <2>3. received' = received /\ InCall(t)' = InCall(t) /\ surf'[t].q = surf[t].q
        /\ surf'[t].grown = surf[t].grown
    BY <1>1, <1>2
  <2> QED
    BY <2>2, <2>3
<1> QED
  BY <1>3, <1>4, <1>5, <1>6, <1>7, <1>8 DEF SurfInv

LEMMA SizePostedKeeps ==
  ASSUME SurfInv, WaitEvents, SizePosted(Head(events))
  PROVE  SurfInv'
<1> USE DEF SizePosted
<1>1. /\ events \in Seq(EventType) /\ events # <<>>
      /\ Head(events) \in EventType /\ Head(events).surf \in Surfs
      /\ events' \in Seq(EventType) /\ Len(events') <= MaxEvents
      /\ \A i \in 1..Len(events') : /\ events'[i].surf \in Surfs
                                    /\ surf[events'[i].surf].state # "none"
      /\ reader \in Waiting /\ reader' \in Waiting /\ reader' # Idle
      /\ reader'.surf = reader.surf /\ reader'.got = reader.got
      /\ reader'.want = reader.want
      /\ sizes' = sizes /\ received' = received
      /\ \A t \in Surfs : InCall(t)' = InCall(t)
  BY QueueMoves
<1>2. PICK s \in Surfs : Head(events).surf = s
  BY <1>1
<1>3. surf[s].window /\ surf[s].state = "open" /\ SizeFor(Head(events), s)
  BY <1>2 DEF SizeFor
<1> DEFINE p == posts[s]
           k == Head(events).size
<1>4. /\ p \in Nat /\ sizes[s] \in 0..MaxSizes /\ sizes[s] \in Nat
      /\ received[s] \in Seq(Byte) /\ InCall(s) \in Seq(Byte) /\ surf[s].q \in Seq(Byte)
      /\ surf[s] \in Surface /\ Len(surf[s].q) <= surf[s].cap
  BY InvTypes DEF SurfInv, BuffersFit
<1>5. k = p + 1 /\ p + 1 <= sizes[s] /\ UnderWay(events', s, p + 1, sizes[s])
  <2>1. UnderWay(events, s, p, sizes[s])
    BY <1>3 DEF SurfInv, SizesInOrder
  <2>2. events' = Tail(events)
    BY DEF WaitEvents
  <2> QED
    BY <1>1, <1>3, <1>4, <2>1, <2>2, SizeTaken
<1>6. k \in 1..MaxSizes /\ p + 1 \in 0..MaxSizes /\ p \in 0..(MaxSizes - 1)
  BY <1>4, <1>5, SurfConstants
<1>7. PICK memory \in BOOLEAN, lost \in SUBSET (DOMAIN surf[s].q) :
        surf' = [surf EXCEPT ![s] = Posted(@, k, memory, lost)]
  BY <1>2
<1> DEFINE c == Posted(surf[s], k, memory, lost)
<1>8. surf' = [surf EXCEPT ![s] = c] /\ posts' = [posts EXCEPT ![s] = @ + 1]
  BY <1>2, <1>7
<1> HIDE DEF k
<1>9. /\ c \in Surface /\ Len(c.q) <= c.cap
      /\ c.state = surf[s].state /\ c.window = surf[s].window
      /\ surf[s].refused => c.refused
      /\ ~c.refused => Behind(surf[s], c, k)
  <2> DEFINE b == surf[s]
  <2>1. /\ b \in Surface /\ Len(b.q) <= b.cap
        /\ k \in 1..MaxSizes /\ memory \in BOOLEAN
    BY <1>4, <1>6, <1>7
  <2>2. c = Posted(b, k, memory, lost)
    OBVIOUS
  <2> HIDE DEF b, c
  <2>3. /\ c \in Surface /\ Len(c.q) <= c.cap
        /\ c.state = b.state /\ c.window = b.window
        /\ b.refused => c.refused
        /\ ~c.refused => Behind(b, c, k)
    BY <2>1, <2>2, MessagePosted
  <2> QED
    BY <2>3 DEF b
<1> HIDE DEF c
<1>10. /\ surf'[s] = c /\ \A t \in Surfs : t # s => surf'[t] = surf[t]
       /\ posts'[s] = p + 1 /\ \A t \in Surfs : t # s => posts'[t] = posts[t]
  <2>1. surf \in [Surfs -> Surface] /\ posts \in [Surfs -> 0..MaxSizes]
    BY DEF SurfInv, Typed
  <2>2. surf'[s] = c /\ \A t \in Surfs : t # s => surf'[t] = surf[t]
    BY <1>8, <2>1
  <2>3. posts'[s] = p + 1 /\ \A t \in Surfs : t # s => posts'[t] = posts[t]
    BY <1>8, <2>1
  <2> QED
    BY <2>2, <2>3
<1>11. Typed'
  <2>1. surf' \in [Surfs -> Surface] /\ posts' \in [Surfs -> 0..MaxSizes]
    <3>1. surf \in [Surfs -> Surface] /\ posts \in [Surfs -> 0..MaxSizes]
      BY DEF SurfInv, Typed
    <3>2. surf' \in [Surfs -> Surface]
      BY <1>8, <1>9, <3>1
    <3>3. posts' \in [Surfs -> 0..MaxSizes]
      BY <1>6, <1>8, <3>1
    <3> QED
      BY <3>2, <3>3
  <2>2. Len(reader'.got) <= reader'.want
    BY <1>1 DEF SurfInv, Typed
  <2>3. wild' \in BOOLEAN
    BY DEF SurfInv, Typed
  <2> QED
    BY <1>1, <2>1, <2>2, <2>3 DEF SurfInv, Typed
<1>12. BuffersFit'
  BY <1>9, <1>10 DEF SurfInv, BuffersFit
<1>13. Unopened'
  BY <1>1, <1>3, <1>9, <1>10 DEF SurfInv, Unopened
<1>14. SizesInOrder'
  <2> SUFFICES ASSUME NEW t \in Surfs, surf'[t].window, surf'[t].state = "open"
               PROVE  UnderWay(events', t, posts'[t], sizes'[t])
    BY DEF SizesInOrder
  <2>1. CASE t = s
    BY <1>1, <1>5, <1>10, <2>1
  <2>2. CASE t # s
    <3>1. surf[t].window /\ surf[t].state = "open" /\ ~SizeFor(Head(events), t)
      BY <1>2, <1>10, <2>2 DEF SizeFor
    <3>2. UnderWay(events, t, posts[t], sizes[t]) /\ posts[t] \in Nat /\ sizes[t] \in Nat
      BY <3>1, InvTypes DEF SurfInv, SizesInOrder
    <3>3. UnderWay(Tail(events), t, posts[t], sizes[t])
      BY <1>1, <3>1, <3>2, OtherTaken
    <3> QED
      BY <1>1, <1>10, <2>2, <3>3 DEF WaitEvents
  <2> QED
    BY <2>1, <2>2
<1>15. WindowsOwned'
  <2>1. \A t \in Surfs : surf'[t].window = surf[t].window /\ surf'[t].state = surf[t].state
    BY <1>9, <1>10
  <2>2. reader # Idle /\ reader.surf \in Surfs
    BY <1>1, IdleReader
  <2>3. \A t \in Surfs : surf'[t].window => surf'[t].state \in {"open", "failed"}
    BY <2>1 DEF SurfInv, WindowsOwned
  <2>4. surf'[reader'.surf].window /\ surf'[reader'.surf].state = "open"
    BY <1>1, <2>1, <2>2 DEF SurfInv, WindowsOwned
  <2>5. ~wild'
    BY DEF WaitEvents
  <2> QED
    BY <2>3, <2>4, <2>5 DEF WindowsOwned
<1>16. StreamIntact'
  <2> SUFFICES ASSUME NEW t \in Surfs, surf'[t].window, surf'[t].state = "open",
                      ~surf'[t].refused
               PROVE  MessageStream(received'[t] \o InCall(t)' \o surf'[t].q,
                                    posts'[t], surf'[t].grown)
    BY DEF StreamIntact
  <2>1. CASE t = s
    <3> DEFINE h == received[s] \o InCall(s)
               v == surf[s].q
               g == surf[s].grown
    <3>1. ~c.refused /\ ~surf[s].refused
      BY <1>9, <1>10, <2>1
    <3>2. PICK e \in Surface :
            /\ Worn(surf[s], e, k) /\ c.grown = e.grown
            /\ c.q = Append(Append(e.q, Header(k)), Payload(k))
      BY <1>9, <3>1 DEF Behind
    <3>3. /\ e.q \in Seq(Byte) /\ Len(e.q) = Len(v) /\ e.grown \in {g, p + 1}
          /\ \A j \in 1..Len(v) : e.q[j] = v[j] \/ (e.q[j] = Lost /\ e.grown = p + 1)
      BY <1>5, <3>2 DEF Worn
    <3>4. MessageStream(h \o v, p, g)
      BY <1>3, <3>1 DEF SurfInv, StreamIntact
    <3>5. h \in Seq(Byte) /\ v \in Seq(Byte)
      BY <1>4, ConcatProperties
    <3>6. received'[s] \o InCall(s)' = h
      BY <1>1
    <3>7. surf'[s].q = c.q /\ surf'[s].grown = e.grown /\ posts'[s] = p + 1
      BY <1>10, <3>2
    <3> HIDE DEF h, v, g, p
    <3>8. MessageStream(h \o Append(Append(e.q, Header(p + 1)), Payload(p + 1)),
                        p + 1, e.grown)
      BY <1>6, <3>3, <3>4, <3>5, StreamGoesOn
    <3> QED
      BY <1>5, <2>1, <3>2, <3>6, <3>7, <3>8, Zenon
  <2>2. CASE t # s
    BY <1>1, <1>10, <2>2 DEF SurfInv, StreamIntact
  <2> QED
    BY <2>1, <2>2
<1> QED
  BY <1>11, <1>12, <1>13, <1>14, <1>15, <1>16 DEF SurfInv

LEMMA WaitEventsKeeps ==
  ASSUME SurfInv, WaitEvents
  PROVE  SurfInv'
<1>1. PICK s \in Surfs : Head(events).surf = s
  BY QueueMoves
<1>2. /\ surf[s] \in Surface /\ surf = [surf EXCEPT ![s] = surf[s]]
      /\ surf[s].state # "none" /\ wild \in BOOLEAN /\ ~wild
  BY <1>1, InvTypes, QueueMoves DEF SurfInv, Typed, WaitEvents
<1>3. CASE SizePosted(Head(events))
  BY <1>3, SizePostedKeeps
<1>4. CASE SizeOfDeleted(Head(events))
  <2>1. /\ surf[s].window /\ surf[s].state # "open" /\ wild'
        /\ surf' = [surf EXCEPT ![s] = surf[s]] /\ posts' = posts
    BY <1>1, <1>2, <1>4 DEF SizeOfDeleted
  <2>2. surf[s].state = "failed"
    BY <2>1 DEF SurfInv, WindowsOwned
  <2>3. \A t \in Surfs : surf[t].window /\ surf[t].state = "open" => ~SizeFor(Head(events), t)
    BY <1>1, <2>1 DEF SizeFor
  <2>4. wild' \in BOOLEAN
    BY <1>4 DEF SizeOfDeleted
  <2> QED
    BY <1>2, <2>1, <2>2, <2>3, <2>4, CallbackKeeps
<1>5. CASE CloseNoted(Head(events))
  <2> DEFINE b == [surf[s] EXCEPT !.shouldClose = TRUE]
  <2>1. /\ b \in Surface /\ b.q = surf[s].q /\ b.cap = surf[s].cap
        /\ b.refused = surf[s].refused /\ b.window = surf[s].window /\ b.state = surf[s].state
        /\ b.grown = surf[s].grown
    BY <1>2 DEF Surface
  <2>2. surf' = [surf EXCEPT ![s] = b] /\ posts' = posts /\ wild' = wild
    BY <1>1, <1>5 DEF CloseNoted
  <2>3. \A t \in Surfs : ~SizeFor(Head(events), t)
    BY <1>5 DEF CloseNoted, SizeFor
  <2> HIDE DEF b
  <2> QED
    BY <1>2, <2>1, <2>2, <2>3, CallbackKeeps
<1>6. CASE Ignored(Head(events))
  <2>1. /\ surf' = [surf EXCEPT ![s] = surf[s]] /\ posts' = posts /\ wild' = wild
        /\ ~surf[s].window \/ Head(events).kind = "mouse"
    BY <1>1, <1>2, <1>6 DEF Ignored
  <2>2. \A t \in Surfs : surf[t].window /\ surf[t].state = "open" => ~SizeFor(Head(events), t)
    BY <1>1, <2>1 DEF SizeFor
  <2> QED
    BY <1>2, <2>1, <2>2, CallbackKeeps
<1> QED
  BY <1>3, <1>4, <1>5, <1>6 DEF WaitEvents

-----------------------------------------------------------------------------
(* The theorems. *)

LEMMA SurfStep == SurfInv /\ [Next]_vars => SurfInv'
<1> SUFFICES ASSUME SurfInv, [Next]_vars PROVE SurfInv'
  OBVIOUS
<1>1. CASE UNCHANGED vars
  BY <1>1 DEF vars, SurfInv, Typed, BuffersFit, Unopened, SizesInOrder, WindowsOwned,
              StreamIntact, InCall
<1>2. ASSUME NEW s \in Surfs, NEW n \in ReadSizes, Read(s, n) PROVE SurfInv'
  <2>1. n \in Nat /\ surf[s].state = "open"
    BY <1>2, SurfConstants DEF Read
  <2> QED
    BY <1>2, <2>1, ReadGoneKeeps, ReadBufferedKeeps, ReadLastKeeps, ReadWaitsKeeps DEF Read
<1>3. ASSUME NEW s \in Surfs,
             \/ Open(s) \/ OpenFails(s) \/ Close(s)
             \/ Resize(s) \/ ClickClose(s) \/ MoveMouse(s)
      PROVE  SurfInv'
  BY <1>3, OpenKeeps, OpenFailsKeeps, CloseKeeps, WindowEventKeeps
<1>4. CASE WaitEvents
  BY <1>4, WaitEventsKeeps
<1>5. CASE ReadEnds
  BY <1>5, ReadEndsKeeps
<1> QED
  BY <1>1, <1>2, <1>3, <1>4, <1>5 DEF Next

LEMMA SurfAlways == Spec => []SurfInv
<1>1. Init => SurfInv
  BY SurfInit
<1>2. SurfInv /\ [Next]_vars => SurfInv'
  BY SurfStep
<1> QED
  BY <1>1, <1>2, PTL DEF Spec

(* Surfaces, their windows and the waiting read agree: no read waits on a    *)
(* window that is gone and no callback of a live window finds its surface    *)
(* gone, but for the windows p_gui_surf_open leaves behind when it fails.   *)
THEOREM SurfacesOwned == Spec => []WindowInv
<1>1. SurfInv => WindowInv
  <2> SUFFICES ASSUME SurfInv PROVE WindowInv
    OBVIOUS
  <2>1. ASSUME NEW s \in Surfs
        PROVE  /\ surf[s].state \in {"none", "open", "failed", "closed"}
               /\ surf[s].cap \in InitCap..MaxCap /\ Len(surf[s].q) <= surf[s].cap
               /\ surf[s].q \in Seq(Byte) /\ received[s] \in Seq(Byte)
               /\ posts[s] \in 0..MaxSizes /\ surf[s].grown \in 0..MaxSizes
    <3>1. surf[s] \in Surface /\ Len(surf[s].q) <= surf[s].cap
      BY InvTypes DEF SurfInv, BuffersFit
    <3> QED
      BY <3>1, InvTypes DEF Surface
  <2>2. reader.surf \in Surfs \cup {None} /\ Len(reader.got) <= reader.want
    BY IdleReader DEF SurfInv, Typed
  <2> QED
    BY <2>1, <2>2 DEF SurfInv, Typed, WindowInv, TypeOK
<1> QED
  BY <1>1, SurfAlways, PTL

(* Whatever is being read when the sizes of a window come and however its    *)
(* reads cut the bytes up: what the program got, what the waiting call holds *)
(* and what is buffered are a message for each of those sizes, each in its   *)
(* place, unless the buffer was refused a growth; and those from the one on  *)
(* for which the buffer last grew are whole.                                 *)
THEOREM MessagesInPlace == Spec => []StreamIntact
<1>1. SurfInv => StreamIntact
  BY DEF SurfInv
<1> QED
  BY <1>1, SurfAlways, PTL
=============================================================================
