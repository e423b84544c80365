--------------------------- MODULE RingBufProofs ---------------------------
(***************************************************************************)
(* The ring buffer, for every capacity, word size, set of growths and      *)
(* length of calls: r, w, len and cap agree with each other, and the       *)
(* buffer is a queue of bytes, of which a move to a larger block keeps as  *)
(* many of the first ones as the block has grown by.                       *)
(***************************************************************************)
EXTENDS RingBuf, SequenceTheorems, TLAPS

-----------------------------------------------------------------------------
(* Remainders. *)

LEMMA ModSmall ==
  ASSUME NEW c \in Nat \ {0}, NEW x \in 0..(c - 1)
  PROVE  x % c = x
OBVIOUS

LEMMA ModOnce ==
  ASSUME NEW c \in Nat \ {0}, NEW x \in c..(2 * c - 1)
  PROVE  x % c = x - c
OBVIOUS

LEMMA ModBound ==
  ASSUME NEW c \in Nat \ {0}, NEW x \in Nat
  PROVE  x % c \in 0..(c - 1) /\ x % c <= x
OBVIOUS

(* One before a multiple. *)
LEMMA ModLast ==
  ASSUME NEW c \in Nat \ {0}, NEW x \in Nat \ {0}, x % c = 0
  PROVE  (x - 1) % c = c - 1
<1> DEFINE q == x \div c
<1>1. q \in Int /\ x = c * q
  OBVIOUS
<1> HIDE DEF q
<1>2. x - 1 = c * (q - 1) + (c - 1)
  BY <1>1
<1>3. \A k \in Int, s \in 0..(c - 1) : (c * k + s) % c = s
  OBVIOUS
<1> QED
  BY <1>1, <1>2, <1>3

-----------------------------------------------------------------------------
(* Where the k-th byte of the buffer is. *)
Wrapped(c, x) == IF x < c THEN x ELSE x - c
At(k) == Wrapped(cap, r + k - 1)

(* The bytes that are buffered have been written, and a buffer that has not *)
(* been written to is as p_ringbuf_init left it.                            *)
RingInv ==
  /\ BufferInv
  /\ \A k \in 1..len : mem[At(k)] \in Bytes
  /\ w = Word - 1 => r = 0 /\ len = 0 /\ cap = InitCap

Room(n) == n \in 0..(cap - len)

LEMMA Numbers ==
  ASSUME RingInv
  PROVE  /\ cap \in Nat \ {0} /\ len \in Nat /\ r \in Nat /\ w \in Nat
         /\ len <= cap /\ r < cap /\ cap <= MaxCap /\ InitCap <= cap
         /\ w < cap \/ w = Word - 1
         /\ InitCap \in Nat \ {0} /\ MaxCap \in Nat /\ Word \in Nat /\ 2 * MaxCap < Word
  BY RingConstants DEF RingInv, BufferInv, TypeOK

LEMMA WrappedIsMod ==
  ASSUME NEW c \in Nat \ {0}, NEW x \in 0..(2 * c - 1)
  PROVE  x % c = Wrapped(c, x)
<1>1. CASE x < c
  BY <1>1, ModSmall DEF Wrapped
<1>2. CASE x >= c
  <2>1. x \in c..(2 * c - 1)
    BY <1>2
  <2> QED
    BY <1>2, <2>1, ModOnce DEF Wrapped
<1> QED
  BY <1>1, <1>2

LEMMA AtIsMod ==
  ASSUME RingInv, NEW k \in 1..(cap + 1)
  PROVE  (r + k - 1) % cap = At(k) /\ At(k) \in 0..(cap - 1)
<1>1. cap \in Nat \ {0} /\ r \in Nat /\ r < cap
  BY Numbers
<1>2. r + k - 1 \in 0..(2 * cap - 1)
  BY <1>1
<1>3. (r + k - 1) % cap = Wrapped(cap, r + k - 1)
  BY <1>1, <1>2, WrappedIsMod
<1>4. Wrapped(cap, r + k - 1) \in 0..(cap - 1)
  BY <1>1, <1>2 DEF Wrapped
<1> QED
  BY <1>3, <1>4 DEF At

(* The next byte goes to Start, or to the front if Start is past the end.   *)
LEMMA StartFacts ==
  ASSUME RingInv
  PROVE  /\ Start = IF w = Word - 1 THEN 0 ELSE w + 1
         /\ Start \in 0..cap
         /\ Start % cap = At(len + 1)
         /\ Start = At(len + 1) \/ (Start = cap /\ At(len + 1) = 0)
<1>1. Start = IF w = Word - 1 THEN 0 ELSE w + 1
  <2>1. CASE w = Word - 1
    BY <2>1, Numbers, ModOnce DEF Start
  <2>2. CASE w # Word - 1
    <3>1. w + 1 \in 0..(Word - 1) /\ Word \in Nat \ {0}
      BY <2>2, Numbers
    <3> QED
      BY <2>2, <3>1, ModSmall DEF Start
  <2> QED
    BY <2>1, <2>2
<1>2. Start \in 0..cap
  BY <1>1, Numbers
<1>3. Start % cap = At(len + 1)
  <2>1. Start % cap = (r + (len + 1) - 1) % cap
    BY Numbers DEF RingInv, BufferInv, WriteFollowsData
  <2> QED
    BY <2>1, AtIsMod, Numbers
<1>4. Start % cap = Wrapped(cap, Start)
  BY <1>2, Numbers, WrappedIsMod
<1> QED
  BY <1>1, <1>2, <1>3, <1>4, Numbers DEF Wrapped

-----------------------------------------------------------------------------
(* A write puts its bytes behind those that are there. *)

CopiedIn(m, m2, at, bytes, from, n) ==
  \A o \in Offsets :
    m2[o] = IF at <= o /\ o < at + n THEN bytes[from + o - at] ELSE m[o]

LEMMA PutMem ==
  ASSUME RingInv, NEW data \in Data, NEW n \in Nat, n <= Len(data), Room(n),
         Put(data, n)
  PROVE  /\ mem' \in [Offsets -> Bytes \cup {Junk}]
         /\ \A k \in 1..len : mem'[At(k)] = mem[At(k)]
         /\ \A j \in 1..n : mem'[At(len + j)] = data[j]
<1> DEFINE part == SubSeq(data, 1, n)
           s == At(len + 1)
           n1 == cap - Start
<1>0. /\ cap \in Nat \ {0} /\ len \in Nat /\ r \in Nat
      /\ len <= cap /\ r < cap /\ n <= cap - len
      /\ Start \in 0..cap
  BY Numbers, StartFacts DEF Room
<1>1. data \in Seq(Bytes)
  BY RingConstants DEF Data
<1>2. /\ Len(part) = n /\ \A j \in 1..n : part[j] = data[j] /\ data[j] \in Bytes
      /\ part \in Seq(Bytes)
  BY <1>1, SubSeqProperties
<1>3. mem \in [Offsets -> Bytes \cup {Junk}]
  BY DEF RingInv, BufferInv, TypeOK
<1>4. \A o \in 0..(cap - 1) : o \in Offsets
  BY Numbers DEF Offsets
<1>5. Start % cap = s /\ s \in 0..(cap - 1) /\ s = Wrapped(cap, r + len)
      /\ (s = Start \/ (Start = cap /\ s = 0))
  <2>1. len + 1 \in 1..(cap + 1) /\ r + (len + 1) - 1 = r + len
    BY <1>0
  <2>2. s = Wrapped(cap, r + len)
    BY <2>1 DEF At
  <2>3. s \in 0..(cap - 1)
    BY <2>1, AtIsMod
  <2> QED
    BY <2>2, <2>3, StartFacts
<1>6. \A k \in 1..len : At(k) \in 0..(cap - 1) /\ At(k) = Wrapped(cap, r + k - 1)
  <2>1. \A k \in 1..(cap + 1) : At(k) \in 0..(cap - 1)
    BY AtIsMod
  <2>2. \A k \in 1..len : k \in 1..(cap + 1)
    BY <1>0
  <2>3. \A k \in 1..len : At(k) = Wrapped(cap, r + k - 1)
    BY DEF At
  <2> QED
    BY <2>1, <2>2, <2>3
<1>7. \A j \in 1..n : /\ At(len + j) \in 0..(cap - 1)
                      /\ At(len + j) = Wrapped(cap, r + len + j - 1)
  <2> TAKE j \in 1..n
  <2>1. len + j \in 1..(cap + 1) /\ r + (len + j) - 1 = r + len + j - 1
    BY <1>0
  <2>2. At(len + j) \in 0..(cap - 1)
    BY <2>1, AtIsMod
  <2> QED
    BY <2>1, <2>2 DEF At
<1> HIDE DEF s
<1>10. s \in Int
  BY <1>0, <1>5
<1>8. CASE Start + n > cap
  <2>1. n1 \in 0..n
    BY <1>0, <1>8
  <2> DEFINE p1 == SubSeq(part, 1, n1)
             p2 == SubSeq(part, n1 + 1, n)
             m1 == CopyIn(mem, s, p1)
             m2 == CopyIn(m1, 0, p2)
  <2>2. /\ Len(p1) = n1 /\ \A j \in 1..n1 : p1[j] = data[j]
        /\ Len(p2) = n - n1 /\ \A j \in 1..(n - n1) : p2[j] = data[n1 + j]
    <3> HIDE DEF part, n1
    <3>1. /\ Len(p1) = n1 /\ \A j \in 1..n1 : p1[j] = part[j]
          /\ Len(p2) = n - n1 /\ \A j \in 1..(n - n1) : p2[j] = part[n1 + j]
      BY <1>2, <2>1, SubSeqProperties
    <3> QED
      BY <3>1, <1>2, <2>1
  <2>3. mem' = m2
    BY <1>5, <1>8 DEF Put, FirstPart
  <2> HIDE DEF p1, p2, n1
  <2>4. m1 = [o \in Offsets |-> IF s <= o /\ o < s + n1 THEN p1[o - s + 1] ELSE mem[o]]
    BY <1>3, <2>2 DEF CopyIn
  <2>5. m2 = [o \in Offsets |-> IF 0 <= o /\ o < 0 + (n - n1) THEN p2[o - 0 + 1] ELSE m1[o]]
    BY <2>2, <2>4 DEF CopyIn
  <2> HIDE DEF m1, m2
  <2>6. n1 = cap - Start
    BY DEF n1
  <2>7. \A o \in Offsets :
          mem'[o] = IF o < n - n1 THEN data[n1 + o + 1]
                    ELSE IF s <= o /\ o < s + n1 THEN data[o - s + 1] ELSE mem[o]
    <3> SUFFICES ASSUME NEW o \in Offsets
                 PROVE  mem'[o] = IF o < n - n1 THEN data[n1 + o + 1]
                    ELSE IF s <= o /\ o < s + n1 THEN data[o - s + 1] ELSE mem[o]
      OBVIOUS
    <3>1. o \in Nat
      BY RingConstants DEF Offsets
    <3>2. CASE o < n - n1
      BY <2>1, <2>2, <2>3, <2>5, <3>1, <3>2
    <3>3. CASE ~(o < n - n1) /\ s <= o /\ o < s + n1
      <4>1. m2[o] = m1[o] /\ m1[o] = p1[o - s + 1]
        BY <1>5, <2>1, <2>4, <2>5, <3>1, <3>3
      <4>2. o - s + 1 \in 1..n1
        BY <1>5, <2>1, <3>1, <3>3
      <4> QED
        BY <2>2, <2>3, <3>3, <4>1, <4>2
    <3>4. CASE ~(o < n - n1) /\ ~(s <= o /\ o < s + n1)
      BY <2>1, <2>3, <2>4, <2>5, <3>1, <3>4
    <3> QED
      BY <3>2, <3>3, <3>4
  <2>8. mem' \in [Offsets -> Bytes \cup {Junk}]
    <3>1. DOMAIN mem' = Offsets /\ mem' = [o \in Offsets |-> mem'[o]]
      BY <2>3, <2>5
    <3>2. \A o \in Offsets : mem'[o] \in Bytes \cup {Junk}
      <4> TAKE o \in Offsets
      <4>1. o \in Nat
        BY RingConstants DEF Offsets
      <4>2. CASE o < n - n1
        <5>1. n1 + o + 1 \in 1..n
          BY <2>1, <4>1, <4>2
        <5> QED
          BY <1>2, <2>7, <4>2, <5>1
      <4>3. CASE ~(o < n - n1) /\ s <= o /\ o < s + n1
        <5>1. o - s + 1 \in 1..n
          BY <1>5, <2>1, <4>1, <4>3
        <5> QED
          BY <1>2, <2>7, <4>3, <5>1
      <4>4. CASE ~(o < n - n1) /\ ~(s <= o /\ o < s + n1)
        BY <1>3, <2>7, <4>4
      <4> QED
        BY <4>2, <4>3, <4>4
    <3> QED
      BY <3>1, <3>2
  <2>9. \A k \in 1..len : mem'[At(k)] = mem[At(k)]
    <3> TAKE k \in 1..len
    <3>1. ~(At(k) < n - n1) /\ ~(s <= At(k) /\ At(k) < s + n1)
      BY <1>5, <1>6, <2>1, <2>6, <1>8, <1>0 DEF Wrapped
    <3> QED
      BY <1>4, <1>6, <2>7, <3>1
  <2>10. \A j \in 1..n : mem'[At(len + j)] = data[j]
    <3> TAKE j \in 1..n
    <3>0. At(len + j) = Wrapped(cap, r + len + j - 1) /\ At(len + j) \in Offsets
      BY <1>4, <1>7
    <3>1. CASE j <= n1
      <4>1. At(len + j) = s + j - 1 /\ ~(At(len + j) < n - n1)
        BY <1>5, <3>0, <2>1, <2>6, <3>1, <1>8, <1>0 DEF Wrapped
      <4>2. At(len + j) - s + 1 = j /\ s <= At(len + j) /\ At(len + j) < s + n1
        BY <1>10, <2>1, <3>1, <4>1
      <4> QED
        BY <2>7, <3>0, <4>1, <4>2
    <3>2. CASE j > n1
      <4>1. At(len + j) = j - n1 - 1
        BY <1>5, <3>0, <2>1, <2>6, <3>2, <1>8, <1>0 DEF Wrapped
      <4>2. At(len + j) < n - n1 /\ n1 + At(len + j) + 1 = j
        BY <2>1, <3>2, <4>1
      <4> QED
        BY <2>7, <3>0, <4>2
    <3> QED
      BY <2>1, <3>1, <3>2
  <2> QED
    BY <2>8, <2>9, <2>10
<1>9. CASE ~(Start + n > cap)
  <2> DEFINE m2 == CopyIn(mem, s, part)
  <2>1. mem' = m2
    BY <1>5, <1>9 DEF Put
  <2>2. m2 = [o \in Offsets |-> IF s <= o /\ o < s + n THEN part[o - s + 1] ELSE mem[o]]
    BY <1>2, <1>3 DEF CopyIn
  <2> HIDE DEF m2, part
  <2>3. \A o \in Offsets :
          mem'[o] = IF s <= o /\ o < s + n THEN data[o - s + 1] ELSE mem[o]
    <3> TAKE o \in Offsets
    <3>1. o \in Nat
      BY RingConstants DEF Offsets
    <3>2. s <= o /\ o < s + n => o - s + 1 \in 1..n
      BY <1>5, <3>1
    <3> QED
      BY <1>2, <2>1, <2>2, <3>2
  <2>4. mem' \in [Offsets -> Bytes \cup {Junk}]
    <3>1. mem' = [o \in Offsets |-> mem'[o]]
      BY <2>1, <2>2
    <3>2. \A o \in Offsets : mem'[o] \in Bytes \cup {Junk}
      <4> TAKE o \in Offsets
      <4>1. o \in Nat
        BY RingConstants DEF Offsets
      <4>2. s <= o /\ o < s + n => o - s + 1 \in 1..n
        BY <1>5, <4>1
      <4> QED
        BY <1>2, <1>3, <2>3, <4>2
    <3> QED
      BY <3>1, <3>2
  <2>5. \A k \in 1..len : mem'[At(k)] = mem[At(k)]
    <3> TAKE k \in 1..len
    <3>0. At(k) = Wrapped(cap, r + k - 1) /\ At(k) \in 0..(cap - 1)
      BY <1>6
    <3>1. ~(s <= At(k) /\ At(k) < s + n)
      BY <1>5, <1>9, <1>0, <3>0 DEF Wrapped
    <3> QED
      BY <1>4, <1>6, <2>3, <3>1
  <2>6. \A j \in 1..n : mem'[At(len + j)] = data[j]
    <3> TAKE j \in 1..n
    <3>0. At(len + j) = Wrapped(cap, r + len + j - 1) /\ At(len + j) \in Offsets
      BY <1>4, <1>7
    <3>1. At(len + j) = s + j - 1
      BY <1>5, <3>0, <1>9, <1>0 DEF Wrapped
    <3>2. At(len + j) - s + 1 = j /\ s <= At(len + j) /\ At(len + j) < s + n
      BY <1>10, <3>1
    <3> QED
      BY <2>3, <3>0, <3>2
  <2> QED
    BY <2>4, <2>5, <2>6
<1> QED
  BY <1>8, <1>9

LEMMA PutPlace ==
  ASSUME RingInv, NEW n \in Nat, Room(n), w' = ((w + n) % Word) % cap
  PROVE  /\ w' \in 0..(cap - 1) /\ w' # Word - 1
         /\ ((w' + 1) % Word) % cap = (r + (len + n)) % cap
<1>0. /\ cap \in Nat \ {0} /\ len \in Nat /\ r \in Nat /\ w \in Nat /\ Word \in Nat \ {0}
      /\ len <= cap /\ r < cap /\ n <= cap - len /\ 2 * cap < Word
      /\ w < cap \/ w = Word - 1
  BY Numbers DEF Room
<1>1. w' = IF w < cap THEN Wrapped(cap, w + n) ELSE IF n = 0 THEN cap - 1 ELSE n - 1
  <2>1. CASE w < cap
    <3>1. w + n \in 0..(Word - 1) /\ w + n \in 0..(2 * cap - 1)
      BY <1>0, <2>1
    <3>2. (w + n) % Word = w + n
      BY <1>0, <3>1, ModSmall
    <3> QED
      BY <1>0, <2>1, <3>1, <3>2, WrappedIsMod
  <2>2. CASE w = Word - 1 /\ n = 0
    <3>1. w + n \in 0..(Word - 1) /\ w + n = Word - 1
      BY <1>0, <2>2
    <3>2. (w + n) % Word = Word - 1
      BY <1>0, <3>1, ModSmall
    <3>3. Word % cap = 0
      BY <2>2, RingConstants DEF RingInv
    <3>4. (Word - 1) % cap = cap - 1
      BY <1>0, <3>3, ModLast
    <3> QED
      BY <1>0, <2>2, <3>2, <3>4
  <2>3. CASE w = Word - 1 /\ n # 0
    <3>1. w + n \in Word..(2 * Word - 1) /\ (w + n) - Word = n - 1 /\ n - 1 \in 0..(cap - 1)
      BY <1>0, <2>3
    <3>2. (w + n) % Word = n - 1
      BY <1>0, <3>1, ModOnce
    <3> QED
      BY <1>0, <2>3, <3>1, <3>2, ModSmall
  <2> QED
    BY <1>0, <2>1, <2>2, <2>3
<1>2. w' \in 0..(cap - 1) /\ w' # Word - 1
  BY <1>0, <1>1 DEF Wrapped
<1>3. (w' + 1) % Word = w' + 1
  <2>1. w' + 1 \in 0..(Word - 1)
    BY <1>0, <1>2
  <2> QED
    BY <1>0, <2>1, ModSmall
<1>4. (w' + 1) % cap = Wrapped(cap, w' + 1)
  <2>1. w' + 1 \in 0..(2 * cap - 1)
    BY <1>0, <1>2
  <2> QED
    BY <1>0, <2>1, WrappedIsMod
<1>5. (r + (len + n)) % cap = Wrapped(cap, r + (len + n))
  <2>1. r + (len + n) \in 0..(2 * cap - 1)
    BY <1>0
  <2> QED
    BY <1>0, <2>1, WrappedIsMod
<1>6. CASE w = Word - 1
  <2>1. r = 0 /\ len = 0
    BY <1>6 DEF RingInv
  <2>2. Wrapped(cap, w' + 1) = Wrapped(cap, r + (len + n))
    BY <1>0, <1>1, <1>6, <2>1 DEF Wrapped
  <2> QED
    BY <1>2, <1>3, <1>4, <1>5, <2>2
<1>7. CASE w < cap
  <2>1. At(len + 1) = Wrapped(cap, r + len)
    <3>1. r + (len + 1) - 1 = r + len
      BY <1>0
    <3> QED
      BY <3>1 DEF At
  <2>2. Start = w + 1 /\ (w + 1 = At(len + 1) \/ (w + 1 = cap /\ At(len + 1) = 0))
    BY <1>0, <1>7, StartFacts
  <2>3. w + 1 = Wrapped(cap, r + len) \/ (w + 1 = cap /\ Wrapped(cap, r + len) = 0)
    BY <2>1, <2>2
  <2>4. Wrapped(cap, w' + 1) = Wrapped(cap, r + (len + n))
    BY <1>0, <1>1, <1>7, <2>3 DEF Wrapped
  <2> QED
    BY <1>2, <1>3, <1>4, <1>5, <2>4
<1> QED
  BY <1>0, <1>6, <1>7

LEMMA PutInv ==
  ASSUME RingInv, NEW data \in Data, NEW n \in Nat, n <= Len(data), Room(n),
         Put(data, n)
  PROVE  RingInv'
<1>0. /\ cap \in Nat \ {0} /\ len \in Nat /\ r \in Nat /\ n <= cap - len
      /\ cap <= MaxCap /\ MaxCap \in Nat
  BY Numbers DEF Room
<1>1. /\ r' = r /\ cap' = cap /\ len' = len + n /\ ret' = Ret(n, <<>>)
      /\ w' = ((w + n) % Word) % cap
  BY DEF Put
<1>2. /\ mem' \in [Offsets -> Bytes \cup {Junk}]
      /\ \A k \in 1..len : mem'[At(k)] = mem[At(k)]
      /\ \A j \in 1..n : mem'[At(len + j)] = data[j]
  BY PutMem
<1>3. /\ w' \in 0..(cap - 1) /\ w' # Word - 1
      /\ ((w' + 1) % Word) % cap = (r + (len + n)) % cap
  BY <1>1, PutPlace
<1>4. WriteFollowsData'
  BY <1>1, <1>3 DEF WriteFollowsData, Start
<1>5. TypeOK'
  <2>1. len + n \in 0..cap /\ n \in 0..MaxCap
    BY <1>0
  <2>2. ret'.n \in 0..MaxCap /\ ret'.bytes \in Seq(Bytes)
    BY <1>1, <2>1 DEF Ret
  <2>3. cap \in InitCap..MaxCap /\ r \in 0..(cap - 1)
    BY DEF RingInv, BufferInv, TypeOK
  <2> QED
    BY <1>1, <1>2, <1>3, <2>1, <2>2, <2>3 DEF TypeOK
<1>6. \A k \in 1..(len + n) : mem'[At(k)] \in Bytes
  <2> TAKE k \in 1..(len + n)
  <2>1. CASE k <= len
    BY <1>0, <1>2, <2>1 DEF RingInv
  <2>2. CASE k > len
    <3>1. k - len \in 1..n /\ len + (k - len) = k
      BY <1>0, <2>2
    <3>2. data[k - len] \in Bytes
      BY <3>1, RingConstants DEF Data
    <3> QED
      BY <1>2, <3>1, <3>2
  <2> QED
    BY <1>0, <2>1, <2>2
<1>7. \A k : At(k)' = At(k)
  BY <1>1 DEF At
<1> QED
  BY <1>1, <1>3, <1>4, <1>5, <1>6, <1>7 DEF RingInv, BufferInv

-----------------------------------------------------------------------------
(* A read takes its bytes from the front. *)

LEMMA TakeBytes ==
  ASSUME RingInv, NEW n \in 1..len, Take(n)
  PROVE  /\ ret'.n = n
         /\ ret'.bytes = [k \in 1..n |-> mem[At(k)]]
         /\ ret'.bytes \in Seq(Bytes)
<1>0. /\ cap \in Nat \ {0} /\ len \in Nat /\ r \in Nat /\ r < cap /\ n <= cap /\ n \in Nat
      /\ n # 0 /\ n <= len
  BY Numbers
<1> DEFINE n1 == cap - r
           b == IF r + n > cap THEN CopyOut(mem, r, n1) \o CopyOut(mem, 0, n - n1)
                ELSE CopyOut(mem, r, n)
<1>1. ret' = Ret(n, b)
  BY <1>0 DEF Take, FirstPart
<1>2. \A k \in 1..n : mem[At(k)] \in Bytes
  <2>1. \A k \in 1..n : k \in 1..len
    BY <1>0
  <2> QED
    BY <2>1 DEF RingInv
<1>3. \A k \in 1..n : At(k) = Wrapped(cap, r + k - 1)
  BY DEF At
<1> DEFINE B == [k \in 1..n |-> mem[At(k)]]
<1>4. B \in Seq(Bytes) /\ Len(B) = n /\ B \in [1..n -> Bytes]
  BY <1>0, <1>2
<1>5. CASE r + n > cap
  <2> DEFINE p1 == CopyOut(mem, r, n1)
             p2 == CopyOut(mem, 0, n - n1)
  <2>1. n1 \in 1..n /\ n - n1 \in Nat
    BY <1>0, <1>5
  <2>2. \A k \in 1..n1 : r + k - 1 = At(k)
    BY <1>0, <1>3, <2>1 DEF Wrapped
  <2>3. \A k \in 1..(n - n1) : 0 + k - 1 = At(n1 + k)
    <3> TAKE k \in 1..(n - n1)
    <3>1. n1 + k \in 1..n
      BY <2>1
    <3>2. At(n1 + k) = Wrapped(cap, r + (n1 + k) - 1)
      BY DEF At
    <3> QED
      BY <1>0, <2>1, <3>1, <3>2 DEF Wrapped
  <2>4. p1 = [k \in 1..n1 |-> B[k]]
    BY <2>1, <2>2 DEF CopyOut
  <2>5. p2 = [k \in 1..(n - n1) |-> B[n1 + k]]
    <3>1. \A k \in 1..(n - n1) : n1 + k \in 1..n
      BY <2>1
    <3> QED
      BY <2>3, <3>1 DEF CopyOut
  <2>6. b = p1 \o p2
    BY <1>5
  <2> HIDE DEF b, p1, p2, B, n1
  <2>7. /\ p1 \in Seq(Bytes) /\ Len(p1) = n1 /\ \A k \in 1..n1 : p1[k] = B[k]
    BY <1>0, <1>4, <2>1, <2>4
  <2>8. /\ p2 \in Seq(Bytes) /\ Len(p2) = n - n1 /\ \A k \in 1..(n - n1) : p2[k] = B[n1 + k]
    <3>1. \A k \in 1..(n - n1) : n1 + k \in 1..n
      BY <2>1
    <3> QED
      BY <1>0, <1>4, <2>1, <2>5, <3>1
  <2>9. /\ b \in Seq(Bytes) /\ Len(b) = n1 + (n - n1)
        /\ \A k \in 1..(n1 + (n - n1)) : b[k] = IF k <= n1 THEN p1[k] ELSE p2[k - n1]
    BY <2>6, <2>7, <2>8, ConcatProperties
  <2>10. \A k \in 1..n : b[k] = B[k]
    <3> TAKE k \in 1..n
    <3>1. CASE k <= n1
      BY <1>0, <2>1, <2>7, <2>9, <3>1
    <3>2. CASE k > n1
      <4>1. k - n1 \in 1..(n - n1) /\ n1 + (k - n1) = k /\ k \in 1..(n1 + (n - n1))
        BY <1>0, <2>1, <3>2
      <4>2. b[k] = p2[k - n1]
        BY <2>1, <2>9, <3>2, <4>1
      <4> QED
        BY <2>8, <4>1, <4>2
    <3> QED
      BY <2>1, <3>1, <3>2
  <2>11. Len(b) = n
    BY <1>0, <2>1, <2>9
  <2>12. b = B
    BY <1>4, <2>9, <2>10, <2>11, SeqEqual
  <2> QED
    BY <1>1, <1>4, <2>12 DEF Ret, B
<1>6. CASE ~(r + n > cap)
  <2>1. \A k \in 1..n : r + k - 1 = At(k)
    BY <1>0, <1>3, <1>6 DEF Wrapped
  <2>2. b = B
    BY <1>6, <2>1 DEF CopyOut
  <2> HIDE DEF b
  <2> QED
    BY <1>1, <1>4, <2>2 DEF Ret
<1> QED
  BY <1>5, <1>6

LEMMA TakePlace ==
  ASSUME RingInv, NEW n \in 1..len, Take(n)
  PROVE  /\ r' \in 0..(cap - 1) /\ len' = len - n /\ UNCHANGED <<w, cap, mem>>
         /\ (r' + len') % cap = (r + len) % cap
         /\ \A k \in 1..(len - n) : At(k)' = At(n + k)
<1>0. /\ cap \in Nat \ {0} /\ len \in Nat /\ r \in Nat /\ r < cap /\ len <= cap /\ n <= cap
      /\ n \in Nat /\ n # 0
  BY Numbers
<1>1. r' = (r + n) % cap /\ len' = len - n /\ UNCHANGED <<w, cap, mem>>
  BY <1>0 DEF Take
<1>2. r' = Wrapped(cap, r + n)
  <2>1. r + n \in 0..(2 * cap - 1)
    BY <1>0
  <2> QED
    BY <1>0, <1>1, <2>1, WrappedIsMod
<1>3. r' \in 0..(cap - 1)
  BY <1>0, <1>2 DEF Wrapped
<1>4. (r' + len') % cap = (r + len) % cap
  <2>1. r' + len' \in 0..(2 * cap - 1) /\ r + len \in 0..(2 * cap - 1)
    BY <1>0, <1>1, <1>3
  <2>2. Wrapped(cap, r' + len') = Wrapped(cap, r + len)
    BY <1>0, <1>1, <1>2 DEF Wrapped
  <2> QED
    BY <1>0, <2>1, <2>2, WrappedIsMod
<1>5. \A k \in 1..(len - n) : At(k)' = At(n + k)
  <2> TAKE k \in 1..(len - n)
  <2>1. At(k)' = Wrapped(cap, r' + k - 1) /\ At(n + k) = Wrapped(cap, r + (n + k) - 1)
    BY <1>1 DEF At
  <2> QED
    BY <1>0, <1>2, <2>1 DEF Wrapped
<1> QED
  BY <1>1, <1>3, <1>4, <1>5

LEMMA NothingTaken ==
  ASSUME RingInv, ret' = Ret(0, <<>>), UNCHANGED <<r, w, cap, len, mem>>
  PROVE  RingInv'
<1>1. ret'.n \in 0..MaxCap /\ ret'.bytes \in Seq(Bytes)
  BY RingConstants DEF Ret
<1>2. TypeOK' /\ WriteFollowsData'
  BY <1>1 DEF RingInv, BufferInv, TypeOK, WriteFollowsData, Start
<1> QED
  BY <1>2 DEF RingInv, BufferInv, At

LEMMA TakeInv ==
  ASSUME RingInv, NEW n \in 0..len, Take(n)
  PROVE  RingInv'
<1>1. CASE n = 0
  BY <1>1, NothingTaken DEF Take
<1>2. CASE n # 0
  <2>0. /\ cap \in Nat \ {0} /\ len \in Nat /\ n \in 1..len /\ len <= MaxCap /\ n \in 0..MaxCap
        /\ len - n \in 0..cap
    BY <1>2, Numbers
  <2>1. /\ r' \in 0..(cap - 1) /\ len' = len - n /\ UNCHANGED <<w, cap, mem>>
        /\ (r' + len') % cap = (r + len) % cap
        /\ \A k \in 1..(len - n) : At(k)' = At(n + k)
    BY <2>0, TakePlace
  <2>2. ret'.n \in 0..MaxCap /\ ret'.bytes \in Seq(Bytes)
    BY <2>0, TakeBytes
  <2>3. TypeOK'
    BY <2>0, <2>1, <2>2 DEF RingInv, BufferInv, TypeOK
  <2>4. WriteFollowsData'
    BY <2>1 DEF RingInv, BufferInv, WriteFollowsData, Start
  <2>5. \A k \in 1..len' : mem'[At(k)'] \in Bytes
    <3> TAKE k \in 1..len'
    <3>1. k \in 1..(len - n) /\ n + k \in 1..len
      BY <2>0, <2>1
    <3> QED
      BY <2>1, <3>1 DEF RingInv
  <2>6. w # Word - 1
    BY <2>0 DEF RingInv
  <2> QED
    BY <2>1, <2>3, <2>4, <2>5, <2>6 DEF RingInv, BufferInv
<1> QED
  BY <1>1, <1>2

-----------------------------------------------------------------------------
(* Moving to a larger block: whichever way the memcpy of overlapping bytes  *)
(* comes out, the indices agree and every buffered byte is some byte, and   *)
(* the same byte unless it lies further back than the block has grown.      *)

(* The cells a byte of the chunk may come from. *)
LEMMA FromFacts ==
  ASSUME RingInv, NEW newcap \in 1..MaxCap, cap < newcap, NEW k \in 0..(cap - r - 1)
  PROVE  /\ FromBelow(k, newcap) = r + k
         /\ FromAbove(k, newcap) \in r..(r + k)
         /\ k < newcap - cap => FromAbove(k, newcap) = r + k
<1> DEFINE d == newcap - cap
           m == k % d
<1>0. cap \in Nat /\ r \in Nat /\ k \in Nat /\ k < cap /\ d \in Nat \ {0} /\ newcap \in Nat
  BY Numbers
<1>3. FromAbove(k, newcap) = r + m
  BY DEF FromAbove
<1>4. k < newcap - cap => k < d
  OBVIOUS
<1> HIDE DEF d
<1>1. m \in Nat /\ m <= k
  <2>1. k % d \in 0..(d - 1) /\ k % d <= k
    BY <1>0, ModBound
  <2> QED
    BY <1>0, <2>1
<1>2. k < newcap - cap => m = k
  <2> SUFFICES ASSUME k < newcap - cap PROVE m = k
    OBVIOUS
  <2>1. k \in 0..(d - 1)
    BY <1>0, <1>4
  <2> QED
    BY <1>0, <2>1, ModSmall
<1> HIDE DEF m
<1> QED
  BY <1>0, <1>1, <1>2, <1>3 DEF FromBelow

LEMMA MoveFacts ==
  ASSUME RingInv, NEW newcap \in 1..MaxCap, cap < newcap, len > 0,
         MoveTo(newcap, FromBelow) \/ MoveTo(newcap, FromAbove)
  PROVE  /\ RingInv'
         /\ cap' = newcap /\ UNCHANGED <<w, len, ret>>
         /\ \A k \in 1..len : k <= newcap - cap => mem'[At(k)'] = mem[At(k)]
<1>0. /\ cap \in Nat \ {0} /\ len \in Nat \ {0} /\ r \in Nat /\ r < cap /\ len <= cap
      /\ MaxCap \in Nat /\ Word \in Nat \ {0} /\ 2 * MaxCap < Word /\ newcap \in Nat \ {0}
      /\ cap < newcap /\ newcap <= MaxCap
  BY Numbers
<1>1. cap' = newcap /\ UNCHANGED <<w, len, ret>>
  BY DEF MoveTo
<1>2. w # Word - 1 /\ w \in 0..(cap - 1)
  BY <1>0, Numbers DEF RingInv
<1>3. /\ mem \in [Offsets -> Bytes \cup {Junk}] /\ \A o \in 0..(newcap - 1) : o \in Offsets
      /\ \A o \in Offsets : o \in Nat
  BY <1>0 DEF RingInv, BufferInv, TypeOK, Offsets
<1>4. w + 1 = Wrapped(cap, r + len) \/ (w + 1 = cap /\ Wrapped(cap, r + len) = 0)
  <2>1. At(len + 1) = Wrapped(cap, r + len)
    <3>1. r + (len + 1) - 1 = r + len
      BY <1>0
    <3> QED
      BY <3>1 DEF At
  <2> QED
    BY <1>2, <2>1, StartFacts
<1>5. ((w + 1) % Word) = w + 1
  <2>1. w + 1 \in 0..(Word - 1)
    BY <1>0, <1>2
  <2> QED
    BY <1>0, <2>1, ModSmall
<1>6. \A k \in 1..len : At(k) = Wrapped(cap, r + k - 1) /\ At(k)' = Wrapped(newcap, r' + k - 1)
  BY <1>1 DEF At
<1>7. (w + 1) % newcap = Wrapped(newcap, w + 1)
  <2>1. w + 1 \in 0..(2 * newcap - 1)
    BY <1>0, <1>2
  <2> QED
    BY <1>0, <2>1, WrappedIsMod
<1>8. CASE w < r
  <2> DEFINE newr == newcap - (cap - r)
  <2>1. PICK F \in [0..(cap - r - 1) -> r..(cap - 1)] :
          /\ mem' = [o \in Offsets |-> IF newr <= o /\ o < newcap THEN mem[F[o - newr]] ELSE mem[o]]
          /\ \A k \in 0..(cap - r - 1) : k < newcap - cap => F[k] = r + k
    <3>1. CASE MoveTo(newcap, FromBelow)
      <4> DEFINE F == [k \in 0..(cap - r - 1) |-> FromBelow(k, newcap)]
      <4>1. \A k \in 0..(cap - r - 1) : FromBelow(k, newcap) = r + k /\ r + k \in r..(cap - 1)
        BY <1>0, FromFacts
      <4>2. F \in [0..(cap - r - 1) -> r..(cap - 1)]
        BY <4>1
      <4>3. \A o \in Offsets : newr <= o /\ o < newcap => o - newr \in 0..(cap - r - 1)
        BY <1>0, <1>3
      <4>4. mem' = [o \in Offsets |->
                      IF newr <= o /\ o < newcap THEN mem[FromBelow(o - newr, newcap)] ELSE mem[o]]
        BY <1>8, <3>1 DEF MoveTo
      <4>5. mem' = [o \in Offsets |-> IF newr <= o /\ o < newcap THEN mem[F[o - newr]] ELSE mem[o]]
        BY <4>3, <4>4
      <4> QED
        BY <4>1, <4>2, <4>5
    <3>2. CASE MoveTo(newcap, FromAbove)
      <4> DEFINE F == [k \in 0..(cap - r - 1) |-> FromAbove(k, newcap)]
      <4>0. \A k \in 0..(cap - r - 1) : FromAbove(k, newcap) \in r..(r + k)
        BY <1>0, FromFacts
      <4>1. \A k \in 0..(cap - r - 1) : k < newcap - cap => FromAbove(k, newcap) = r + k
        BY <1>0, FromFacts
      <4>2. F \in [0..(cap - r - 1) -> r..(cap - 1)]
        <5>1. \A k \in 0..(cap - r - 1) : FromAbove(k, newcap) \in r..(cap - 1)
          <6> TAKE k \in 0..(cap - r - 1)
          <6>1. FromAbove(k, newcap) \in r..(r + k)
            BY <4>0
          <6>2. k \in Nat /\ k <= cap - r - 1
            BY <1>0
          <6> QED
            BY <1>0, <6>1, <6>2
        <5> QED
          BY <5>1
      <4>3. \A o \in Offsets : newr <= o /\ o < newcap => o - newr \in 0..(cap - r - 1)
        BY <1>0, <1>3
      <4>4. mem' = [o \in Offsets |->
                      IF newr <= o /\ o < newcap THEN mem[FromAbove(o - newr, newcap)] ELSE mem[o]]
        BY <1>8, <3>2 DEF MoveTo
      <4>5. mem' = [o \in Offsets |-> IF newr <= o /\ o < newcap THEN mem[F[o - newr]] ELSE mem[o]]
        BY <4>3, <4>4
      <4>6. \A k \in 0..(cap - r - 1) : k < newcap - cap => F[k] = r + k
        BY <4>1
      <4> HIDE DEF F
      <4> QED
        BY <4>2, <4>5, <4>6
    <3> QED
      BY <3>1, <3>2
  <2>2. r' = newr
    BY <1>8 DEF MoveTo, MovedRead
  <2> HIDE DEF newr
  <2>3. newr = newcap - (cap - r)
    BY DEF newr
  <2>4. newr \in 0..(newcap - 1) /\ newr > w
    BY <1>0, <1>2, <1>8, <2>3
  <2>5. r + len > cap \/ w + 1 = 0 \/ r + len = cap
    BY <1>0, <1>2, <1>4, <1>8 DEF Wrapped
  <2>6. w + 1 = r + len - cap
    BY <1>0, <1>2, <1>4, <1>8 DEF Wrapped
  <2>7. \A k \in 1..len :
          IF k <= cap - r
          THEN At(k) = r + k - 1 /\ At(k)' = newr + k - 1
          ELSE At(k) = r + k - 1 - cap /\ At(k)' = r + k - 1 - cap
    <3> TAKE k \in 1..len
    <3>1. At(k) = Wrapped(cap, r + k - 1) /\ At(k)' = Wrapped(newcap, newr + k - 1)
      BY <1>6, <2>2
    <3> QED
      BY <1>0, <2>3, <3>1 DEF Wrapped
  <2>8. \A k \in 1..(cap - r) : mem'[newr + k - 1] = mem[F[k - 1]]
    <3> TAKE k \in 1..(cap - r)
    <3>1. newr + k - 1 \in 0..(newcap - 1) /\ newr <= newr + k - 1 /\ newr + k - 1 < newcap
          /\ (newr + k - 1) - newr = k - 1
      BY <1>0, <2>3, <2>4
    <3> QED
      BY <1>3, <2>1, <3>1
  <2>9. \A o \in 0..w : mem'[o] = mem[o]
    <3> TAKE o \in 0..w
    <3>1. o \in 0..(newcap - 1) /\ ~(newr <= o)
      BY <1>0, <1>2, <2>4
    <3> QED
      BY <1>3, <2>1, <3>1
  <2>10. \A o \in r..(cap - 1) : mem[o] \in Bytes
    <3> TAKE o \in r..(cap - 1)
    <3>1. o - r + 1 \in 1..len /\ At(o - r + 1) = o
      <4>1. o - r + 1 \in 1..len /\ o - r + 1 <= cap - r /\ r + (o - r + 1) - 1 = o
        BY <1>0, <1>2, <2>6
      <4> QED
        BY <2>7, <4>1
    <3> QED
      BY <3>1 DEF RingInv
  <2>11. \A k \in 1..len : k <= cap - r => F[k - 1] \in r..(cap - 1) /\ mem'[At(k)'] = mem[F[k - 1]]
    <3> TAKE k \in 1..len
    <3> HAVE k <= cap - r
    <3>1. k \in 1..(cap - r) /\ k - 1 \in 0..(cap - r - 1)
      BY <1>0
    <3> QED
      BY <2>1, <2>7, <2>8, <3>1
  <2>12. \A k \in 1..len : ~(k <= cap - r) => mem'[At(k)'] = mem[At(k)]
    <3> TAKE k \in 1..len
    <3> HAVE ~(k <= cap - r)
    <3>1. At(k)' = At(k) /\ At(k) = r + k - 1 - cap
      BY <2>7
    <3>2. r + k - 1 - cap \in 0..w
      BY <1>0, <1>2, <2>6
    <3> QED
      BY <2>9, <3>1, <3>2
  <2>13. \A k \in 1..len : mem'[At(k)'] \in Bytes
    BY <2>10, <2>11, <2>12 DEF RingInv
  <2>14. \A k \in 1..len : k <= newcap - cap => mem'[At(k)'] = mem[At(k)]
    <3> SUFFICES ASSUME NEW k \in 1..len, k <= newcap - cap PROVE mem'[At(k)'] = mem[At(k)]
      OBVIOUS
    <3>1. CASE k <= cap - r
      <4>1. k - 1 \in 0..(cap - r - 1) /\ r + (k - 1) = r + k - 1 /\ k - 1 < newcap - cap
        BY <1>0, <3>1
      <4>2. F[k - 1] = r + (k - 1)
        BY <2>1, <4>1
      <4>3. At(k) = r + k - 1
        BY <2>7, <3>1
      <4> QED
        BY <2>11, <3>1, <4>1, <4>2, <4>3
    <3> QED
      BY <2>12, <3>1
  <2>15. mem' \in [Offsets -> Bytes \cup {Junk}]
    <3>1. mem' = [o \in Offsets |-> mem'[o]]
      BY <2>1
    <3>2. \A o \in Offsets : mem'[o] \in Bytes \cup {Junk}
      <4> TAKE o \in Offsets
      <4>1. newr <= o /\ o < newcap => o - newr \in 0..(cap - r - 1)
        BY <1>0, <1>3, <2>3
      <4>2. newr <= o /\ o < newcap => F[o - newr] \in r..(cap - 1)
        BY <2>1, <4>1
      <4>3. newr <= o /\ o < newcap => mem'[o] = mem[F[o - newr]]
        BY <2>1
      <4>4. ~(newr <= o /\ o < newcap) => mem'[o] = mem[o]
        BY <2>1
      <4> QED
        BY <1>3, <2>10, <4>2, <4>3, <4>4
    <3> QED
      BY <3>1, <3>2
  <2>16. WriteFollowsData'
    <3>1. newr + len \in 0..(2 * newcap - 1)
      BY <1>0, <2>3
    <3>2. (newr + len) % newcap = Wrapped(newcap, newr + len)
      BY <1>0, <3>1, WrappedIsMod
    <3>3. Wrapped(newcap, w + 1) = Wrapped(newcap, newr + len)
      BY <1>0, <1>2, <2>3, <2>6 DEF Wrapped
    <3> QED
      BY <1>1, <1>5, <1>7, <2>2, <3>2, <3>3 DEF WriteFollowsData, Start
  <2>17. TypeOK'
    <3>1. newcap \in InitCap..MaxCap /\ w \in 0..(newcap - 1) /\ len \in 0..newcap
      BY <1>0, <1>2, Numbers
    <3> QED
      BY <1>1, <2>2, <2>4, <2>15, <3>1 DEF RingInv, BufferInv, TypeOK
  <2>18. RingInv'
    BY <1>1, <1>2, <2>13, <2>16, <2>17 DEF RingInv, BufferInv
  <2> QED
    BY <1>1, <2>14, <2>18
<1>9. CASE ~(w < r)
  <2>1. UNCHANGED <<mem, r>>
    BY <1>9 DEF MoveTo
  <2>2. w + 1 = r + len
    BY <1>0, <1>2, <1>4, <1>9 DEF Wrapped
  <2>3. \A k \in 1..len : At(k)' = At(k)
    <3> TAKE k \in 1..len
    <3>1. At(k) = Wrapped(cap, r + k - 1) /\ At(k)' = Wrapped(newcap, r + k - 1)
      BY <1>6, <2>1
    <3> QED
      BY <1>0, <1>2, <2>2, <3>1 DEF Wrapped
  <2>4. \A k \in 1..len : mem'[At(k)'] = mem[At(k)] /\ mem[At(k)] \in Bytes
    BY <2>1, <2>3 DEF RingInv
  <2>5. WriteFollowsData'
    BY <1>1, <1>5, <2>1, <2>2 DEF WriteFollowsData, Start
  <2>6. TypeOK'
    <3>1. /\ newcap \in InitCap..MaxCap /\ w \in 0..(newcap - 1) /\ len \in 0..newcap
          /\ r \in 0..(newcap - 1)
      BY <1>0, <1>2, Numbers
    <3> QED
      BY <1>1, <2>1, <3>1 DEF RingInv, BufferInv, TypeOK
  <2>7. RingInv'
    BY <1>1, <1>2, <2>4, <2>5, <2>6 DEF RingInv, BufferInv
  <2> QED
    BY <1>1, <2>4, <2>7
<1> QED
  BY <1>8, <1>9

-----------------------------------------------------------------------------
(* Every sequence of calls. *)

LEMMA RingInit ==
  ASSUME Init
  PROVE  RingInv
<1>1. /\ InitCap \in Nat \ {0} /\ MaxCap \in Nat /\ InitCap <= MaxCap /\ Word \in Nat \ {0}
  BY RingConstants
<1>2. Start = 0
  <2>1. Word \in Word..(2 * Word - 1) /\ w + 1 = Word
    BY <1>1 DEF Init
  <2> QED
    BY <1>1, <2>1, ModOnce DEF Start
<1>3. WriteFollowsData
  <2>1. r + len = 0
    BY DEF Init
  <2> QED
    BY <1>2, <2>1 DEF WriteFollowsData
<1>4. TypeOK
  <2>1. <<>> \in Seq(Bytes)
    OBVIOUS
  <2> QED
    BY <1>1, <2>1 DEF Init, TypeOK, Ret
<1>5. \A k \in 1..len : FALSE
  BY DEF Init
<1> QED
  BY <1>3, <1>4, <1>5 DEF Init, RingInv, BufferInv

LEMMA Lengths ==
  ASSUME RingInv, NEW data \in Data
  PROVE  /\ data \in Seq(Bytes) /\ Len(data) \in Nat
         /\ Accepted(Len(data)) \in Nat /\ Accepted(Len(data)) <= Len(data)
         /\ Room(Accepted(Len(data)))
<1>1. data \in Seq(Bytes) /\ Len(data) \in Nat
  BY RingConstants DEF Data
<1> QED
  BY <1>1, Numbers DEF Accepted, Least, Room

LEMMA TakenLength ==
  ASSUME RingInv, NEW n \in 0..MaxLen
  PROVE  Least(len, n) \in 0..len
BY Numbers, RingConstants DEF Least

LEMMA GrowthFacts ==
  ASSUME RingInv, NEW g \in Growths, g[1] = cap
  PROVE  g[2] \in 1..MaxCap /\ cap < g[2]
BY RingConstants

LEMMA NextInv ==
  ASSUME RingInv, Next
  PROVE  RingInv'
<1>1. ASSUME NEW data \in Data, Write(data)
      PROVE  RingInv'
  BY <1>1, Lengths, PutInv DEF Write
<1>2. ASSUME NEW data \in Data, WriteX(data)
      PROVE  RingInv'
  BY <1>1, <1>2, NothingTaken DEF WriteX
<1>3. ASSUME NEW n \in 0..MaxLen, Read(n)
      PROVE  RingInv'
  BY <1>3, TakenLength, TakeInv DEF Read
<1>4. ASSUME NEW n \in 0..MaxLen, ReadX(n)
      PROVE  RingInv'
  BY <1>3, <1>4, NothingTaken DEF ReadX
<1>5. CASE Move
  <2>1. PICK g \in Growths : g[1] = cap /\ len > 0
                             /\ (MoveTo(g[2], FromBelow) \/ MoveTo(g[2], FromAbove))
    BY <1>5 DEF Move
  <2> QED
    BY <2>1, GrowthFacts, MoveFacts
<1> QED
  BY <1>1, <1>2, <1>3, <1>4, <1>5 DEF Next

LEMMA StutterInv ==
  ASSUME RingInv, UNCHANGED vars
  PROVE  RingInv'
BY DEF vars, RingInv, BufferInv, TypeOK, WriteFollowsData, Start, At

(* However the calls of p_ringbuf_write, read and move are mixed, and       *)
(* whatever the block grows to, r, w, len and cap stay in range and the     *)
(* next byte is written right behind the last one to be read.               *)
THEOREM BufferSound == Spec => []BufferInv
<1>1. Init => RingInv
  BY RingInit
<1>2. RingInv /\ [Next]_vars => RingInv'
  BY NextInv, StutterInv
<1>3. RingInv => BufferInv
  BY DEF RingInv
<1> QED
  BY <1>1, <1>2, <1>3, PTL DEF Spec

-----------------------------------------------------------------------------
(* The queue the buffer stands for. *)

QueueOf(c, a, l, m) == [k \in 1..l |-> m[(a + k - 1) % c]]

LEMMA QueueCells ==
  ASSUME NEW c \in Nat \ {0}, NEW a \in 0..(c - 1), NEW l \in 0..c, NEW m,
         \A k \in 1..l : m[Wrapped(c, a + k - 1)] \in Bytes
  PROVE  /\ QueueOf(c, a, l, m) \in Seq(Bytes)
         /\ Len(QueueOf(c, a, l, m)) = l
         /\ \A k \in 1..l : QueueOf(c, a, l, m)[k] = m[Wrapped(c, a + k - 1)]
<1>1. l \in Nat
  OBVIOUS
<1>2. \A k \in 1..l : (a + k - 1) % c = Wrapped(c, a + k - 1)
  <2> TAKE k \in 1..l
  <2>1. a + k - 1 \in 0..(2 * c - 1)
    OBVIOUS
  <2> QED
    BY <2>1, WrappedIsMod
<1>3. \A k \in 1..l : m[(a + k - 1) % c] = m[Wrapped(c, a + k - 1)]
  BY <1>2
<1>4. QueueOf(c, a, l, m) \in [1..l -> Bytes]
  BY <1>3 DEF QueueOf
<1>5. QueueOf(c, a, l, m) \in Seq(Bytes) /\ Len(QueueOf(c, a, l, m)) = l
  BY <1>1, <1>4
<1> QED
  BY <1>3, <1>5 DEF QueueOf

LEMMA QueueNow ==
  ASSUME RingInv
  PROVE  /\ Queue \in Seq(Bytes) /\ Len(Queue) = len
         /\ \A k \in 1..len : Queue[k] = mem[At(k)]
<1>1. Queue = QueueOf(cap, r, len, mem)
  BY DEF Queue, QueueOf
<1>2. cap \in Nat \ {0} /\ r \in 0..(cap - 1) /\ len \in 0..cap
  BY RingConstants DEF RingInv, BufferInv, TypeOK
<1>3. \A k \in 1..len : mem[Wrapped(cap, r + k - 1)] \in Bytes
  BY DEF RingInv, At
<1>4. /\ QueueOf(cap, r, len, mem) \in Seq(Bytes)
      /\ Len(QueueOf(cap, r, len, mem)) = len
      /\ \A k \in 1..len : QueueOf(cap, r, len, mem)[k] = mem[Wrapped(cap, r + k - 1)]
  BY <1>2, <1>3, QueueCells, ZenonT(60)
<1> QED
  BY <1>1, <1>4 DEF At

LEMMA QueueNext ==
  ASSUME RingInv'
  PROVE  /\ Queue' \in Seq(Bytes) /\ Len(Queue') = len'
         /\ \A k \in 1..len' : Queue'[k] = mem'[At(k)']
<1>1. Queue' = QueueOf(cap', r', len', mem')
  BY DEF Queue, QueueOf
<1>2. cap' \in Nat \ {0} /\ r' \in 0..(cap' - 1) /\ len' \in 0..cap'
  <2>1. cap' \in InitCap..MaxCap /\ r' \in 0..(cap' - 1) /\ len' \in 0..cap'
    BY DEF RingInv, BufferInv, TypeOK
  <2>2. InitCap \in Nat \ {0} /\ MaxCap \in Nat
    BY RingConstants
  <2>3. cap' \in Nat \ {0}
    BY <2>1, <2>2
  <2> QED
    BY <2>1, <2>3
<1>3. \A k \in 1..len' : mem'[Wrapped(cap', r' + k - 1)] \in Bytes
  BY DEF RingInv, At
<1>4. /\ QueueOf(cap', r', len', mem') \in Seq(Bytes)
      /\ Len(QueueOf(cap', r', len', mem')) = len'
      /\ \A k \in 1..len' : QueueOf(cap', r', len', mem')[k] = mem'[Wrapped(cap', r' + k - 1)]
  BY <1>2, <1>3, QueueCells, ZenonT(60)
<1> QED
  BY <1>1, <1>4 DEF At

(* A write appends. *)
LEMMA PutQueue ==
  ASSUME RingInv, NEW data \in Data, NEW n \in Nat, n <= Len(data), Room(n),
         Put(data, n)
  PROVE  Abstract!Put(data, n)
<1>0. data \in Seq(Bytes) /\ len \in Nat /\ n \in Nat /\ n \in 0..Len(data)
  BY Lengths, Numbers
<1> DEFINE part == SubSeq(data, 1, n)
           q == Queue
           q2 == Queue'
<1>1. /\ r' = r /\ cap' = cap /\ len' = len + n /\ ret' = Ret(n, <<>>)
  BY DEF Put
<1>2. /\ \A k \in 1..len : mem'[At(k)] = mem[At(k)]
      /\ \A j \in 1..n : mem'[At(len + j)] = data[j]
  BY PutMem
<1>3. part \in Seq(Bytes) /\ Len(part) = n /\ \A j \in 1..n : part[j] = data[j]
  BY <1>0, SubSeqProperties
<1>4. q \in Seq(Bytes) /\ Len(q) = len /\ \A k \in 1..len : q[k] = mem[At(k)]
  BY QueueNow
<1>5. q2 \in Seq(Bytes) /\ Len(q2) = len + n /\ \A k \in 1..(len + n) : q2[k] = mem'[At(k)]
  <2>1. RingInv'
    BY PutInv
  <2>2. \A k : At(k)' = At(k)
    BY <1>1 DEF At
  <2> QED
    BY <1>1, <2>1, <2>2, QueueNext
<1> HIDE DEF part, q, q2
<1>6. /\ q \o part \in Seq(Bytes) /\ Len(q \o part) = len + n
      /\ \A k \in 1..(len + n) : (q \o part)[k] = IF k <= len THEN q[k] ELSE part[k - len]
  BY <1>3, <1>4, ConcatProperties
<1>7. \A k \in 1..(len + n) : q2[k] = (q \o part)[k]
  <2> TAKE k \in 1..(len + n)
  <2>1. CASE k <= len
    <3>1. k \in 1..len
      BY <1>0, <2>1
    <3> QED
      BY <1>2, <1>4, <1>5, <1>6, <2>1, <3>1
  <2>2. CASE k > len
    <3>1. k - len \in 1..n /\ len + (k - len) = k /\ ~(k <= len)
      BY <1>0, <2>2
    <3>2. mem'[At(k)] = data[k - len]
      BY <1>2, <3>1
    <3> QED
      BY <1>3, <1>5, <1>6, <3>1, <3>2
  <2>3. k <= len \/ k > len
    BY <1>0
  <2> QED
    BY <2>1, <2>2, <2>3
<1>8. q2 = q \o part
  BY <1>5, <1>6, <1>7, SeqEqual
<1> QED
  BY <1>1, <1>8 DEF Abstract!Put, Abstract!Ret, Ret, part, q, q2

(* A read takes off the front. *)
LEMMA TakeQueue ==
  ASSUME RingInv, NEW n \in 0..len, Take(n)
  PROVE  Abstract!Take(n)
<1>0. len \in Nat /\ n \in Nat /\ n <= len
  BY Numbers
<1> DEFINE q == Queue
           q2 == Queue'
           left == SubSeq(q, n + 1, Len(q))
           front == SubSeq(q, 1, n)
<1>1. q \in Seq(Bytes) /\ Len(q) = len /\ \A k \in 1..len : q[k] = mem[At(k)]
  BY QueueNow
<1>2. front \in Seq(Bytes) /\ Len(front) = n /\ \A k \in 1..n : front[k] = q[k]
  <2> HIDE DEF q
  <2> QED
    BY <1>0, <1>1, SubSeqProperties
<1>3. left \in Seq(Bytes) /\ Len(left) = len - n /\ \A k \in 1..(len - n) : left[k] = q[n + k]
  <2> HIDE DEF q
  <2>1. n + 1 \in 1..(len + 1) /\ len \in n..len
    BY <1>0
  <2>2. left \in Seq(Bytes)
    BY <1>0, <1>1, <2>1, SubSeqProperties
  <2>3. Len(left) = len - n /\ \A k \in 1..(len - n) : left[k] = q[(n + 1) + k - 1]
    BY <1>0, <1>1, <2>1, SubSeqProperties
  <2>4. \A k \in 1..(len - n) : (n + 1) + k - 1 = n + k
    BY <1>0
  <2> QED
    BY <2>2, <2>3, <2>4
<1>4. CASE n = 0
  <2>1. ret' = Ret(0, <<>>) /\ UNCHANGED <<r, w, cap, len, mem>>
    BY <1>4 DEF Take
  <2>2. q2 = q
    BY <2>1 DEF Queue
  <2>3. left = q
    <3> HIDE DEF q
    <3>1. \A k \in 1..len : left[k] = q[k]
      BY <1>0, <1>3, <1>4
    <3>2. Len(left) = len
      BY <1>0, <1>3, <1>4
    <3> HIDE DEF left
    <3> QED
      BY <1>1, <1>3, <3>1, <3>2, SeqEqual
  <2>4. front = <<>>
    <3> HIDE DEF q, front
    <3> QED
      BY <1>2, <1>4
  <2> QED
    BY <1>4, <2>1, <2>2, <2>3, <2>4 DEF Abstract!Take, Abstract!Ret, Ret
<1>5. CASE n # 0
  <2>0. n \in 1..len
    BY <1>0, <1>5
  <2>1. /\ len' = len - n /\ UNCHANGED <<w, cap, mem>>
        /\ \A k \in 1..(len - n) : At(k)' = At(n + k)
    BY <2>0, TakePlace
  <2>2. ret'.n = n /\ ret'.bytes = [k \in 1..n |-> mem[At(k)]] /\ ret'.bytes \in Seq(Bytes)
    BY <2>0, TakeBytes
  <2>3. ret' = Ret(n, ret'.bytes)
    BY <1>5 DEF Take, Ret
  <2>4. ret'.bytes = front
    <3>1. \A k \in 1..n : ret'.bytes[k] = front[k]
      <4> HIDE DEF q, front
      <4>1. \A k \in 1..n : k \in 1..len
        BY <1>0
      <4> QED
        BY <1>1, <1>2, <2>2, <4>1
    <3>2. Len(ret'.bytes) = n
      BY <1>0, <2>2
    <3> HIDE DEF front
    <3> QED
      BY <1>2, <2>2, <3>1, <3>2, SeqEqual
  <2>5. q2 \in Seq(Bytes) /\ Len(q2) = len - n /\ \A k \in 1..(len - n) : q2[k] = mem[At(n + k)]
    BY <2>1, TakeInv, QueueNext
  <2>6. \A k \in 1..(len - n) : left[k] = q2[k]
    <3> HIDE DEF q, q2, left
    <3> TAKE k \in 1..(len - n)
    <3>1. n + k \in 1..len
      BY <1>0
    <3> QED
      BY <1>1, <1>3, <2>5, <3>1
  <2>7. q2 = left
    <3> HIDE DEF q, q2, left
    <3> QED
      BY <1>3, <2>5, <2>6, SeqEqual
  <2> QED
    BY <2>1, <2>3, <2>4, <2>7 DEF Abstract!Take, Abstract!Ret, Ret
<1> QED
  BY <1>4, <1>5

(* Nothing transferred is a transfer of no bytes. *)
LEMMA NothingQueue ==
  ASSUME RingInv, ret' = Ret(0, <<>>), UNCHANGED <<r, w, cap, len, mem>>
  PROVE  /\ \A data \in Data : Abstract!Put(data, 0)
         /\ Abstract!Take(0)
<1>1. 0 \in 0..len
  BY Numbers
<1>2. Abstract!Take(0)
  BY <1>1, TakeQueue DEF Take
<1>3. Queue' = Queue
  BY DEF Queue
<1>4. \A data \in Data : SubSeq(data, 1, 0) = <<>>
  <2> TAKE data \in Data
  <2>1. data \in Seq(Bytes) /\ 0 \in 0..Len(data)
    BY Lengths
  <2>2. SubSeq(data, 1, 0) \in Seq(Bytes) /\ Len(SubSeq(data, 1, 0)) = 0
    BY <2>1, SubSeqProperties
  <2> QED
    BY <2>2
<1>5. Queue \o <<>> = Queue
  <2>1. Queue \in Seq(Bytes)
    BY QueueNow
  <2> QED
    BY <2>1
<1> QED
  BY <1>2, <1>3, <1>4, <1>5 DEF Abstract!Put, Abstract!Ret, Ret

LEMMA MoveQueue ==
  ASSUME RingInv, Move
  PROVE  Abstract!Move
<1>1. PICK g \in Growths : g[1] = cap /\ len > 0
                           /\ (MoveTo(g[2], FromBelow) \/ MoveTo(g[2], FromAbove))
  BY DEF Move
<1>2. g[2] \in 1..MaxCap /\ cap < g[2]
  BY <1>1, GrowthFacts
<1>3. /\ RingInv' /\ cap' = g[2] /\ UNCHANGED <<w, len, ret>>
      /\ \A k \in 1..len : k <= cap' - cap => mem'[At(k)'] = mem[At(k)]
  BY <1>1, <1>2, MoveFacts
<1>4. /\ DOMAIN Queue = 1..len /\ Queue' \in [1..len -> Bytes]
      /\ \A k \in 1..len : k <= cap' - cap => Queue'[k] = Queue[k]
  <2> DEFINE q == Queue
             q2 == Queue'
  <2>1. q \in Seq(Bytes) /\ Len(q) = len /\ \A k \in 1..len : q[k] = mem[At(k)]
    BY QueueNow
  <2>2. q2 \in Seq(Bytes) /\ Len(q2) = len /\ \A k \in 1..len : q2[k] = mem'[At(k)']
    BY <1>3, QueueNext
  <2>3. DOMAIN q = 1..len /\ DOMAIN q2 = 1..len
    <3>1. len' = len
      BY <1>3
    <3> QED
      BY <3>1 DEF Queue
  <2> HIDE DEF q, q2
  <2>4. q2 \in [1..len -> Bytes]
    BY <2>2, <2>3
  <2>5. \A k \in 1..len : k <= cap' - cap => q2[k] = q[k]
    BY <1>3, <2>1, <2>2
  <2> QED
    BY <2>3, <2>4, <2>5 DEF q, q2
<1>5. cap' \in (cap + 1)..MaxCap
  BY <1>2, <1>3, Numbers
<1> QED
  BY <1>3, <1>4, <1>5 DEF Abstract!Move

LEMMA NextQueue ==
  ASSUME RingInv, Next
  PROVE  Abstract!Next
<1>0. Len(Queue) = len /\ Abstract!Room = cap - len
  BY QueueNow DEF Abstract!Room
<1>1. ASSUME NEW data \in Data, Write(data)
      PROVE  Abstract!Write(data)
  <2>1. Abstract!Put(data, Accepted(Len(data)))
    BY <1>1, Lengths, PutQueue DEF Write
  <2> QED
    BY <1>0, <2>1 DEF Abstract!Write, Abstract!Least, Accepted, Least
<1>2. ASSUME NEW data \in Data, WriteX(data)
      PROVE  Abstract!WriteX(data)
  <2>1. CASE cap - len < Len(data)
    BY <1>0, <1>2, <2>1, NothingQueue DEF WriteX, Abstract!WriteX
  <2>2. CASE ~(cap - len < Len(data))
    <3>1. Abstract!Put(data, Accepted(Len(data)))
      BY <1>2, <2>2, Lengths, PutQueue DEF WriteX, Write
    <3>2. Accepted(Len(data)) = Len(data)
      BY <2>2, Lengths, Numbers DEF Accepted, Least
    <3> QED
      BY <1>0, <2>2, <3>1, <3>2 DEF Abstract!WriteX
  <2> QED
    BY <2>1, <2>2
<1>3. ASSUME NEW n \in 0..MaxLen, Read(n)
      PROVE  Abstract!Read(n)
  <2>1. Abstract!Take(Least(len, n))
    BY <1>3, TakenLength, TakeQueue DEF Read
  <2> QED
    BY <1>0, <2>1 DEF Abstract!Read, Abstract!Least, Least
<1>4. ASSUME NEW n \in 0..MaxLen, ReadX(n)
      PROVE  Abstract!ReadX(n)
  <2>1. CASE len < n
    BY <1>0, <1>4, <2>1, NothingQueue DEF ReadX, Abstract!ReadX
  <2>2. CASE ~(len < n)
    <3>1. Abstract!Take(Least(len, n))
      BY <1>4, <2>2, TakenLength, TakeQueue DEF ReadX, Read
    <3>2. Least(len, n) = n
      BY <2>2, Numbers, RingConstants DEF Least
    <3> QED
      BY <1>0, <2>2, <3>1, <3>2 DEF Abstract!ReadX
  <2> QED
    BY <2>1, <2>2
<1>5. Move => Abstract!Move
  BY MoveQueue
<1> QED
  BY <1>1, <1>2, <1>3, <1>4, <1>5 DEF Next, Abstract!Next, Data, Abstract!Data

(* The ring is the queue of bytes of ByteQueue, whatever its block grows by: *)
(* what is read is what was written, in order, through every wrap-around of  *)
(* the indices, and a move keeps the count and the bytes up to as far back   *)
(* as the block has grown.                                                   *)
THEOREM RingIsQueue == Spec => ImplementsByteQueue
<1>1. Init => RingInv /\ Abstract!Init
  <2> SUFFICES ASSUME Init PROVE RingInv /\ Abstract!Init
    OBVIOUS
  <2>1. RingInv
    BY RingInit
  <2>2. Queue \in Seq(Bytes) /\ Len(Queue) = 0
    BY <2>1, QueueNow DEF Init
  <2>3. Queue = <<>>
    BY <2>2
  <2> QED
    BY <2>1, <2>3 DEF Init, Abstract!Init, Abstract!Ret, Ret
<1>2. RingInv /\ [Next]_vars => RingInv' /\ [Abstract!Next]_(Abstract!qvars)
  <2> SUFFICES ASSUME RingInv, [Next]_vars
               PROVE  RingInv' /\ [Abstract!Next]_(Abstract!qvars)
    OBVIOUS
  <2>1. CASE Next
    BY <2>1, NextInv, NextQueue
  <2>2. CASE UNCHANGED vars
    BY <2>2, StutterInv DEF vars, Abstract!qvars, Queue
  <2> QED
    BY <2>1, <2>2
<1> QED
  BY <1>1, <1>2, PTL DEF Spec, ImplementsByteQueue, Abstract!Spec
=============================================================================
