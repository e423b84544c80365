---------------------------- MODULE JsFilesProofs ----------------------------
(***************************************************************************)
(* What a program writes to a picked file replaces the file whole or not at*)
(* all, for any numbers of regions and of writes, any failures and any end *)
(* of the program, but for the writes whose memory the program does not    *)
(* leave alone until they have landed; MemoryFile implements a file of     *)
(* bytes, for any bytes, handles, page size and lengths of calls; and reads*)
(* of a picked file give a program its stream, for any chunks and reads.   *)
(***************************************************************************)
EXTENDS JsFiles, SequenceTheorems, TLAPS

(* What the memory holds at a place, and the memory. *)
Values == 1..2
Memory(R, D) == [R -> D]

Views == [write : 1..MaxWrites, at : Regions]
Bytes == [write : 1..MaxWrites, byte : Values]

OutputType ==
  /\ attached \in BOOLEAN /\ failed \in BOOLEAN /\ touched \subseteq 1..MaxWrites
  /\ regions \in Memory(Regions, Values) /\ queue \in Seq(Views)
  /\ written \in Seq(Values) /\ Len(written) <= MaxWrites
  /\ landed \in Seq(Bytes)

(* The memory m shows at a view what was written, by the history w.         *)
Holds(v, m, w) == m[v.at] = w[v.write]

(* The writes that wait are those of their place in the program, behind all *)
(* that has been taken, and their views still show what was written unless  *)
(* they are touched.                                                        *)
QueueInv ==
  \A k \in 1..Len(queue) :
    /\ queue[k].write <= Len(written)
    /\ queue[k].write \in touched \/ (attached /\ Holds(queue[k], regions, written))
    /\ \A j \in 1..(k - 1) : queue[j].write < queue[k].write
    /\ \A j \in 1..Len(landed) : landed[j].write < queue[k].write

LandedInv == \A k \in 1..Len(landed) : landed[k].write <= Len(written)

(* The writable stream lives until it is closed or in error, and what is    *)
(* committed is final.                                                      *)
StreamInv ==
  /\ failed => queue = <<>>
  /\ web = "closing" => ~failed
  /\ disk # None => web = "closed" /\ kind = "picked"
  /\ web # "closed" => kind = "picked"

OutputInv ==
  /\ OutputType /\ QueueInv /\ LandedInv /\ StreamInv /\ AllOrNothing

-----------------------------------------------------------------------------
LEMMA Bound == MaxWrites \in Nat
BY FilesConstants DEF FilesConstants

LEMMA Domains ==
  ASSUME OutputType
  PROVE  /\ DOMAIN queue = 1..Len(queue) /\ Len(queue) \in Nat
         /\ DOMAIN landed = 1..Len(landed) /\ Len(landed) \in Nat
         /\ DOMAIN written = 1..Len(written) /\ Len(written) \in Nat
         /\ \A k \in 1..Len(queue) : queue[k] \in Views
         /\ \A k \in 1..Len(landed) : landed[k] \in Bytes
BY LenProperties, ElementOfSeq DEF OutputType

LEMMA OutputInit == FilesConstants /\ Init => OutputInv
<1> SUFFICES ASSUME FilesConstants, Init PROVE OutputInv
  OBVIOUS
<1>1. OutputType
  <2>1. <<>> \in Seq(Views) /\ <<>> \in Seq(Values) /\ <<>> \in Seq(Bytes) /\ Len(<<>>) = 0
    BY EmptySeq
  <2>2. [p \in Regions |-> 1] \in Memory(Regions, Values)
    BY DEF Values, Memory
  <2>3. /\ attached = TRUE /\ failed = FALSE /\ touched = {} /\ queue = <<>> /\ written = <<>>
        /\ landed = <<>> /\ regions = [p \in Regions |-> 1]
    BY DEF Init
  <2>4. Len(written) <= MaxWrites
    BY <2>1, <2>3, Bound
  <2> QED
    BY <2>1, <2>2, <2>3, <2>4 DEF OutputType
<1>2. queue = <<>> /\ landed = <<>> /\ written = <<>> /\ disk = None /\ failed = FALSE
      /\ web = "closed"
  BY DEF Init
<1>3. Len(queue) = 0 /\ Len(landed) = 0 /\ DOMAIN landed = {} /\ DOMAIN written = {}
  BY <1>2, EmptySeq
<1>4. QueueInv /\ LandedInv
  BY <1>3 DEF QueueInv, LandedInv
<1>5. AllOrNothing
  BY <1>2, <1>3 DEF AllOrNothing, LandedAsWritten, NoneMissing
<1> QED
  BY <1>1, <1>2, <1>4, <1>5 DEF OutputInv, StreamInv

(* Steps that leave the output and the memory as they are. *)
LEMMA OutputKept ==
  ASSUME OutputInv, UNCHANGED <<output, attached>>,
         web' = "closing" => web = "closing" \/ ~failed,
         disk # None => web' = "closed" /\ kind' = "picked",
         web' # "closed" => kind' = "picked"
  PROVE  OutputInv'
<1> USE DEF output
<1>1. OutputType' /\ LandedInv'
  BY DEF OutputInv, OutputType, LandedInv
<1>2. QueueInv'
  BY DEF OutputInv, QueueInv
<1>3. StreamInv'
  BY DEF OutputInv, StreamInv, None
<1>4. AllOrNothing'
  BY DEF OutputInv, AllOrNothing, LandedAsWritten, NoneMissing, None
<1> QED
  BY <1>1, <1>2, <1>3, <1>4 DEF OutputInv

-----------------------------------------------------------------------------
(* The memory changes under what waits. *)
LEMMA MemoryChanges ==
  ASSUME OutputInv, NEW T \in SUBSET (1..MaxWrites), touched' = touched \cup T,
         \A k \in 1..Len(queue) :
           queue[k].write \in T \/ (attached' = attached /\ regions'[queue[k].at] = regions[queue[k].at]),
         attached' \in BOOLEAN, regions' \in Memory(Regions, Values),
         UNCHANGED <<kind, web, written, queue, failed, landed, disk>>
  PROVE  OutputInv'
<1>1. OutputType' /\ LandedInv'
  BY DEF OutputInv, OutputType, LandedInv
<1>2. QueueInv'
  <2> SUFFICES ASSUME NEW k \in 1..Len(queue)
               PROVE  queue[k].write \in touched'
                        \/ (attached' /\ Holds(queue[k], regions', written))
    BY DEF OutputInv, QueueInv
  <2>1. queue[k].write \in touched \/ (attached /\ Holds(queue[k], regions, written))
    BY DEF OutputInv, QueueInv
  <2> QED
    BY <2>1 DEF Holds
<1>3. StreamInv'
  BY DEF OutputInv, StreamInv, None
<1>4. LandedAsWritten' /\ NoneMissing'
  BY DEF OutputInv, AllOrNothing, LandedAsWritten, NoneMissing
<1> QED
  BY <1>1, <1>2, <1>3, <1>4 DEF OutputInv, AllOrNothing, None

LEMMA GrowOutput == ASSUME OutputInv, Grow PROVE OutputInv'
<1> DEFINE T == {queue[k].write : k \in DOMAIN queue}
<1>1. OutputType
  BY DEF OutputInv
<1>2. T \in SUBSET (1..MaxWrites) /\ \A k \in 1..Len(queue) : queue[k].write \in T
  BY <1>1, Domains DEF Views
<1>3. /\ attached' = FALSE /\ touched' = touched \cup T
      /\ UNCHANGED <<kind, web, regions, written, queue, failed, landed, disk>>
  BY DEF Grow
<1>4. regions' \in Memory(Regions, Values)
  BY <1>1, <1>3 DEF OutputType
<1> HIDE DEF T
<1> QED
  BY <1>2, <1>3, <1>4, MemoryChanges

LEMMA ReuseOutput ==
  ASSUME OutputInv, NEW p \in Regions, Reuse(p)
  PROVE  OutputInv'
<1> DEFINE T == {queue[k].write : k \in {j \in DOMAIN queue : queue[j].at = p}}
<1>1. OutputType
  BY DEF OutputInv
<1>2. /\ T \in SUBSET (1..MaxWrites)
      /\ \A k \in 1..Len(queue) : queue[k].at \in Regions /\ (queue[k].at = p => queue[k].write \in T)
  BY <1>1, Domains DEF Views
<1>3. /\ regions' = [regions EXCEPT ![p] = 3 - @] /\ touched' = touched \cup T
      /\ UNCHANGED <<kind, web, attached, written, queue, failed, landed, disk>>
  BY DEF Reuse
<1>4. regions' \in Memory(Regions, Values)
  <2>1. regions \in Memory(Regions, Values) /\ 3 - regions[p] \in Values
    BY <1>1 DEF OutputType, Values, Memory
  <2> QED
    BY <1>3, <2>1 DEF Memory
<1>5. \A r \in Regions : r # p => regions'[r] = regions[r]
  BY <1>1, <1>3 DEF OutputType, Memory
<1>6. attached' \in BOOLEAN
  BY <1>1, <1>3 DEF OutputType
<1> HIDE DEF T
<1> QED
  BY <1>2, <1>3, <1>4, <1>5, <1>6, MemoryChanges

-----------------------------------------------------------------------------
(* What every write does, queued or not. *)
LEMMA WriteTypes ==
  ASSUME FilesConstants, OutputInv, NEW p \in Regions, Write(p)
  PROVE  /\ written' \in Seq(Values) /\ Len(written') = Len(written) + 1
         /\ Len(written) + 1 \in 1..MaxWrites
         /\ written'[Len(written) + 1] = regions[p]
         /\ \A k \in 1..Len(written) : written'[k] = written[k]
         /\ UNCHANGED <<attached, kind, web, regions, failed, landed, disk>>
         /\ web = "open" /\ disk = None
<1>1. OutputType /\ StreamInv
  BY DEF OutputInv
<1>2. regions[p] \in Values
  BY <1>1 DEF OutputType, Memory
<1>3. Len(written) \in Nat /\ Len(written) < MaxWrites /\ MaxWrites \in Nat
  BY <1>1, Domains DEF Write, FilesConstants
<1>4. written \in Seq(Values)
  BY <1>1 DEF OutputType
<1> QED
  BY <1>1, <1>2, <1>3, <1>4, AppendProperties DEF Write, StreamInv

(* A write that is not queued. *)
LEMMA UnqueuedOutput ==
  ASSUME FilesConstants, OutputInv, NEW p \in Regions, Write(p), queue' = queue,
         \/ failed /\ touched' = touched
         \/ touched' = touched \cup {Len(written) + 1}
  PROVE  OutputInv'
<1>1. OutputType /\ QueueInv /\ LandedInv /\ StreamInv /\ AllOrNothing
  BY DEF OutputInv
<1>c. /\ written' \in Seq(Values) /\ Len(written') = Len(written) + 1
      /\ Len(written) + 1 \in 1..MaxWrites
      /\ \A k \in 1..Len(written) : written'[k] = written[k]
      /\ UNCHANGED <<attached, kind, web, regions, failed, landed, disk, queue>>
      /\ web = "open" /\ disk = None
  BY WriteTypes
<1>2. /\ Len(written) \in Nat /\ DOMAIN written = 1..Len(written)
      /\ DOMAIN written' = 1..Len(written') /\ Len(written') = Len(written) + 1
      /\ \A n \in 1..Len(written') : n \in 1..Len(written) \/ n = Len(written) + 1
  BY <1>1, <1>c, Domains, LenProperties
<1>3. touched \subseteq touched' /\ touched' \subseteq 1..MaxWrites
  BY <1>1, <1>c DEF OutputType
<1>4. OutputType'
  BY <1>1, <1>2, <1>3, <1>c, Bound DEF OutputType
<1>a. \A k \in 1..Len(landed) : landed[k].write \in 1..Len(written)
  <2>1. \A k \in 1..Len(landed) : landed[k].write \in 1..MaxWrites
    BY <1>1, Domains DEF Bytes
  <2> QED
    BY <1>1, <1>2, <2>1, Bound DEF LandedInv
<1>b. \A k \in 1..Len(queue) : queue[k].write \in 1..Len(written)
  <2>1. \A k \in 1..Len(queue) : queue[k].write \in 1..MaxWrites
    BY <1>1, Domains DEF Views
  <2> QED
    BY <1>1, <1>2, <2>1, Bound DEF QueueInv
<1>5. LandedInv'
  BY <1>2, <1>a, <1>c DEF LandedInv
<1>6. QueueInv'
  <2>2. \A k \in 1..Len(queue) :
          queue[k].write \in touched' \/ (attached' /\ Holds(queue[k], regions', written'))
    BY <1>1, <1>3, <1>b, <1>c DEF QueueInv, Holds
  <2> QED
    BY <1>1, <1>2, <1>b, <1>c, <2>2 DEF QueueInv
<1>7. LandedAsWritten'
  BY <1>1, <1>3, <1>a, <1>c, Domains DEF AllOrNothing, LandedAsWritten
<1>8. NoneMissing'
  <2>1. CASE failed
    BY <1>c, <2>1 DEF NoneMissing
  <2>2. CASE ~failed
    <3>1. Len(written) + 1 \in touched'
      BY <2>2
    <3> QED
      BY <1>1, <1>2, <1>3, <1>c, <2>2, <3>1 DEF AllOrNothing, NoneMissing
  <2> QED
    BY <2>1, <2>2
<1>9. StreamInv' /\ disk' = None
  BY <1>1, <1>c DEF StreamInv, None
<1> QED
  BY <1>4, <1>5, <1>6, <1>7, <1>8, <1>9 DEF OutputInv, AllOrNothing, None

LEMMA WriteOutput ==
  ASSUME FilesConstants, OutputInv, NEW p \in Regions, WritePicked(p)
  PROVE  OutputInv'
<1> DEFINE v == [write |-> Len(written) + 1, at |-> p]
           n == Len(queue)
<1>0. Write(p) /\ attached /\ ~failed /\ queue' = Append(queue, v) /\ touched' = touched
  BY DEF WritePicked, Queued
<1>1. OutputType /\ QueueInv /\ LandedInv /\ StreamInv /\ AllOrNothing
  BY DEF OutputInv
<1>2. /\ written' \in Seq(Values) /\ Len(written') = Len(written) + 1
      /\ Len(written) + 1 \in 1..MaxWrites
      /\ written'[Len(written) + 1] = regions[p]
      /\ \A k \in 1..Len(written) : written'[k] = written[k]
      /\ UNCHANGED <<attached, kind, web, regions, failed, landed, disk>>
      /\ web = "open" /\ disk = None
  BY <1>0, WriteTypes
<1>3. Len(written) \in Nat /\ DOMAIN written = 1..Len(written)
      /\ DOMAIN written' = 1..Len(written')
  BY <1>1, <1>2, Domains, LenProperties
<1>4. v \in Views /\ v.write = Len(written) + 1 /\ v.at = p
  BY <1>2 DEF Views
<1>5. queue \in Seq(Views)
  BY <1>1 DEF OutputType
<1> HIDE DEF v
<1>6. /\ queue' \in Seq(Views) /\ Len(queue') = n + 1 /\ n \in Nat /\ queue'[n + 1] = v
      /\ \A k \in 1..n : queue'[k] = queue[k]
  BY <1>0, <1>4, <1>5, AppendProperties, LenProperties
<1>7. DOMAIN queue' = 1..(n + 1) /\ DOMAIN queue = 1..n
  BY <1>5, <1>6, LenProperties
<1> HIDE DEF n
<1>8. OutputType'
  BY <1>0, <1>1, <1>2, <1>3, <1>6 DEF OutputType, FilesConstants
<1>9. LandedInv'
  BY <1>1, <1>2, <1>3, Domains DEF LandedInv, Bytes
<1>10. \A k \in 1..n : queue[k].write \in 1..Len(written)
  BY <1>1, <1>3, Domains DEF QueueInv, Views, n
<1>11. \A k \in 1..Len(landed) : landed[k].write \in 1..Len(written)
  BY <1>1, <1>3, Domains DEF LandedInv, Bytes
<1>12. QueueInv'
  <2> SUFFICES ASSUME NEW k \in 1..(n + 1)
               PROVE  /\ queue'[k].write <= Len(written')
                      /\ queue'[k].write \in touched' \/ (attached' /\ Holds(queue'[k], regions', written'))
                      /\ \A j \in 1..(k - 1) : queue'[j].write < queue'[k].write
                      /\ \A j \in 1..Len(landed') : landed'[j].write < queue'[k].write
    BY <1>6, <1>7 DEF QueueInv
  <2>1. CASE k = n + 1
    <3>1. queue'[k] = v
      BY <1>6, <2>1
    <3>2. queue'[k].write \in touched' \/ (attached' /\ Holds(queue'[k], regions', written'))
      BY <1>0, <1>2, <1>4, <3>1 DEF Holds
    <3>3. \A j \in 1..(k - 1) : queue'[j].write < queue'[k].write
      <4> SUFFICES ASSUME NEW j \in 1..(k - 1)
                   PROVE  queue'[j].write < queue'[k].write
        OBVIOUS
      <4>1. j \in 1..n
        BY <1>6, <2>1
      <4>2. queue'[j] = queue[j] /\ queue[j].write \in 1..Len(written)
        BY <1>6, <1>10, <4>1
      <4>3. queue'[k].write = Len(written) + 1
        BY <1>4, <3>1
      <4> QED
        BY <1>3, <4>2, <4>3
    <3>4. \A j \in 1..Len(landed') : landed'[j].write < queue'[k].write
      BY <1>2, <1>3, <1>4, <1>11, <3>1
    <3> QED
      BY <1>2, <1>3, <1>4, <3>1, <3>2, <3>3, <3>4
  <2>2. CASE k # n + 1
    <3>1. k \in 1..n /\ queue'[k] = queue[k]
      BY <1>6, <2>2
    <3>2. /\ queue[k].write \in touched \/ (attached /\ Holds(queue[k], regions, written))
          /\ queue[k].write \in 1..Len(written)
      BY <1>1, <1>10, <3>1 DEF QueueInv, n
    <3>3. queue'[k].write \in touched' \/ (attached' /\ Holds(queue'[k], regions', written'))
      BY <1>0, <1>2, <3>1, <3>2 DEF Holds
    <3>4. \A j \in 1..(k - 1) : queue'[j] = queue[j]
      BY <1>6, <3>1
    <3>5. /\ \A j \in 1..(k - 1) : queue[j].write < queue[k].write
          /\ \A j \in 1..Len(landed) : landed[j].write < queue[k].write
      BY <1>1, <3>1 DEF QueueInv, n
    <3>6. Len(written) <= Len(written') /\ landed' = landed
      BY <1>2, <1>3
    <3>7. queue'[k].write <= Len(written')
      BY <1>2, <1>3, <3>1, <3>2
    <3> QED
      BY <3>1, <3>3, <3>4, <3>5, <3>6, <3>7
  <2> QED
    BY <2>1, <2>2
<1>13. LandedAsWritten'
  BY <1>0, <1>1, <1>2, <1>11, Domains DEF AllOrNothing, LandedAsWritten
<1>14. NoneMissing'
  <2> SUFFICES ASSUME NEW m \in 1..Len(written')
               PROVE  \/ m \in touched'
                      \/ \E k \in DOMAIN landed' : landed'[k].write = m
                      \/ \E k \in DOMAIN queue' : queue'[k].write = m
    BY <1>3 DEF NoneMissing
  <2>1. CASE m = Len(written) + 1
    <3>1. n + 1 \in DOMAIN queue' /\ queue'[n + 1].write = m
      BY <1>4, <1>6, <1>7, <2>1
    <3> QED
      BY <3>1
  <2>2. CASE m # Len(written) + 1
    <3>1. m \in DOMAIN written
      BY <1>2, <1>3, <2>2
    <3>2. \/ m \in touched
          \/ \E k \in DOMAIN landed : landed[k].write = m
          \/ \E k \in DOMAIN queue : queue[k].write = m
      BY <1>0, <1>1, <3>1 DEF AllOrNothing, NoneMissing
    <3>3. \A k \in DOMAIN queue : k \in DOMAIN queue' /\ queue'[k] = queue[k]
      BY <1>6, <1>7
    <3> QED
      BY <1>0, <1>2, <3>2, <3>3
  <2> QED
    BY <2>1, <2>2
<1>15. StreamInv' /\ disk' = None
  BY <1>0, <1>1, <1>2 DEF StreamInv, None
<1> QED
  BY <1>8, <1>9, <1>12, <1>13, <1>14, <1>15 DEF OutputInv, AllOrNothing, None

-----------------------------------------------------------------------------
LEMMA LandsOutput ==
  ASSUME FilesConstants, OutputInv, Lands
  PROVE  OutputInv'
<1> DEFINE h == queue[1]
           b == [write |-> h.write, byte |-> regions[h.at]]
           n == Len(queue)
           l == Len(landed)
<1>1. OutputType /\ QueueInv /\ LandedInv /\ StreamInv /\ AllOrNothing
  BY DEF OutputInv
<1>2. queue \in Seq(Views) /\ queue # <<>> /\ landed \in Seq(Bytes)
  BY <1>1 DEF OutputType, Lands
<1>3. /\ n \in Nat /\ n >= 1 /\ Head(queue) = h /\ h \in Views
      /\ Tail(queue) \in Seq(Views) /\ Len(Tail(queue)) = n - 1
      /\ \A k \in 1..(n - 1) : Tail(queue)[k] = queue[k + 1]
  BY <1>2, HeadTailProperties, EmptySeq, LenProperties
<1>4. /\ queue' = Tail(queue)
      /\ landed' = IF attached THEN Append(landed, b) ELSE landed
      /\ UNCHANGED <<attached, kind, web, regions, written, touched, failed, disk>>
  BY <1>3 DEF Lands
<1>5. h.write \in 1..MaxWrites /\ h.at \in Regions /\ regions[h.at] \in Values
  BY <1>1, <1>3 DEF Views, OutputType, Memory
<1>6. b \in Bytes /\ b.write = h.write /\ b.byte = regions[h.at]
  BY <1>5 DEF Bytes
<1>7. /\ h.write <= Len(written) /\ (h.write \in touched \/ (attached /\ Holds(h, regions, written)))
      /\ \A j \in 1..l : landed[j].write < h.write
      /\ \A k \in 2..n : h.write < queue[k].write
  <2>1. 1 \in 1..n /\ \A k \in 2..n : k \in 1..n /\ 1 \in 1..(k - 1)
    BY <1>3
  <2> QED
    BY <1>1, <2>1 DEF QueueInv
<1> HIDE DEF b, h
<1>8. /\ l \in Nat /\ Append(landed, b) \in Seq(Bytes) /\ Len(Append(landed, b)) = l + 1
      /\ Append(landed, b)[l + 1] = b /\ \A k \in 1..l : Append(landed, b)[k] = landed[k]
  BY <1>2, <1>6, AppendProperties, LenProperties
<1>9. /\ landed' \in Seq(Bytes) /\ Len(landed') \in Nat /\ l <= Len(landed')
      /\ \A k \in 1..l : landed'[k] = landed[k]
      /\ \A k \in 1..Len(landed') : k \in 1..l \/ (attached /\ k = l + 1 /\ landed'[k] = b)
      /\ DOMAIN landed' = 1..Len(landed') /\ DOMAIN landed = 1..l
      /\ attached => Len(landed') = l + 1 /\ landed'[l + 1] = b
  <2>1. CASE attached
    <3>1. landed' = Append(landed, b)
      BY <1>4, <2>1
    <3> QED
      BY <1>2, <1>8, <2>1, <3>1, LenProperties
  <2>2. CASE ~attached
    <3>1. landed' = landed
      BY <1>4, <2>2
    <3> QED
      BY <1>2, <1>8, <2>2, <3>1, LenProperties
  <2> QED
    BY <2>1, <2>2
<1>10. /\ Len(queue') = n - 1 /\ \A k \in 1..(n - 1) : queue'[k] = queue[k + 1]
       /\ DOMAIN queue' = 1..(n - 1) /\ DOMAIN queue = 1..n
  BY <1>2, <1>3, <1>4, LenProperties
<1>y. l \in Nat /\ Len(landed') \in Nat /\ l <= Len(landed') /\ DOMAIN landed' = 1..Len(landed')
  BY <1>8, <1>9
<1>w. \A k \in 1..n : queue[k].write \in Nat
  BY <1>1, Domains DEF Views
<1>x. \A k \in 1..l : landed[k].write \in Nat
  BY <1>1, Domains DEF Bytes
<1> HIDE DEF n, l
<1>11. OutputType'
  BY <1>1, <1>3, <1>4, <1>9 DEF OutputType
<1>12. LandedInv'
  BY <1>1, <1>4, <1>6, <1>7, <1>9 DEF LandedInv, l
<1>13. QueueInv'
  <2> SUFFICES ASSUME NEW k \in 1..(n - 1)
               PROVE  /\ queue'[k].write <= Len(written')
                      /\ queue'[k].write \in touched' \/ (attached' /\ Holds(queue'[k], regions', written'))
                      /\ \A j \in 1..(k - 1) : queue'[j].write < queue'[k].write
                      /\ \A j \in 1..Len(landed') : landed'[j].write < queue'[k].write
    BY <1>10 DEF QueueInv
  <2>0. k + 1 \in 1..n /\ k + 1 \in 2..n
    BY <1>3
  <2>1. k + 1 \in 1..n /\ k + 1 \in 2..n /\ queue'[k] = queue[k + 1]
    BY <1>10, <2>0
  <2>2. /\ queue[k + 1].write <= Len(written)
        /\ queue[k + 1].write \in touched
             \/ (attached /\ Holds(queue[k + 1], regions, written))
    BY <1>1, <2>1 DEF QueueInv, n
  <2>3. queue'[k].write \in touched' \/ (attached' /\ Holds(queue'[k], regions', written'))
    BY <1>4, <2>1, <2>2
  <2>4. \A j \in 1..(k - 1) : queue'[j].write < queue'[k].write
    <3> SUFFICES ASSUME NEW j \in 1..(k - 1)
                 PROVE  queue'[j].write < queue'[k].write
      OBVIOUS
    <3>1. j \in 1..(n - 1) /\ j + 1 \in 1..((k + 1) - 1)
      BY <1>3
    <3>2. queue'[j] = queue[j + 1]
      BY <1>10, <3>1
    <3>3. queue[j + 1].write < queue[k + 1].write
      BY <1>1, <2>1, <3>1 DEF QueueInv, n
    <3> QED
      BY <2>1, <3>2, <3>3
  <2>5. \A j \in 1..Len(landed') : landed'[j].write < queue'[k].write
    <3> SUFFICES ASSUME NEW j \in 1..Len(landed')
                 PROVE  landed'[j].write < queue'[k].write
      OBVIOUS
    <3>1. CASE j \in 1..l
      BY <1>1, <1>9, <2>1, <3>1 DEF QueueInv, n, l
    <3>2. CASE landed'[j] = b
      BY <1>6, <1>7, <2>1, <3>2
    <3> QED
      BY <1>9, <3>1, <3>2
  <2> QED
    BY <1>4, <2>1, <2>2, <2>3, <2>4, <2>5
<1>14. LandedAsWritten'
  <2> SUFFICES ASSUME NEW k \in 1..Len(landed')
               PROVE  /\ \A j \in 1..(k - 1) : landed'[j].write < landed'[k].write
                      /\ landed'[k].write \in touched' \/ landed'[k].byte = written'[landed'[k].write]
    BY <1>9 DEF LandedAsWritten
  <2>1. CASE k \in 1..l
    <3>1. landed'[k] = landed[k] /\ \A j \in 1..(k - 1) : landed'[j] = landed[j]
      BY <1>8, <1>9, <2>1
    <3>2. /\ \A j \in 1..(k - 1) : landed[j].write < landed[k].write
          /\ landed[k].write \in touched \/ landed[k].byte = written[landed[k].write]
      BY <1>1, <1>9, <2>1 DEF AllOrNothing, LandedAsWritten
    <3> QED
      BY <1>4, <3>1, <3>2
  <2>2. CASE attached /\ k = l + 1 /\ landed'[k] = b
    <3>1. \A j \in 1..(k - 1) : j \in 1..l /\ landed'[j] = landed[j]
      BY <1>8, <1>9, <2>2
    <3>2. \A j \in 1..(k - 1) : landed'[j].write < landed'[k].write
      BY <1>6, <1>7, <2>2, <3>1 DEF l
    <3>3. landed'[k].write \in touched' \/ landed'[k].byte = written'[landed'[k].write]
      BY <1>4, <1>6, <1>7, <2>2 DEF Holds
    <3> QED
      BY <3>2, <3>3
  <2> QED
    BY <1>9, <2>1, <2>2
<1>15. NoneMissing'
  <2> SUFFICES ASSUME ~failed, NEW m \in DOMAIN written
               PROVE  \/ m \in touched'
                      \/ \E k \in DOMAIN landed' : landed'[k].write = m
                      \/ \E k \in DOMAIN queue' : queue'[k].write = m
    BY <1>4 DEF NoneMissing
  <2>1. \/ m \in touched
        \/ \E k \in DOMAIN landed : landed[k].write = m
        \/ \E k \in DOMAIN queue : queue[k].write = m
    BY <1>1 DEF AllOrNothing, NoneMissing
  <2>2. CASE m \in touched
    BY <1>4, <2>2
  <2>3. ASSUME NEW k \in DOMAIN landed, landed[k].write = m
        PROVE  \E i \in DOMAIN landed' : landed'[i].write = m
    <3>1. k \in 1..l
      BY <1>9, <2>3
    <3>2. landed'[k] = landed[k]
      BY <1>9, <3>1
    <3>3. k \in 1..Len(landed')
      BY <1>y, <3>1
    <3> QED
      BY <1>y, <2>3, <3>2, <3>3
  <2>4. ASSUME NEW k \in DOMAIN queue, queue[k].write = m, k # 1
        PROVE  \E i \in DOMAIN queue' : queue'[i].write = m
    <3>1. k - 1 \in 1..(n - 1) /\ (k - 1) + 1 = k
      BY <1>3, <1>10, <2>4
    <3>2. k - 1 \in DOMAIN queue' /\ queue'[k - 1] = queue[k]
      BY <1>10, <3>1
    <3> QED
      BY <2>4, <3>2
  <2>5. CASE h.write = m
    <3>1. CASE attached
      <4>1. l + 1 \in DOMAIN landed' /\ landed'[l + 1].write = m
        BY <1>6, <1>8, <1>9, <2>5, <3>1
      <4> QED
        BY <4>1
    <3>2. CASE ~attached
      BY <1>4, <1>7, <2>5, <3>2
    <3> QED
      BY <3>1, <3>2
  <2> QED
    BY <2>1, <2>2, <2>3, <2>4, <2>5 DEF h
<1>16. disk = None
  BY <1>1, <1>2 DEF AllOrNothing
<1>17. StreamInv' /\ disk' = None
  BY <1>1, <1>2, <1>4, <1>16 DEF StreamInv, None
<1> QED
  BY <1>11, <1>12, <1>13, <1>14, <1>15, <1>17 DEF OutputInv, AllOrNothing, None

(* The stream gives up: nothing that waits lands, and nothing is committed. *)
LEMMA ErroredOutput ==
  ASSUME OutputInv, Errored, disk = None
  PROVE  OutputInv'
<1> USE DEF Errored
<1>1. OutputType /\ LandedInv /\ StreamInv /\ AllOrNothing
  BY DEF OutputInv
<1>2. queue' = <<>> /\ <<>> \in Seq(Views) /\ Len(queue') = 0
  BY EmptySeq
<1>3. OutputType' /\ LandedInv'
  BY <1>1, <1>2 DEF OutputType, LandedInv
<1>4. QueueInv'
  BY <1>2 DEF QueueInv
<1>5. LandedAsWritten' /\ NoneMissing'
  BY <1>1 DEF AllOrNothing, LandedAsWritten, NoneMissing
<1>6. StreamInv' /\ disk' = None
  BY <1>1 DEF StreamInv, None
<1> QED
  BY <1>3, <1>4, <1>5, <1>6 DEF OutputInv, AllOrNothing, None

LEMMA CommitOutput ==
  ASSUME OutputInv, Commit
  PROVE  OutputInv'
<1> USE DEF Commit, Committing
<1>1. OutputType /\ QueueInv /\ LandedInv /\ StreamInv /\ AllOrNothing
  BY DEF OutputInv
<1>2. OutputType' /\ LandedInv'
  BY <1>1 DEF OutputType, LandedInv
<1>3. QueueInv'
  BY <1>1 DEF QueueInv
<1>4. LandedAsWritten' /\ NoneMissing'
  BY <1>1 DEF AllOrNothing, LandedAsWritten, NoneMissing
<1>5. StreamInv'
  BY <1>1 DEF StreamInv
<1>6. ~failed' /\ queue' = <<>> /\ disk' = landed'
  BY <1>1 DEF StreamInv
<1> QED
  BY <1>2, <1>3, <1>4, <1>5, <1>6 DEF OutputInv, AllOrNothing

LEMMA OutputStep == FilesConstants /\ OutputInv /\ [Next]_vars => OutputInv'
<1> SUFFICES ASSUME FilesConstants, OutputInv, [Next]_vars PROVE OutputInv'
  OBVIOUS
<1>0. /\ disk # None => web = "closed" /\ kind = "picked" /\ queue = <<>>
      /\ web # "closed" => kind = "picked"
  BY DEF OutputInv, StreamInv, AllOrNothing
<1>1. CASE UNCHANGED vars
  BY <1>0, <1>1, OutputKept DEF vars, webVars, output
<1>2. CASE Grow
  BY <1>2, GrowOutput
<1>3. CASE Exit \/ OpenDetached
  BY <1>0, <1>3, OutputKept DEF Exit, OpenDetached, Ended
<1>4. CASE Load
  <2>1. /\ kind = "fake" /\ web = "closed" /\ disk = None /\ attached' = TRUE
        /\ UNCHANGED <<kind, webVars>>
    BY <1>0, <1>4 DEF Load
  <2>2. /\ OutputType /\ QueueInv /\ LandedInv /\ StreamInv /\ AllOrNothing
    BY DEF OutputInv
  <2>3. OutputType' /\ LandedInv' /\ StreamInv' /\ AllOrNothing'
    BY <2>1, <2>2
    DEF webVars, output, OutputType, LandedInv, StreamInv, AllOrNothing, LandedAsWritten,
        NoneMissing, None
  <2>4. QueueInv'
    BY <2>1, <2>2 DEF webVars, output, QueueInv
  <2> QED
    BY <2>3, <2>4 DEF OutputInv
<1>5. ASSUME NEW h \in Handles, NEW m \in Modes, OpenFake(h, m) PROVE OutputInv'
  BY <1>0, <1>5, OutputKept DEF OpenFake, webVars
<1>6. ASSUME NEW h \in Handles, CloseFake(h) \/ ReadFakeEnd(h) \/ RefuseFake(h)
      PROVE  OutputInv'
  BY <1>0, <1>6, OutputKept DEF CloseFake, ReadFakeEnd, RefuseFake, webVars
<1>7. ASSUME NEW h \in Handles, ReadFakeDetached(h) PROVE OutputInv'
  BY <1>0, <1>7, OutputKept DEF ReadFakeDetached, Ended
<1>8. ASSUME NEW h \in Handles, NEW data \in Texts, WriteFake(h, data) PROVE OutputInv'
  BY <1>0, <1>8, OutputKept DEF WriteFake, webVars
<1>9. ASSUME NEW h \in Handles, NEW len \in 0..MaxLen, WriteFakeDetached(h, len)
      PROVE  OutputInv'
  BY <1>0, <1>9, OutputKept DEF WriteFakeDetached, Ended
<1>10. ASSUME NEW h \in Handles, NEW cap \in 0..MaxLen, ReadFake(h, cap) PROVE OutputInv'
  BY <1>0, <1>10, OutputKept DEF ReadFake, webVars
<1>11. ASSUME NEW m \in Modes, OpenPicked(m) PROVE OutputInv'
  BY <1>0, <1>11, OutputKept DEF OpenPicked
<1>12. ASSUME NEW len \in 0..MaxLen, ReadPicked(len) PROVE OutputInv'
  BY <1>0, <1>12, OutputKept DEF ReadPicked
<1>13. ASSUME NEW n \in 1..MaxChunk, Chunk(n) PROVE OutputInv'
  BY <1>0, <1>13, OutputKept DEF Chunk
<1>14. CASE ReadDone \/ StreamEnds \/ StreamFails
  BY <1>0, <1>14, OutputKept DEF ReadDone, StreamEnds, StreamFails, output
<1>15. ASSUME NEW p \in Regions, WritePicked(p) PROVE OutputInv'
  BY <1>15, WriteOutput
<1>16. ASSUME NEW p \in Regions, WriteRejected(p) \/ WriteDetached(p) PROVE OutputInv'
  BY <1>16, UnqueuedOutput DEF WriteRejected, WriteDetached
<1>17. ASSUME NEW p \in Regions, Reuse(p) PROVE OutputInv'
  BY <1>17, ReuseOutput
<1>18. CASE Lands
  BY <1>18, LandsOutput
<1>19. CASE LandFails \/ CommitFails
  BY <1>0, <1>19, ErroredOutput DEF LandFails, CommitFails, Committing
<1>20. CASE ClosePicked
  BY <1>0, <1>20, OutputKept DEF ClosePicked, AfterClose
<1>21. CASE Commit
  BY <1>21, CommitOutput
<1> QED
  BY <1>1, <1>2, <1>3, <1>4, <1>5, <1>6, <1>7, <1>8, <1>9, <1>10, <1>11, <1>12,
     <1>13, <1>14, <1>15, <1>16, <1>17, <1>18, <1>19, <1>20, <1>21 DEF Next

(* A picked file is replaced by all that the program wrote or not at all,    *)
(* whichever writes fail and whenever the memory is used otherwise or grows, *)
(* but for the writes whose memory was not left alone until they landed.     *)
THEOREM WritesLand == Spec => []AllOrNothing
<1>1. Spec => []OutputInv
  BY FilesConstants, OutputInit, OutputStep, PTL DEF Spec
<1>2. OutputInv => AllOrNothing
  BY DEF OutputInv
<1> QED
  BY <1>1, <1>2, PTL

-----------------------------------------------------------------------------
(***************************************************************************)
(* MemoryFile implements a file of bytes, through the growth of its buffer *)
(* and through programs that die in the middle of a write.                 *)
(***************************************************************************)

HandlesInv ==
  /\ fds = [h \in Handles |-> fds[h]]
  /\ \A h \in Handles :
       \/ fds[h] = Closed
       \/ /\ fds[h] = [mode |-> fds[h].mode, pos |-> fds[h].pos]
          /\ fds[h].mode \in Modes
          /\ fds[h].pos \in Nat /\ fds[h].pos <= fent.size

FileInv ==
  /\ fent = [buf |-> fent.buf, length |-> fent.length, size |-> fent.size]
  /\ fent.length \in Nat /\ fent.size \in Nat /\ fent.size <= fent.length
  /\ fent.buf \in [0..(fent.length - 1) -> Data]
  /\ HandlesInv

-----------------------------------------------------------------------------
(* Rounding up does not make a buffer smaller. *)
LEMMA AlignedUp ==
  ASSUME FilesConstants, NEW n \in Nat
  PROVE  Aligned(n) \in Nat /\ n <= Aligned(n)
<1> DEFINE m == n + Page - 1
           q == m \div Page
<1>1. Page \in Nat \ {0} /\ m \in Nat
  BY DEF FilesConstants
<1>2. q \in Int /\ Page * q <= m /\ m < Page * q + Page
  BY <1>1
<1>3. Page * q \in Int /\ Aligned(n) = Page * q
  BY <1>1, <1>2 DEF Aligned
<1> QED
  BY <1>1, <1>2, <1>3 DEF Aligned

(* A write's buffer holds all of it and what is before it; and what is      *)
(* behind it, unless the buffer was replaced.                               *)
LEMMA GrownHolds ==
  ASSUME FilesConstants, FileInv, NEW pos \in Nat, pos <= fent.size, NEW len \in Nat
  PROVE  LET g == Grown(pos, len)
         IN /\ g = [buf |-> g.buf, length |-> g.length, size |-> g.size]
            /\ g.length \in Nat /\ g.size = fent.size
            /\ fent.length <= g.length /\ pos + len <= g.length
            /\ g.buf \in [0..(g.length - 1) -> Data]
            /\ \A i \in 0..(pos - 1) : g.buf[i] = fent.buf[i]
            /\ pos + len <= fent.length => g = fent
<1> DEFINE g == Grown(pos, len)
<1>1. CASE pos + len <= fent.length
  BY <1>1 DEF FileInv, HandlesInv, Grown
<1>2. CASE ~(pos + len <= fent.length)
  <2> DEFINE n == Aligned(fent.length + len)
             b == [i \in 0..(n - 1) |-> IF i < pos THEN fent.buf[i] ELSE Zero]
  <2>0. /\ fent.length \in Nat /\ fent.size \in Nat /\ fent.size <= fent.length
        /\ fent.buf \in [0..(fent.length - 1) -> Data]
    BY DEF FileInv
  <2>1. n \in Nat /\ fent.length + len <= n
    <3>1. fent.length + len \in Nat
      BY <2>0
    <3> QED
      BY <3>1, AlignedUp
  <2>2. g = [buf |-> b, length |-> n, size |-> fent.size]
    BY <1>2 DEF Grown, Copied
  <2>3. Zero \in Data
    BY DEF FilesConstants
  <2>4. b \in [0..(n - 1) -> Data]
    BY <2>1, <2>3 DEF FileInv, HandlesInv
  <2>5. \A i \in 0..(pos - 1) : b[i] = fent.buf[i]
    <3> SUFFICES ASSUME NEW i \in 0..(pos - 1)
                 PROVE  b[i] = fent.buf[i]
      OBVIOUS
    <3> HIDE DEF n
    <3>1. i \in 0..(n - 1) /\ i < pos
      BY <2>0, <2>1
    <3> QED
      BY <3>1
  <2> HIDE DEF n, b
  <2>6. pos + len <= n /\ fent.length <= n
    BY <2>1 DEF FileInv, HandlesInv
  <2> QED
    BY <1>2, <2>1, <2>2, <2>4, <2>5, <2>6
<1> QED
  BY <1>1, <1>2

LEMMA FileInit == FilesConstants /\ Init => FileInv /\ File!Init
<1> SUFFICES ASSUME FilesConstants, Init PROVE FileInv /\ File!Init
  OBVIOUS
<1>1. Uname \in Seq(Data) /\ Len(Uname) \in Nat /\ \A i \in 1..Len(Uname) : Uname[i] \in Data
  BY DEF FilesConstants
<1>2. [i \in 0..(Len(Uname) - 1) |-> Uname[i + 1]] \in [0..(Len(Uname) - 1) -> Data]
  BY <1>1
<1>3. FileInv
  BY <1>1, <1>2 DEF Init, FileInv, HandlesInv
<1>4. [i \in 0..(fent.size - 1) |-> fent.buf[i]] \in [0..(fent.size - 1) -> Data]
  BY <1>1, <1>2 DEF Init
<1> QED
  BY <1>1, <1>3, <1>4 DEF Init, File!Init, File!Bytes, File!Closed, Closed

(* Steps that leave the fake file and its handles as they are. *)
LEMMA FileKept ==
  ASSUME FileInv, UNCHANGED mem
  PROVE  FileInv' /\ UNCHANGED File!vars
BY DEF FileInv, HandlesInv, mem, File!vars

(* The process ends with the buffer as it is, or as a write left it. *)
LEMMA FileGone ==
  ASSUME FilesConstants, FileInv, Ended, NEW h \in Handles,
         \/ fent' = fent
         \/ \E len \in Nat : fds[h] # Closed /\ fent' = Grown(fds[h].pos, len)
  PROVE  FileInv' /\ File!Next
<1>1. /\ fds' = [g \in Handles |-> Closed]
      /\ answer' = <<"none">>
  BY DEF Ended
<1>2. CASE fent' = fent
  <2>1. FileInv'
    BY <1>1, <1>2 DEF FileInv, HandlesInv
  <2>2. File!Gone(h)
    BY <1>1, <1>2 DEF File!Gone, FileInv, HandlesInv, File!Bytes, Closed, File!Closed
  <2> QED
    BY <2>1, <2>2 DEF File!Next
<1>3. ASSUME NEW len \in Nat, fds[h] # Closed, fent' = Grown(fds[h].pos, len)
      PROVE  FileInv' /\ File!Next
  <2>1. fds[h].pos \in Nat /\ fds[h].pos <= fent.size
    BY <1>3 DEF FileInv, HandlesInv
  <2>2. /\ fent' = [buf |-> fent'.buf, length |-> fent'.length, size |-> fent'.size]
        /\ fent'.length \in Nat /\ fent'.size = fent.size
        /\ fent.length <= fent'.length
        /\ fent'.buf \in [0..(fent'.length - 1) -> Data]
        /\ \A i \in 0..(fds[h].pos - 1) : fent'.buf[i] = fent.buf[i]
    <3> DEFINE pos == fds[h].pos
               g == Grown(pos, len)
    <3>1. pos \in Nat /\ pos <= fent.size
      BY <2>1
    <3>2. fent' = g
      BY <1>3
    <3> HIDE DEF pos
    <3>3. /\ g = [buf |-> g.buf, length |-> g.length, size |-> g.size]
          /\ g.length \in Nat /\ g.size = fent.size
          /\ fent.length <= g.length
          /\ g.buf \in [0..(g.length - 1) -> Data]
          /\ \A i \in 0..(pos - 1) : g.buf[i] = fent.buf[i]
      BY <3>1, GrownHolds
    <3> HIDE DEF g
    <3> QED
      BY <3>2, <3>3 DEF pos
  <2>3. FileInv'
    BY <1>1, <2>2 DEF FileInv, HandlesInv
  <2> DEFINE c == [i \in 0..(fent.size - 1) |-> fent.buf[i]]
             d == [i \in 0..(fent'.size - 1) |-> fent'.buf[i]]
  <2>f. fent.size \in Nat /\ fent.length \in Nat /\ fent.size <= fent.length
    BY DEF FileInv
  <2>g. \A i \in 0..(fent.size - 1) : d[i] = fent'.buf[i] /\ c[i] = fent.buf[i]
    BY <2>2
  <2>a. d \in [0..(fent.size - 1) -> Data]
    <3>1. \A i \in 0..(fent.size - 1) : i \in 0..(fent'.length - 1)
      BY <2>2, <2>f
    <3>2. \A i \in 0..(fent.size - 1) : fent'.buf[i] \in Data
      BY <2>2, <3>1
    <3> QED
      BY <2>2, <3>2
  <2>b. \A i \in 0..(fent.size - 1) : i < fds[h].pos => d[i] = c[i]
    <3> HIDE DEF c, d
    <3> SUFFICES ASSUME NEW i \in 0..(fent.size - 1), i < fds[h].pos
                 PROVE  d[i] = c[i]
      OBVIOUS
    <3>1. i \in 0..(fds[h].pos - 1)
      BY <2>1, <2>f
    <3> QED
      BY <2>2, <2>g, <3>1
  <2>c. fds[h].pos # -1 /\ [g \in Handles |-> fds[g].pos][h] = fds[h].pos
    BY <2>1
  <2>d. [g \in Handles |-> fds'[g].pos] = [g \in Handles |-> -1]
    BY <1>1 DEF Closed
  <2> HIDE DEF c, d
  <2>e. /\ [g \in Handles |-> fds'[g].pos] = [g \in Handles |-> File!Closed]
        /\ answer' = <<"none">> /\ fent'.size = fent.size
        /\ d \in File!Bytes(fent.size)
        /\ \A i \in 0..(fent.size - 1) :
             i < [g \in Handles |-> fds[g].pos][h] => d[i] = c[i]
        /\ [g \in Handles |-> fds[g].pos][h] = File!Closed => d = c
    BY <1>1, <2>2, <2>a, <2>b, <2>c, <2>d DEF File!Bytes, File!Closed
  <2>4. File!Gone(h)
    BY <2>e DEF File!Gone, c, d
  <2> QED
    BY <2>3, <2>4 DEF File!Next
<1> QED
  BY <1>2, <1>3

(* A call moves one handle. *)
LEMMA HandleMoved ==
  ASSUME HandlesInv, NEW h \in Handles, fds[h] # Closed, NEW p \in Nat,
         fds' = [fds EXCEPT ![h].pos = p], fent.size \in Nat, fent'.size \in Nat,
         fent.size <= fent'.size, p <= fent'.size
  PROVE  /\ HandlesInv'
         /\ [k \in Handles |-> fds'[k].pos] = [[k \in Handles |-> fds[k].pos] EXCEPT ![h] = p]
<1>1. /\ fds = [k \in Handles |-> fds[k]]
      /\ fds[h] = [mode |-> fds[h].mode, pos |-> fds[h].pos] /\ fds[h].mode \in Modes
  BY DEF HandlesInv
<1>2. /\ fds' = [k \in Handles |-> fds'[k]]
      /\ fds'[h] = [mode |-> fds[h].mode, pos |-> p]
      /\ \A k \in Handles : k # h => fds'[k] = fds[k]
  BY <1>1
<1>3. \A k \in Handles :
        \/ fds'[k] = Closed
        \/ /\ fds'[k] = [mode |-> fds'[k].mode, pos |-> fds'[k].pos]
           /\ fds'[k].mode \in Modes
           /\ fds'[k].pos \in Nat /\ fds'[k].pos <= fent'.size
  <2> TAKE k \in Handles
  <2>1. CASE k = h
    BY <1>1, <1>2, <2>1
  <2>2. CASE k # h
    BY <1>2, <2>2 DEF HandlesInv
  <2> QED
    BY <2>1, <2>2
<1>4. HandlesInv'
  BY <1>2, <1>3 DEF HandlesInv
<1>5. [k \in Handles |-> fds'[k].pos] = [[k \in Handles |-> fds[k].pos] EXCEPT ![h] = p]
  BY <1>2
<1> QED
  BY <1>4, <1>5

LEMMA FileWrite ==
  ASSUME FilesConstants, FileInv, NEW h \in Handles, NEW data \in Texts, WriteFake(h, data)
  PROVE  FileInv' /\ File!Write(h, data)
<1> DEFINE pos == fds[h].pos
           to == pos + Len(data)
           g == Grown(pos, Len(data))
           b == [i \in 0..(g.length - 1) |->
                   IF pos <= i /\ i < to THEN data[i - pos + 1] ELSE g.buf[i]]
           c == [i \in 0..(fent.size - 1) |-> fent.buf[i]]
<1>1. /\ CanWrite(fds[h].mode)
      /\ fent' = [g EXCEPT !.buf = b, !.size = Larger(fent.size, to)]
      /\ fds' = [fds EXCEPT ![h].pos = to]
      /\ answer' = <<"wrote", Len(data)>>
  BY DEF WriteFake
<1>2. Len(data) \in Nat /\ \A k \in 1..Len(data) : data[k] \in Data
  <2> PICK n \in 0..MaxLen : data \in [1..n -> Data]
    BY DEF Texts
  <2>1. n \in Nat
    BY DEF FilesConstants
  <2>2. data \in Seq(Data) /\ Len(data) = n
    BY <2>1
  <2> QED
    BY <2>1, <2>2
<1>3. /\ fds[h].mode \in Modes /\ fds[h] = [mode |-> fds[h].mode, pos |-> pos]
      /\ pos \in Nat /\ pos <= fent.size /\ fds[h] # Closed
  BY <1>1 DEF FileInv, HandlesInv, CanWrite, Closed
<1>4. /\ g = [buf |-> g.buf, length |-> g.length, size |-> g.size]
      /\ g.length \in Nat /\ g.size = fent.size
      /\ fent.length <= g.length /\ to <= g.length
      /\ g.buf \in [0..(g.length - 1) -> Data]
      /\ \A i \in 0..(pos - 1) : g.buf[i] = fent.buf[i]
      /\ to <= fent.length => g = fent
  BY <1>2, <1>3, GrownHolds
<1> DEFINE n == Len(data)
<1>a. to = pos + n /\ pos = fds[h].pos /\ n = Len(data)
  OBVIOUS
<1> HIDE DEF g, c, to, pos, n
<1>c. n \in Nat /\ pos \in Nat /\ pos <= fent.size
  BY <1>2, <1>3, <1>a
<1>b. g.length \in Nat /\ fent.length <= g.length /\ to <= g.length
  BY <1>4
<1>5. b \in [0..(g.length - 1) -> Data]
  <2> SUFFICES ASSUME NEW i \in 0..(g.length - 1)
               PROVE  (IF pos <= i /\ i < to THEN data[i - pos + 1] ELSE g.buf[i]) \in Data
    OBVIOUS
  <2>1. CASE pos <= i /\ i < to
    <3>1. i \in Int
      BY <1>b
    <3>2. to = pos + n /\ n \in Nat /\ pos \in Nat
      BY <1>a, <1>c
    <3>3. i - pos + 1 \in 1..n
      BY <2>1, <3>1, <3>2
    <3> QED
      BY <1>2, <1>a, <2>1, <3>3
  <2>2. CASE ~(pos <= i /\ i < to)
    BY <1>4, <2>2
  <2> QED
    BY <2>1, <2>2
<1>6. to \in Nat /\ Larger(fent.size, to) \in Nat
      /\ Larger(fent.size, to) = (IF to > fent.size THEN to ELSE fent.size)
      /\ Larger(fent.size, to) <= g.length /\ fent.size <= Larger(fent.size, to)
      /\ to <= Larger(fent.size, to)
  <2>1. fent.size \in Nat /\ fent.length \in Nat /\ fent.size <= fent.length
    BY DEF FileInv, HandlesInv
  <2> QED
    <3>0. to \in Nat
      BY <1>a, <1>c
    <3>1. to \in Nat /\ fent.size <= g.length
      BY <1>b, <2>1, <3>0
    <3> QED
      BY <1>b, <2>1, <3>1 DEF Larger
<1>7. \A i \in 0..(Larger(fent.size, to) - 1) :
        b[i] = IF pos <= i /\ i < to THEN data[i - pos + 1] ELSE c[i]
  <2> SUFFICES ASSUME NEW i \in 0..(Larger(fent.size, to) - 1)
               PROVE  b[i] = IF pos <= i /\ i < to THEN data[i - pos + 1] ELSE c[i]
    OBVIOUS
  <2>1. i \in 0..(g.length - 1) /\ i \in Nat
    BY <1>4, <1>6
  <2>2. CASE pos <= i /\ i < to
    BY <2>1, <2>2
  <2>3. CASE i < pos
    <3>1. b[i] = g.buf[i] /\ i \in 0..(pos - 1)
      BY <1>3, <2>1, <2>3
    <3>2. i \in 0..(fent.size - 1)
      BY <1>3, <2>1, <2>3 DEF FileInv, HandlesInv
    <3>3. c[i] = fent.buf[i]
      BY <3>2 DEF c
    <3> QED
      BY <1>3, <1>4, <2>1, <2>3, <3>1, <3>3
  <2>4. CASE i >= to /\ ~(i < pos)
    <3>1. i < fent.size /\ to <= fent.length
      BY <1>3, <1>6, <2>1, <2>4 DEF FileInv, HandlesInv
    <3>2. g = fent
      BY <1>4, <3>1
    <3>3. b[i] = fent.buf[i]
      BY <1>6, <2>1, <2>4, <3>2
    <3>4. c[i] = fent.buf[i]
      BY <2>1, <3>1 DEF c, FileInv, HandlesInv
    <3> QED
      BY <1>3, <1>6, <2>1, <2>4, <3>3, <3>4
  <2> QED
    BY <1>3, <1>6, <2>1, <2>2, <2>3, <2>4
<1> HIDE DEF b
<1>8. fent' = [buf |-> b, length |-> g.length, size |-> Larger(fent.size, to)]
  BY <1>1, <1>4
<1>9. /\ HandlesInv'
      /\ [k \in Handles |-> fds'[k].pos] = [[k \in Handles |-> fds[k].pos] EXCEPT ![h] = to]
  <2>1. fds' = [fds EXCEPT ![h].pos = to]
    BY <1>1
  <2>2. fent'.size = Larger(fent.size, to) /\ fent.size \in Nat
    BY <1>8 DEF FileInv
  <2> QED
    BY <1>3, <1>6, <2>1, <2>2, HandleMoved DEF FileInv
<1>10. FileInv'
  BY <1>b, <1>5, <1>6, <1>8, <1>9 DEF FileInv
<1> DEFINE from == [k \in Handles |-> fds[k].pos][h]
<1>12. from = pos /\ from # File!Closed /\ from + Len(data) = to
  BY <1>3, <1>a DEF File!Closed
<1>13. fent'.size = IF to > fent.size THEN to ELSE fent.size
  BY <1>6, <1>8
<1>14. [i \in 0..(fent'.size - 1) |-> fent'.buf[i]]
         = [i \in 0..(fent'.size - 1) |->
              IF pos <= i /\ i < to THEN data[i - pos + 1] ELSE c[i]]
  BY <1>7, <1>8
<1> HIDE DEF from, c
<1>d. from = pos /\ from + n = to
  BY <1>12, <1>a
<1>15. /\ from # File!Closed
       /\ fent'.size = IF from + n > fent.size THEN from + n ELSE fent.size
       /\ [i \in 0..(fent'.size - 1) |-> fent'.buf[i]]
            = [i \in 0..(fent'.size - 1) |->
                 IF from <= i /\ i < from + n THEN data[i - from + 1] ELSE c[i]]
       /\ [k \in Handles |-> fds'[k].pos]
            = [[k \in Handles |-> fds[k].pos] EXCEPT ![h] = from + n]
  <2>1. from # File!Closed
    BY <1>12
  <2>2. fent'.size = IF from + n > fent.size THEN from + n ELSE fent.size
    BY <1>d, <1>13
  <2>3. [i \in 0..(fent'.size - 1) |-> fent'.buf[i]]
          = [i \in 0..(fent'.size - 1) |->
               IF from <= i /\ i < from + n THEN data[i - from + 1] ELSE c[i]]
    BY <1>d, <1>14
  <2>4. [k \in Handles |-> fds'[k].pos]
          = [[k \in Handles |-> fds[k].pos] EXCEPT ![h] = from + n]
    BY <1>d, <1>9
  <2> QED
    BY <2>1, <2>2, <2>3, <2>4
<1>16. File!Write(h, data)
  BY <1>1, <1>15 DEF File!Write, from, c, n
<1> QED
  BY <1>10, <1>16

LEMMA FileRead ==
  ASSUME FilesConstants, FileInv, NEW h \in Handles, NEW cap \in 0..MaxLen, ReadFake(h, cap)
  PROVE  FileInv' /\ File!Read(h, cap)
<1> DEFINE pos == fds[h].pos
           n == Smaller(fent.size - pos, cap)
           P == [k \in Handles |-> fds[k].pos]
<1>1. /\ CanRead(fds[h].mode) /\ pos < fent.size
      /\ answer' = <<"read", [k \in 1..n |-> fent.buf[pos + k - 1]]>>
      /\ fds' = [fds EXCEPT ![h].pos = pos + n]
      /\ fent' = fent
  BY DEF ReadFake
<1>2. /\ fds[h].mode \in Modes /\ fds[h] = [mode |-> fds[h].mode, pos |-> pos]
      /\ pos \in Nat /\ cap \in Nat /\ fent.size \in Nat
  BY <1>1 DEF FileInv, HandlesInv, CanRead, Closed, FilesConstants
<1>3. n \in Nat /\ n <= fent.size - pos
      /\ n = IF fent.size - pos < cap THEN fent.size - pos ELSE cap
  <2>1. fent.size - pos \in Nat
    BY <1>1, <1>2
  <2> QED
    BY <1>2, <2>1 DEF Smaller
<1> HIDE DEF n
<1>a. /\ pos \in Nat /\ pos < fent.size /\ fent.size \in Nat /\ n \in Nat
      /\ n <= fent.size - pos /\ fds[h] # Closed
  BY <1>1, <1>2, <1>3 DEF Closed, CanRead
<1> HIDE DEF pos
<1>4. /\ HandlesInv'
      /\ [k \in Handles |-> fds'[k].pos] = [[k \in Handles |-> fds[k].pos] EXCEPT ![h] = pos + n]
  <2> DEFINE p == pos + n
  <2>1. fds' = [fds EXCEPT ![h].pos = p] /\ fent' = fent /\ HandlesInv
    BY <1>1 DEF FileInv
  <2>2. p \in Nat /\ p <= fent'.size /\ fent'.size = fent.size
    BY <1>a, <2>1
  <2> HIDE DEF p
  <2>4. fds[h] # Closed /\ fent.size \in Nat /\ fent'.size \in Nat /\ fent.size <= fent'.size
    BY <1>a, <2>1
  <2>3. /\ HandlesInv'
        /\ [k \in Handles |-> fds'[k].pos] = [[k \in Handles |-> fds[k].pos] EXCEPT ![h] = p]
    BY <2>1, <2>2, <2>4, HandleMoved
  <2> QED
    BY <2>3 DEF p
<1>5. FileInv'
  BY <1>1, <1>4 DEF FileInv
<1>6. [k \in 1..n |-> fent.buf[pos + k - 1]]
        = [k \in 1..n |-> [i \in 0..(fent.size - 1) |-> fent.buf[i]][pos + k - 1]]
  <2> SUFFICES ASSUME NEW k \in 1..n
               PROVE  pos + k - 1 \in 0..(fent.size - 1)
    OBVIOUS
  <2> DEFINE size == fent.size
  <2>1. pos \in Nat /\ size \in Nat /\ n \in Nat /\ n <= size - pos
    BY <1>a
  <2> HIDE DEF size
  <2>2. pos + k - 1 \in 0..(size - 1)
    BY <2>1
  <2> QED
    BY <2>2 DEF size
<1>7. P[h] = pos /\ pos # File!Closed
  BY <1>a DEF File!Closed, pos
<1>8. [k \in Handles |-> fds'[k].pos] = [P EXCEPT ![h] = pos + n]
  BY <1>4
<1> HIDE DEF P
<1>9. File!Read(h, cap)
  <2>1. /\ P[h] # File!Closed /\ P[h] < fent.size
        /\ answer' = <<"read", [k \in 1..n |->
                         [i \in 0..(fent.size - 1) |-> fent.buf[i]][P[h] + k - 1]]>>
        /\ [k \in Handles |-> fds'[k].pos] = [P EXCEPT ![h] = P[h] + n]
        /\ n = IF fent.size - P[h] < cap THEN fent.size - P[h] ELSE cap
    BY <1>1, <1>3, <1>6, <1>7, <1>8
  <2> QED
    BY <1>1, <2>1 DEF File!Read, P
<1> QED
  BY <1>5, <1>9

LEMMA FileStep ==
  FilesConstants /\ FileInv /\ [Next]_vars => FileInv' /\ [File!Next]_(File!vars)
<1> SUFFICES ASSUME FilesConstants, FileInv, [Next]_vars
             PROVE  FileInv' /\ [File!Next]_(File!vars)
  OBVIOUS
<1>0. ASSUME NEW h \in Handles PROVE [k \in Handles |-> fds[k].pos][h] = fds[h].pos
  OBVIOUS
<1>1. CASE UNCHANGED mem
  BY <1>1, FileKept
<1>2. CASE Exit \/ OpenDetached
  <2>1. Ended /\ fent' = fent
    BY <1>2 DEF Exit, OpenDetached
  <2>2. PICK h \in Handles : TRUE
    BY DEF FilesConstants
  <2> QED
    BY <2>1, <2>2, FileGone
<1>3. ASSUME NEW h \in Handles, NEW m \in Modes, OpenFake(h, m)
      PROVE  FileInv' /\ File!Next
  <2>1. FileInv'
    BY <1>3 DEF OpenFake, FileInv, HandlesInv
  <2>2. fds' = [fds EXCEPT ![h] = [mode |-> m, pos |-> 0]] /\ fds[h].pos = -1
    BY <1>3 DEF OpenFake, Closed
  <2>3. [k \in Handles |-> fds'[k].pos] = [[k \in Handles |-> fds[k].pos] EXCEPT ![h] = 0]
    BY <2>2 DEF FileInv, HandlesInv
  <2>4. File!Open(h)
    BY <1>3, <1>0, <2>2, <2>3 DEF OpenFake, File!Open, File!Closed
  <2> QED
    BY <2>1, <2>4 DEF File!Next
<1>4. ASSUME NEW h \in Handles, CloseFake(h) PROVE FileInv' /\ File!Next
  <2>1. FileInv'
    BY <1>4 DEF CloseFake, FileInv, HandlesInv
  <2>2. fds' = [fds EXCEPT ![h] = Closed] /\ fds[h].pos # -1
    BY <1>4 DEF CloseFake, FileInv, HandlesInv, Closed
  <2>3. [k \in Handles |-> fds'[k].pos] = [[k \in Handles |-> fds[k].pos] EXCEPT ![h] = -1]
    BY <2>2 DEF FileInv, HandlesInv, Closed
  <2>4. File!Close(h)
    BY <1>4, <1>0, <2>2, <2>3 DEF CloseFake, File!Close, File!Closed
  <2> QED
    BY <2>1, <2>4 DEF File!Next
<1>5. ASSUME NEW h \in Handles, ReadFakeEnd(h) PROVE FileInv' /\ File!Next
  <2>1. FileInv'
    BY <1>5 DEF ReadFakeEnd, FileInv, HandlesInv
  <2>2. fds[h].pos = fent.size
    BY <1>5 DEF ReadFakeEnd, CanRead, FileInv, HandlesInv, Closed
  <2>3. File!ReadAtEnd(h)
    BY <1>5, <1>0, <2>2 DEF ReadFakeEnd, File!ReadAtEnd
  <2> QED
    BY <2>1, <2>3 DEF File!Next
<1>6. ASSUME NEW h \in Handles, ReadFakeDetached(h) PROVE FileInv' /\ File!Next
  BY <1>6, FileGone DEF ReadFakeDetached
<1>7. ASSUME NEW h \in Handles, RefuseFake(h) PROVE FileInv' /\ File!Next
  <2>1. FileInv'
    BY <1>7 DEF RefuseFake, FileInv, HandlesInv
  <2>2. File!Refuse
    BY <1>7 DEF RefuseFake, File!Refuse
  <2> QED
    BY <2>1, <2>2 DEF File!Next
<1>8. ASSUME NEW h \in Handles, NEW data \in Texts, WriteFake(h, data)
      PROVE  FileInv' /\ File!Next
  BY <1>8, FileWrite DEF File!Next, File!Texts, Texts
<1>9. ASSUME NEW h \in Handles, NEW len \in 0..MaxLen, WriteFakeDetached(h, len)
      PROVE  FileInv' /\ File!Next
  <2>1. fds[h] # Closed /\ len \in Nat /\ Ended /\ fent' = Grown(fds[h].pos, len)
    BY <1>9 DEF WriteFakeDetached, CanWrite, Closed, FilesConstants
  <2> QED
    BY <2>1, FileGone
<1>10. ASSUME NEW h \in Handles, NEW cap \in 0..MaxLen, ReadFake(h, cap)
       PROVE  FileInv' /\ File!Next
  BY <1>10, FileRead DEF File!Next
<1>11. CASE UNCHANGED vars
  BY <1>1, <1>11 DEF vars
<1>12. CASE Grow \/ Load
  BY <1>1, <1>12 DEF Grow, Load
<1>13. CASE (\E m \in Modes : OpenPicked(m)) \/ (\E len \in 0..MaxLen : ReadPicked(len))
  BY <1>1, <1>13 DEF OpenPicked, ReadPicked
<1>14. CASE (\E n \in 1..MaxChunk : Chunk(n)) \/ ReadDone \/ StreamEnds \/ StreamFails
  BY <1>1, <1>14 DEF Chunk, ReadDone, StreamEnds, StreamFails
<1>15. ASSUME NEW p \in Regions,
              WritePicked(p) \/ WriteRejected(p) \/ WriteDetached(p) \/ Reuse(p)
       PROVE  UNCHANGED mem
  BY <1>15 DEF WritePicked, WriteRejected, WriteDetached, Write, Reuse
<1>16. CASE Lands \/ LandFails \/ ClosePicked \/ Commit \/ CommitFails
  BY <1>1, <1>16 DEF Lands, LandFails, ClosePicked, Commit, CommitFails, Errored
<1> QED
  BY <1>1, <1>2, <1>3, <1>4, <1>5, <1>6, <1>7, <1>8, <1>9, <1>10, <1>11, <1>12, <1>13,
     <1>14, <1>15, <1>16 DEF Next

(* MemoryFile implements a file of bytes shared by all handles and all      *)
(* processes, although a write that outgrows the buffer does not copy what  *)
(* is behind its position: in a write that completes it covers all of that, *)
(* and in one that dies with its program nothing before it is lost.         *)
THEOREM FileImplemented == Spec => ImplementsByteFile
<1>1. Init => FileInv /\ File!Init
  BY FilesConstants, FileInit
<1>2. FileInv /\ [Next]_vars => FileInv' /\ [File!Next]_(File!vars)
  BY FilesConstants, FileStep
<1> QED
  BY <1>1, <1>2, PTL DEF Spec, ImplementsByteFile, File!Spec

-----------------------------------------------------------------------------
(***************************************************************************)
(* Reads of a picked file: what they give a program is the stream.         *)
(***************************************************************************)

StreamByte == 1..MaxBytes

Ordered(s) == \A j, k \in 1..Len(s) : j < k => s[j] < s[k]
UpTo(s, n) == \A k \in 1..Len(s) : s[k] <= n

(* The stream's next n bytes. *)
After(a, n) == [k \in 1..n |-> a + k]

LEMMA AfterBytes ==
  ASSUME NEW a \in Nat, NEW n \in Nat, MaxBytes \in Nat, a + n <= MaxBytes
  PROVE  /\ After(a, n) \in Seq(StreamByte) /\ Len(After(a, n)) = n
         /\ \A k \in 1..n : After(a, n)[k] = a + k
<1>1. After(a, n) \in [1..n -> StreamByte]
  BY DEF After, StreamByte
<1>2. After(a, n) \in Seq(StreamByte)
  BY <1>1, SeqDef
<1>3. DOMAIN After(a, n) = 1..n /\ Len(After(a, n)) \in Nat
      /\ DOMAIN After(a, n) = 1..Len(After(a, n))
  BY <1>1, <1>2, LenProperties
<1> QED
  BY <1>2, <1>3 DEF After

LEMMA OrderedBefore ==
  ASSUME NEW s \in Seq(StreamByte), NEW t \in Seq(StreamByte), NEW n \in Nat,
         Ordered(s \o t), UpTo(s \o t, n)
  PROVE  Ordered(s) /\ UpTo(s, n)
<1>1. /\ Len(s) \in Nat /\ Len(t) \in Nat /\ Len(s \o t) = Len(s) + Len(t)
      /\ \A k \in 1..Len(s) : k \in 1..Len(s \o t) /\ (s \o t)[k] = s[k]
  BY LenProperties, ConcatProperties
<1> QED
  BY <1>1 DEF Ordered, UpTo

LEMMA OrderedAfter ==
  ASSUME NEW s \in Seq(StreamByte), NEW a \in Nat, NEW n \in Nat, MaxBytes \in Nat,
         a + n <= MaxBytes, Ordered(s), UpTo(s, a)
  PROVE  Ordered(s \o After(a, n)) /\ UpTo(s \o After(a, n), a + n)
<1> DEFINE t == After(a, n)
           u == s \o t
<1>1. t \in Seq(StreamByte) /\ Len(t) = n /\ \A k \in 1..n : t[k] = a + k
  BY AfterBytes
<1> HIDE DEF t
<1>2. /\ Len(s) \in Nat /\ Len(u) = Len(s) + n
      /\ \A k \in 1..(Len(s) + n) : u[k] = IF k <= Len(s) THEN s[k] ELSE t[k - Len(s)]
  BY <1>1, LenProperties, ConcatProperties
<1>3. \A k \in 1..Len(s) : s[k] \in Nat /\ s[k] <= a
  BY ElementOfSeq DEF StreamByte, UpTo
<1> HIDE DEF u
<1>4. \A k \in 1..(Len(s) + n) :
        IF k <= Len(s) THEN u[k] = s[k] /\ u[k] \in Nat /\ u[k] <= a
                       ELSE u[k] = a + (k - Len(s))
  <2> SUFFICES ASSUME NEW k \in 1..(Len(s) + n)
               PROVE  IF k <= Len(s) THEN u[k] = s[k] /\ u[k] \in Nat /\ u[k] <= a
                                     ELSE u[k] = a + (k - Len(s))
    OBVIOUS
  <2>1. CASE k <= Len(s)
    BY <1>2, <1>3, <2>1
  <2>2. CASE ~(k <= Len(s))
    <3>1. k - Len(s) \in 1..n
      BY <1>2, <2>2
    <3> QED
      BY <1>1, <1>2, <2>2, <3>1
  <2> QED
    BY <2>1, <2>2
<1>5. Ordered(u)
  <2> SUFFICES ASSUME NEW j \in 1..(Len(s) + n), NEW k \in 1..(Len(s) + n), j < k
               PROVE  u[j] < u[k]
    BY <1>2 DEF Ordered
  <2>1. CASE k <= Len(s)
    <3>1. j \in 1..Len(s) /\ k \in 1..Len(s) /\ s[j] < s[k]
      BY <1>2, <2>1 DEF Ordered
    <3> QED
      BY <1>4, <2>1, <3>1
  <2>2. CASE ~(k <= Len(s))
    <3>1. u[k] = a + (k - Len(s))
      BY <1>4, <2>2
    <3>2. IF j <= Len(s) THEN u[j] \in Nat /\ u[j] <= a ELSE u[j] = a + (j - Len(s))
      BY <1>4
    <3> QED
      BY <1>2, <2>2, <3>1, <3>2
  <2> QED
    BY <2>1, <2>2
<1>6. UpTo(u, a + n)
  <2> SUFFICES ASSUME NEW k \in 1..(Len(s) + n)
               PROVE  u[k] <= a + n
    BY <1>2 DEF UpTo
  <2>1. IF k <= Len(s) THEN u[k] \in Nat /\ u[k] <= a ELSE u[k] = a + (k - Len(s))
    BY <1>4
  <2> QED
    BY <1>2, <2>1
<1> QED
  BY <1>5, <1>6 DEF t, u

(* What a read puts in place and what is left over are the whole, and       *)
(* nothing is left over while the read wants more.                          *)
LEMMA PlacedAndLeft ==
  ASSUME NEW b \in Seq(StreamByte), NEW already \in Nat, NEW len \in Nat, already <= len
  PROVE  LET p == Placed(b, already, len)
             r == Remainder(b, already, len)
         IN /\ p \in Seq(StreamByte) /\ r \in Seq(StreamByte) /\ p \o r = b
            /\ already + Len(p) <= len
            /\ already + Len(p) < len => r = <<>>
<1>0. Len(b) \in Nat /\ \A i \in 1..Len(b) : b[i] \in StreamByte
  BY LenProperties, ElementOfSeq
<1> DEFINE m == Smaller(Len(b), len - already)
           p == SubSeq(b, 1, m)
           r == SubSeq(b, m + 1, Len(b))
<1>1. /\ m \in 0..Len(b) /\ m \in Nat /\ already + m <= len
      /\ already + m < len => m = Len(b)
  BY <1>0 DEF Smaller
<1> HIDE DEF m
<1>2. p \in Seq(StreamByte) /\ Len(p) = m
  <2>1. \A i \in 1..m : b[i] \in StreamByte
    BY <1>0, <1>1
  <2>2. m \in Int /\ 1 \in Int
    BY <1>1
  <2>3. p \in Seq(StreamByte) /\ Len(p) = IF 1 <= m THEN m - 1 + 1 ELSE 0
    BY <2>1, <2>2, SubSeqProperties
  <2> QED
    BY <1>1, <2>3
<1>3. r \in Seq(StreamByte) /\ Len(r) = IF m + 1 <= Len(b) THEN Len(b) - (m + 1) + 1 ELSE 0
  <2>1. \A i \in (m + 1)..Len(b) : b[i] \in StreamByte
    BY <1>0, <1>1
  <2>2. m + 1 \in Int /\ Len(b) \in Int
    BY <1>0, <1>1
  <2> QED
    BY <2>1, <2>2, SubSeqProperties
<1>4. p \o r = b
  <2>1. 1 \in 1..(Len(b) + 1) /\ m \in (1 - 1)..Len(b) /\ Len(b) \in m..Len(b)
    BY <1>0, <1>1
  <2>2. p \o r = SubSeq(b, 1, Len(b))
    BY <2>1, ConcatAdjacentSubSeq
  <2> QED
    BY <2>2, SubSeqFull
<1>5. m = Len(b) => r = <<>>
  <2>1. m = Len(b) => Len(r) = 0
    BY <1>0, <1>3
  <2> QED
    BY <1>3, <2>1, EmptySeq
<1>6. Placed(b, already, len) = p /\ Remainder(b, already, len) = r
  BY DEF Placed, Remainder, m
<1> HIDE DEF p, r
<1>7. already + Len(p) <= len /\ (already + Len(p) < len => r = <<>>)
  BY <1>1, <1>2, <1>5
<1> QED
  BY <1>2, <1>3, <1>4, <1>6, <1>7

-----------------------------------------------------------------------------
Stream == got \o rd.mem \o rbuf

(* The inductive invariant: a read that wants more has emptied what was     *)
(* left over, so that the next chunk may replace it; and no byte is beyond  *)
(* what has arrived.                                                        *)
InputInv ==
  /\ ended \in BOOLEAN /\ broken \in BOOLEAN /\ arrived \in 0..MaxBytes
  /\ rbuf \in Seq(StreamByte) /\ got \in Seq(StreamByte)
  /\ rd = [len |-> rd.len, mem |-> rd.mem] /\ rd.mem \in Seq(StreamByte)
  /\ rd = Idle \/ (rd.len \in 0..MaxLen /\ Len(rd.mem) <= rd.len)
  /\ Wanting => rbuf = <<>>
  /\ Ordered(Stream) /\ UpTo(Stream, arrived)
  /\ ~broken => Len(Stream) = arrived
  /\ outcome.len \in 0..MaxLen /\ outcome.n \in 0..outcome.len
  /\ ShortAtEnd

LEMMA FilesBounds ==
  MaxLen \in Nat /\ MaxBytes \in Nat /\ MaxChunk \in Nat
BY FilesConstants DEF FilesConstants

LEMMA InputInit == Init => InputInv
<1> SUFFICES ASSUME Init PROVE InputInv
  OBVIOUS
<1>1. <<>> \in Seq(StreamByte) /\ Len(<<>>) = 0 /\ <<>> \o <<>> \o <<>> = <<>>
  BY EmptySeq, ConcatEmptySeq
<1>2. rd = Idle /\ Idle.mem = <<>> /\ Idle = [len |-> Idle.len, mem |-> Idle.mem]
  BY DEF Init, Idle
<1>3. Stream = <<>>
  BY <1>1, <1>2 DEF Init, Stream
<1>4. Ordered(Stream) /\ UpTo(Stream, arrived) /\ Len(Stream) = arrived
  BY <1>1, <1>3 DEF Init, Ordered, UpTo
<1>5. ~Wanting /\ ShortAtEnd
  BY <1>2 DEF Init, Wanting, ShortAtEnd
<1>6. arrived = 0 /\ 0 \in 0..MaxBytes /\ rbuf = <<>> /\ got = <<>> /\ ~ended /\ ~broken
  BY FilesBounds DEF Init
<1>7. outcome.len \in 0..MaxLen /\ outcome.n \in 0..outcome.len
  <2>1. outcome.len = 0 /\ outcome.n = 0
    BY DEF Init
  <2> QED
    BY <2>1, FilesBounds
<1>8. ended \in BOOLEAN /\ broken \in BOOLEAN
  BY DEF Init
<1> QED
  BY <1>1, <1>2, <1>4, <1>5, <1>6, <1>7, <1>8 DEF InputInv

LEMMA InputKept ==
  ASSUME InputInv, UNCHANGED input
  PROVE  InputInv'
BY DEF InputInv, input, Stream, Wanting, ShortAtEnd

LEMMA IdleFacts == Idle = [len |-> -1, mem |-> <<>>] /\ Idle.len = -1 /\ Idle.mem = <<>>
BY DEF Idle

LEMMA JoinedThree ==
  \A s, t, u \in Seq(StreamByte) :
    /\ s \o t \in Seq(StreamByte) /\ (s \o t) \o u = s \o (t \o u)
    /\ s \o <<>> = s /\ <<>> \o s = s
BY ConcatProperties, ConcatAssociative, ConcatEmptySeq

LEMMA Regroup ==
  \A s, t, u \in Seq(StreamByte) : (s \o t) \o u = s \o (t \o u)
BY ConcatAssociative

LEMMA ReadStarts ==
  ASSUME InputInv, NEW len \in 0..MaxLen, ReadPicked(len)
  PROVE  InputInv'
<1> USE DEF ReadPicked
<1>0. len \in Nat /\ 0 \in Nat /\ 0 <= len
  BY FilesBounds
<1>1. rd = Idle /\ UNCHANGED <<arrived, ended, got, outcome>>
  BY DEF Running
<1>2. rbuf \in Seq(StreamByte) /\ got \in Seq(StreamByte)
  BY DEF InputInv
<1>3. CASE rbuf = <<>> \/ attached
  <2> DEFINE p == Placed(rbuf, 0, len)
             r == Remainder(rbuf, 0, len)
  <2>1. /\ p \in Seq(StreamByte) /\ r \in Seq(StreamByte) /\ p \o r = rbuf
        /\ 0 + Len(p) <= len
        /\ 0 + Len(p) < len => r = <<>>
    BY <1>0, <1>2, PlacedAndLeft
  <2>2. rd' = [len |-> len, mem |-> p] /\ rbuf' = r /\ broken' = broken
    BY <1>3
  <2> HIDE DEF p, r
  <2>3. Len(p) \in Nat
    BY <2>1, LenProperties
  <2>4. rd'.len = len /\ rd'.mem = p /\ rd' = [len |-> rd'.len, mem |-> rd'.mem]
    BY <2>2
  <2>5. Stream' = Stream
    <3>1. Stream' = (got \o p) \o r
      BY <1>1, <2>2, <2>4 DEF Stream
    <3>2. Stream = (got \o <<>>) \o rbuf
      BY <1>1, IdleFacts DEF Stream
    <3>3. got \o <<>> = got
      BY <1>2, ConcatEmptySeq
    <3>4. (got \o p) \o r = got \o (p \o r)
      <4>1. got \in Seq(StreamByte) /\ p \in Seq(StreamByte) /\ r \in Seq(StreamByte)
        BY <1>2, <2>1
      <4> QED
        BY <4>1, Regroup, Zenon
    <3> QED
      BY <2>1, <3>1, <3>2, <3>3, <3>4, Zenon
  <2>6. Wanting' => rbuf' = <<>>
    BY <2>1, <2>2, <2>3, <2>4 DEF Wanting
  <2>7. Len(rd'.mem) <= rd'.len
    BY <2>1, <2>3, <2>4
  <2>8. ShortAtEnd'
    BY <1>1 DEF InputInv, ShortAtEnd
  <2> QED
    BY <1>1, <2>1, <2>2, <2>4, <2>5, <2>6, <2>7, <2>8 DEF InputInv
<1>4. CASE ~(rbuf = <<>> \/ attached)
  <2>1. broken' = TRUE /\ rd' = rd /\ rbuf' = rbuf
    BY <1>4
  <2>2. Stream' = Stream /\ (Wanting' <=> Wanting)
    BY <1>1, <2>1 DEF Stream, Wanting
  <2>3. ShortAtEnd'
    BY <1>1 DEF InputInv, ShortAtEnd
  <2> QED
    BY <1>1, <2>1, <2>2, <2>3 DEF InputInv
<1> QED
  BY <1>3, <1>4

(* A read that fails while it wants more: what it had in place is lost.     *)
LEMMA ReadFails ==
  ASSUME InputInv, Wanting, rd' = Idle, broken' = TRUE, rbuf' = rbuf,
         NEW a \in 0..MaxBytes, arrived <= a, arrived' = a,
         UNCHANGED <<got, outcome, ended>>
  PROVE  InputInv'
<1>1. rbuf = <<>> /\ got \in Seq(StreamByte) /\ rd.mem \in Seq(StreamByte)
  BY DEF InputInv
<1>2. Stream' = got
  BY <1>1, IdleFacts, ConcatEmptySeq DEF Stream
<1>3. Stream = got \o rd.mem
  <2>1. got \o rd.mem \in Seq(StreamByte)
    BY <1>1, ConcatProperties
  <2> QED
    BY <1>1, <2>1, ConcatEmptySeq DEF Stream
<1>4. arrived \in Nat /\ a \in Nat
  BY FilesBounds DEF InputInv
<1>5. Ordered(got) /\ UpTo(got, arrived)
  <2>1. Ordered(got \o rd.mem) /\ UpTo(got \o rd.mem, arrived)
    BY <1>3 DEF InputInv
  <2> QED
    BY <1>1, <1>4, <2>1, OrderedBefore
<1>6. UpTo(got, a)
  <2>1. \A k \in 1..Len(got) : got[k] \in StreamByte
    BY <1>1, ElementOfSeq
  <2>2. \A k \in 1..Len(got) : got[k] \in Nat
    BY <2>1, FilesBounds DEF StreamByte
  <2> QED
    BY <1>4, <1>5, <2>2 DEF UpTo
<1>7. ~Wanting'
  BY DEF Wanting
<1>8. ShortAtEnd'
  BY DEF InputInv, ShortAtEnd
<1>9. Idle = [len |-> Idle.len, mem |-> Idle.mem] /\ Idle.mem \in Seq(StreamByte)
  BY EmptySeq DEF Idle
<1> QED
  BY <1>1, <1>2, <1>5, <1>6, <1>7, <1>8, <1>9 DEF InputInv

LEMMA ChunkComes ==
  ASSUME InputInv, NEW n \in 1..MaxChunk, Chunk(n)
  PROVE  InputInv'
<1> USE DEF Chunk
<1> DEFINE b == After(arrived, n)
           have == Len(rd.mem)
<1>0. n \in Nat /\ arrived \in Nat /\ MaxBytes \in Nat /\ arrived + n <= MaxBytes
  BY FilesBounds DEF InputInv
<1>1. /\ Wanting /\ arrived' = arrived + n
      /\ UNCHANGED <<ended, got, outcome>>
      /\ IF attached
         THEN /\ rd' = [rd EXCEPT !.mem = @ \o Placed(b, have, rd.len)]
              /\ rbuf' = Remainder(b, have, rd.len)
              /\ UNCHANGED broken
         ELSE rd' = Idle /\ broken' = TRUE /\ UNCHANGED rbuf
  BY DEF After
<1>2. CASE ~attached
  <2>1. arrived + n \in 0..MaxBytes /\ arrived <= arrived + n
    BY <1>0
  <2> QED
    BY <1>1, <1>2, <2>1, ReadFails
<1>3. CASE attached
  <2>1. b \in Seq(StreamByte) /\ Len(b) = n
    BY <1>0, AfterBytes
  <2>2. /\ rd.len \in Nat /\ rd.len \in 0..MaxLen /\ have \in Nat /\ have < rd.len
        /\ rd.mem \in Seq(StreamByte) /\ got \in Seq(StreamByte)
        /\ rd = [len |-> rd.len, mem |-> rd.mem] /\ rbuf = <<>>
    BY <1>1, FilesBounds, LenProperties DEF InputInv, Wanting
  <2> DEFINE p == Placed(b, have, rd.len)
             r == Remainder(b, have, rd.len)
             m == rd.mem \o p
  <2>3. /\ p \in Seq(StreamByte) /\ r \in Seq(StreamByte) /\ p \o r = b
        /\ have + Len(p) <= rd.len
        /\ have + Len(p) < rd.len => r = <<>>
    <3>1. have <= rd.len
      BY <2>2
    <3> HIDE DEF b, have
    <3> QED
      BY <2>1, <2>2, <3>1, PlacedAndLeft
  <2>4. rd' = [rd EXCEPT !.mem = m] /\ rbuf' = r /\ broken' = broken
    BY <1>1, <1>3
  <2> HIDE DEF p, r, b
  <2>5. m \in Seq(StreamByte) /\ Len(m) = have + Len(p)
    BY <2>2, <2>3, ConcatProperties
  <2> HIDE DEF m
  <2>6. rd'.len = rd.len /\ rd'.mem = m /\ rd' = [len |-> rd'.len, mem |-> rd'.mem]
    BY <2>2, <2>4
  <2>7. Stream = got \o rd.mem /\ Stream \in Seq(StreamByte)
    <3>1. got \o rd.mem \in Seq(StreamByte) /\ (got \o rd.mem) \o <<>> = got \o rd.mem
      BY <2>2, JoinedThree
    <3> QED
      BY <2>2, <3>1 DEF Stream
  <2>8. Stream' = Stream \o b
    <3>1. Stream' = (got \o m) \o r
      BY <1>1, <2>4, <2>6 DEF Stream
    <3>2. got \o m = (got \o rd.mem) \o p
      <4>1. (got \o rd.mem) \o p = got \o (rd.mem \o p)
        <5>1. got \in Seq(StreamByte) /\ rd.mem \in Seq(StreamByte) /\ p \in Seq(StreamByte)
          BY <2>2, <2>3
        <5> QED
          BY <5>1, Regroup, Zenon
      <4> QED
        BY <4>1 DEF m
    <3>3. (Stream \o p) \o r = Stream \o (p \o r)
      <4>1. Stream \in Seq(StreamByte) /\ p \in Seq(StreamByte) /\ r \in Seq(StreamByte)
        BY <2>3, <2>7
      <4> QED
        BY <4>1, Regroup, Zenon
    <3> QED
      BY <2>3, <2>7, <3>1, <3>2, <3>3, Zenon
  <2>9. Ordered(Stream \o b) /\ UpTo(Stream \o b, arrived + n)
    <3>1. Ordered(Stream) /\ UpTo(Stream, arrived)
      BY DEF InputInv
    <3> QED
      BY <1>0, <2>7, <3>1, OrderedAfter DEF b
  <2>10. ~broken => Len(Stream \o b) = arrived + n
    BY <2>1, <2>7, ConcatProperties DEF InputInv
  <2>11. Wanting' => rbuf' = <<>>
    BY <2>3, <2>4, <2>5, <2>6 DEF Wanting
  <2>12. arrived' \in 0..MaxBytes
    BY <1>0, <1>1
  <2>13. ShortAtEnd'
    BY <1>1 DEF InputInv, ShortAtEnd
  <2>14. rd'.len \in 0..MaxLen /\ Len(rd'.mem) <= rd'.len /\ rd'.mem \in Seq(StreamByte)
    BY <2>2, <2>3, <2>5, <2>6
  <2>15. Ordered(Stream') /\ UpTo(Stream', arrived') /\ (~broken' => Len(Stream') = arrived')
    BY <1>1, <2>4, <2>8, <2>9, <2>10
  <2> QED
    BY <1>1, <2>2, <2>3, <2>4, <2>6, <2>11, <2>12, <2>13, <2>14, <2>15 DEF InputInv
<1> QED
  BY <1>2, <1>3

LEMMA ReadReturns ==
  ASSUME InputInv, rd # Idle, Returned, ended' \in BOOLEAN, ended => ended',
         Len(rd.mem) < rd.len => ended', UNCHANGED <<arrived, rbuf, broken>>
  PROVE  InputInv'
<1>1. /\ rd.len \in 0..MaxLen /\ Len(rd.mem) <= rd.len /\ rd.mem \in Seq(StreamByte)
      /\ got \in Seq(StreamByte) /\ rbuf \in Seq(StreamByte)
  BY DEF InputInv
<1>2. got' = got \o rd.mem /\ rd' = Idle /\ outcome' = [len |-> rd.len, n |-> Len(rd.mem)]
  BY DEF Returned
<1>3. got' \in Seq(StreamByte)
  BY <1>1, <1>2, ConcatProperties
<1>4. Stream' = Stream
  <2>1. got' \o <<>> = got'
    BY <1>3, ConcatEmptySeq
  <2> QED
    BY <1>2, <2>1, IdleFacts DEF Stream
<1>5. ~Wanting'
  BY <1>2 DEF Wanting
<1>6. outcome'.len \in 0..MaxLen /\ outcome'.n \in 0..outcome'.len
  <2>1. Len(rd.mem) \in Nat /\ rd.len \in Nat
    BY <1>1, FilesBounds, LenProperties
  <2> QED
    BY <1>1, <1>2, <2>1
<1>7. ShortAtEnd'
  BY <1>2 DEF ShortAtEnd
<1>8. Idle = [len |-> Idle.len, mem |-> Idle.mem] /\ Idle.mem \in Seq(StreamByte)
  BY EmptySeq DEF Idle
<1> QED
  BY <1>1, <1>2, <1>3, <1>4, <1>5, <1>6, <1>7, <1>8 DEF InputInv

LEMMA InputStep == ASSUME InputInv, [Next]_vars PROVE InputInv'
<1>1. CASE ReadDone
  <2>1. ~(Len(rd.mem) < rd.len)
    <3>1. rd # Idle /\ Len(rd.mem) >= rd.len
      BY <1>1 DEF ReadDone, Complete
    <3>2. rd.len \in Nat /\ Len(rd.mem) \in Nat
      BY <3>1, FilesBounds, LenProperties DEF InputInv
    <3> QED
      BY <3>1, <3>2
  <2> QED
    BY <1>1, <2>1, ReadReturns DEF ReadDone, Complete, InputInv
<1>2. CASE StreamEnds
  BY <1>2, ReadReturns DEF StreamEnds, Wanting
<1>3. CASE StreamFails
  <2>1. arrived \in 0..MaxBytes /\ arrived <= arrived
    BY FilesBounds DEF InputInv
  <2> QED
    BY <1>3, <2>1, ReadFails DEF StreamFails
<1>4. ASSUME NEW len \in 0..MaxLen, ReadPicked(len) PROVE InputInv'
  BY <1>4, ReadStarts
<1>5. ASSUME NEW n \in 1..MaxChunk, Chunk(n) PROVE InputInv'
  BY <1>5, ChunkComes
<1>6. CASE Grow \/ Exit \/ OpenDetached \/ Load \/ Lands \/ LandFails \/ ClosePicked \/ Commit
           \/ CommitFails \/ UNCHANGED vars
  BY <1>6, InputKept
  DEF Grow, Exit, OpenDetached, Ended, Load, Lands, LandFails, ClosePicked, Commit,
      CommitFails, Errored, vars, webVars
<1>7. ASSUME NEW h \in Handles,
             CloseFake(h) \/ ReadFakeEnd(h) \/ ReadFakeDetached(h) \/ RefuseFake(h)
      PROVE  InputInv'
  BY <1>7, InputKept DEF CloseFake, ReadFakeEnd, ReadFakeDetached, RefuseFake, Ended, webVars
<1>8. ASSUME NEW h \in Handles, NEW m \in Modes, OpenFake(h, m) \/ OpenPicked(m)
      PROVE  InputInv'
  BY <1>8, InputKept DEF OpenFake, OpenPicked, webVars
<1>9. ASSUME NEW h \in Handles, NEW data \in Texts, WriteFake(h, data) PROVE InputInv'
  BY <1>9, InputKept DEF WriteFake, webVars
<1>10. ASSUME NEW h \in Handles, NEW len \in 0..MaxLen,
              WriteFakeDetached(h, len) \/ ReadFake(h, len)
       PROVE  InputInv'
  BY <1>10, InputKept DEF WriteFakeDetached, ReadFake, Ended, webVars
<1>11. ASSUME NEW p \in Regions,
              WritePicked(p) \/ WriteRejected(p) \/ WriteDetached(p) \/ Reuse(p)
       PROVE  InputInv'
  BY <1>11, InputKept DEF WritePicked, WriteRejected, WriteDetached, Write, Reuse
<1>12. ASSUME NEW m \in Modes, OpenPicked(m) PROVE InputInv'
  BY <1>12, InputKept DEF OpenPicked
<1> QED
  BY <1>1, <1>2, <1>3, <1>4, <1>5, <1>6, <1>7, <1>8, <1>9, <1>10, <1>11, <1>12 DEF Next

-----------------------------------------------------------------------------
(* What is left of the types. *)
PlainTypes ==
  /\ alive \in BOOLEAN /\ kind \in {"none", "fake", "picked"}
  /\ web \in {"closed", "open", "closing", "lost"} /\ mode \in Modes \cup {"none"}

LEMMA PlainInit == Init => PlainTypes
BY DEF Init, PlainTypes

LEMMA PlainStep == ASSUME PlainTypes, OutputInv, [Next]_vars PROVE PlainTypes'
<1> USE DEF PlainTypes
<1>1. CASE ReadDone \/ StreamEnds \/ StreamFails \/ Grow \/ Lands \/ UNCHANGED vars
  BY <1>1
  DEF ReadDone, StreamEnds, StreamFails, Grow, Lands, vars, webVars, output
<1>2. CASE Exit \/ OpenDetached \/ Load \/ ClosePicked
  BY <1>2 DEF Exit, OpenDetached, Ended, Load, ClosePicked, AfterClose, webVars, output
<1>3. CASE Commit \/ CommitFails \/ LandFails
  BY <1>3 DEF Commit, CommitFails, LandFails, Errored
<1>4. ASSUME NEW len \in 0..MaxLen, ReadPicked(len) PROVE PlainTypes'
  BY <1>4 DEF ReadPicked, output
<1>5. ASSUME NEW n \in 1..MaxChunk, Chunk(n) PROVE PlainTypes'
  BY <1>5 DEF Chunk, output
<1>6. ASSUME NEW h \in Handles,
             CloseFake(h) \/ ReadFakeEnd(h) \/ ReadFakeDetached(h) \/ RefuseFake(h)
      PROVE  PlainTypes'
  BY <1>6 DEF CloseFake, ReadFakeEnd, ReadFakeDetached, RefuseFake, Ended, webVars, output
<1>7. ASSUME NEW h \in Handles, NEW m \in Modes, OpenFake(h, m) PROVE PlainTypes'
  BY <1>7 DEF OpenFake, webVars, output
<1>8. ASSUME NEW m \in Modes, OpenPicked(m) PROVE PlainTypes'
  BY <1>8 DEF OpenPicked, output
<1>9. ASSUME NEW h \in Handles, NEW data \in Texts, WriteFake(h, data) PROVE PlainTypes'
  BY <1>9 DEF WriteFake, webVars, output
<1>10. ASSUME NEW h \in Handles, NEW len \in 0..MaxLen,
              WriteFakeDetached(h, len) \/ ReadFake(h, len)
       PROVE  PlainTypes'
  BY <1>10 DEF WriteFakeDetached, ReadFake, Ended, webVars, output
<1>11. ASSUME NEW p \in Regions,
              WritePicked(p) \/ WriteRejected(p) \/ WriteDetached(p) \/ Reuse(p)
       PROVE  PlainTypes'
  BY <1>11 DEF WritePicked, WriteRejected, WriteDetached, Write, Reuse
<1> QED
  BY <1>1, <1>2, <1>3, <1>4, <1>5, <1>6, <1>7, <1>8, <1>9, <1>10, <1>11 DEF Next

(* What has landed, and the mark of a file that is not committed.           *)
LEMMA BytesAre ==
  /\ Seq(Bytes) \subseteq Seq([write : 0..MaxWrites, byte : 0..2])
  /\ None \in Seq([write : 0..MaxWrites, byte : 0..2])
<1> DEFINE D == [write : 0..MaxWrites, byte : 0..2]
<1>1. MaxWrites \in Nat
  BY FilesConstants DEF FilesConstants
<1>2. Bytes \subseteq D
  BY <1>1 DEF Bytes, Values
<1>3. ASSUME NEW s \in Seq(Bytes) PROVE s \in Seq(D)
  <2>1. s \in [1..Len(s) -> Bytes] /\ Len(s) \in Nat
    BY SeqDef, LenProperties, ElementOfSeq
  <2>2. s \in [1..Len(s) -> D]
    BY <1>2, <2>1
  <2> HIDE DEF D
  <2>3. Len(s) \in Nat /\ Seq(D) = UNION {[1..n -> D] : n \in Nat}
    BY <2>1, SeqDef
  <2> QED
    BY <2>2, <2>3
<1>4. [write |-> 0, byte |-> 0] \in D
  BY <1>1
<1> HIDE DEF D
<1>5. None \in Seq(D)
  BY <1>4 DEF None
<1> QED
  BY <1>3, <1>5 DEF D

(* Through any cuts of the stream into chunks and of reads into buffers,    *)
(* any failures and any growth of the program's memory: reads give every    *)
(* byte once and in order, fewer than asked for only at the stream's end,   *)
(* and a read that fails repeats none.                                      *)
THEOREM ReadsGiveStream == Spec => []ReadInv
<1>1. Init => FileInv /\ OutputInv /\ InputInv /\ PlainTypes
  BY FilesConstants, FileInit, OutputInit, InputInit, PlainInit
<1>2. FileInv /\ OutputInv /\ InputInv /\ PlainTypes /\ [Next]_vars
        => (FileInv /\ OutputInv /\ InputInv /\ PlainTypes)'
  BY FilesConstants, FileStep, OutputStep, InputStep, PlainStep
<1>3. FileInv /\ OutputInv /\ InputInv /\ PlainTypes => ReadInv
  <2> SUFFICES ASSUME FileInv, OutputInv, InputInv, PlainTypes PROVE ReadInv
    OBVIOUS
  <2>1. /\ fent.length \in Nat /\ fent.size \in 0..fent.length
        /\ fent.buf \in [0..(fent.length - 1) -> Data]
    BY DEF FileInv
  <2>2. \A h \in Handles : fds[h] = Closed
                       \/ (fds[h].mode \in Modes /\ fds[h].pos \in 0..fent.size)
    <3> SUFFICES ASSUME NEW h \in Handles
                 PROVE  fds[h] = Closed
                     \/ (fds[h].mode \in Modes /\ fds[h].pos \in 0..fent.size)
      OBVIOUS
    <3>1. fent.size \in Nat
      BY DEF FileInv
    <3>2. \/ fds[h] = Closed
          \/ fds[h].mode \in Modes /\ fds[h].pos \in Nat /\ fds[h].pos <= fent.size
      BY DEF FileInv, HandlesInv
    <3> QED
      BY <3>1, <3>2
  <2>3. rd.len \in -1..MaxLen /\ Len(rd.mem) <= Larger(rd.len, 0)
    <3>1. CASE rd = Idle
      <4>1. rd.len = -1 /\ Len(rd.mem) = 0
        BY <3>1, IdleFacts
      <4> QED
        BY <4>1, FilesBounds DEF Larger
    <3>2. CASE rd # Idle
      <4>1. rd.len \in 0..MaxLen /\ Len(rd.mem) <= rd.len
        BY <3>2 DEF InputInv
      <4> QED
        BY <4>1, FilesBounds DEF Larger
    <3> QED
      BY <3>1, <3>2
  <2>4. {rbuf, rd.mem, got} \subseteq Seq(1..MaxBytes)
    BY DEF InputInv, StreamByte
  <2>5. /\ regions \in [Regions -> 1..2] /\ written \in Seq(1..2) /\ touched \subseteq 1..MaxWrites
        /\ queue \in Seq([write : 1..MaxWrites, at : Regions])
    BY DEF OutputInv, OutputType, Memory, Values, Views
  <2>9. {landed, disk} \subseteq Seq([write : 0..MaxWrites, byte : 0..2])
    <3>1. landed \in Seq(Bytes) /\ disk \in {None, landed}
      BY DEF OutputInv, OutputType, AllOrNothing
    <3> QED
      BY <3>1, BytesAre
  <2>6. {alive, attached, ended, broken, failed} \subseteq BOOLEAN
    BY DEF InputInv, PlainTypes, OutputInv, OutputType
  <2>7. TypeOK
    BY <2>1, <2>2, <2>3, <2>4, <2>5, <2>6, <2>9 DEF TypeOK, InputInv, PlainTypes
  <2>8. StreamKept
    <3>1. Stream \in Seq(StreamByte)
      BY JoinedThree DEF Stream, InputInv
    <3>2. DOMAIN Stream = 1..Len(Stream)
      BY <3>1, LenProperties
    <3>3. /\ \A j, k \in DOMAIN Stream : j < k => Stream[j] < Stream[k]
          /\ ~broken => Len(Stream) = arrived
      BY <3>2 DEF InputInv, Ordered
    <3> QED
      BY <3>3 DEF StreamKept, Stream
  <2> QED
    BY <2>7, <2>8 DEF ReadInv, InputInv
<1> QED
  BY <1>1, <1>2, <1>3, PTL DEF Spec
=============================================================================
