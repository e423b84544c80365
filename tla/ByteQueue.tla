----------------------------- MODULE ByteQueue -----------------------------
(***************************************************************************)
(* What a p_ringbuf_t promises (backends/wgpu/src/ringbuf.h): a queue of   *)
(* bytes of bounded capacity.  A write appends as much as fits and reports *)
(* how much that was, a read takes bytes off the front in the order they   *)
(* were written, and the x variants do all or nothing.  Moving the buffer  *)
(* to a larger block keeps the number of bytes and as many of the first of *)
(* them as it adds room for: all of them when the capacity doubles, the    *)
(* oldest when grow_rbuf (glfw.cc:19) adds room for one message.           *)
(***************************************************************************)
EXTENDS Integers, Sequences

CONSTANTS Bytes, InitCap, MaxCap, MaxLen

VARIABLES queue,  \* the bytes written and not yet read
          cap,    \* how many there is room for
          ret     \* what the last call returned: a count, and the bytes read

qvars == <<queue, cap, ret>>

Least(a, b) == IF a < b THEN a ELSE b
Room == cap - Len(queue)

Ret(n, bytes) == [n |-> n, bytes |-> bytes]

Put(data, n) ==
  /\ queue' = queue \o SubSeq(data, 1, n)
  /\ ret' = Ret(n, <<>>)
  /\ UNCHANGED cap

Take(n) ==
  /\ queue' = SubSeq(queue, n + 1, Len(queue))
  /\ ret' = Ret(n, SubSeq(queue, 1, n))
  /\ UNCHANGED cap

Init == queue = <<>> /\ cap = InitCap /\ ret = Ret(0, <<>>)

Write(data) == Put(data, Least(Room, Len(data)))
Read(n) == Take(Least(Len(queue), n))
WriteX(data) == Put(data, IF Room < Len(data) THEN 0 ELSE Len(data))
ReadX(n) == Take(IF Len(queue) < n THEN 0 ELSE n)

Move == /\ cap' \in (cap + 1)..MaxCap
        /\ queue' \in [DOMAIN queue -> Bytes]
        /\ \A k \in DOMAIN queue : k <= cap' - cap => queue'[k] = queue[k]
        /\ UNCHANGED ret

Data == UNION {[1..n -> Bytes] : n \in 0..MaxLen}

Next == \/ \E data \in Data : Write(data) \/ WriteX(data)
        \/ \E n \in 0..MaxLen : Read(n) \/ ReadX(n)
        \/ Move

Spec == Init /\ [][Next]_qvars
=============================================================================
