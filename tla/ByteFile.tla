------------------------------ MODULE ByteFile ------------------------------
(***************************************************************************)
(* What the files of the browser backend's fake file system promise: one   *)
(* sequence of bytes that outlives processes, read and written through     *)
(* handles which each have a position within it.  Bytes are counted from 0.*)
(***************************************************************************)
EXTENDS Integers, Sequences

CONSTANTS
  Handles, \* the descriptors that name the file
  Data,    \* the bytes
  Initial, \* how many bytes the file starts with
  MaxLen   \* bound on the length of a call

VARIABLES
  content, \* the bytes, a function on 0..n - 1
  size,    \* n
  pos,     \* the position of each handle, or Closed
  answer   \* what the last call returned, with the bytes that were read

vars == <<content, size, pos, answer>>

Closed == -1
Bytes(n) == [0..(n - 1) -> Data]

Init ==
  /\ size = Initial /\ content \in Bytes(Initial)
  /\ pos = [h \in Handles |-> Closed]
  /\ answer = <<"none">>

Open(h) ==
  /\ pos[h] = Closed
  /\ pos' = [pos EXCEPT ![h] = 0]
  /\ answer' = <<"ok">>
  /\ UNCHANGED <<content, size>>

Close(h) ==
  /\ pos[h] # Closed
  /\ pos' = [pos EXCEPT ![h] = Closed]
  /\ answer' = <<"ok">>
  /\ UNCHANGED <<content, size>>

(* A write replaces the bytes at the position and extends the file.         *)
Write(h, data) ==
  LET from == pos[h]
      to == from + Len(data)
  IN /\ from # Closed
     /\ size' = IF to > size THEN to ELSE size
     /\ content' = [i \in 0..(size' - 1) |->
                      IF from <= i /\ i < to THEN data[i - from + 1] ELSE content[i]]
     /\ pos' = [pos EXCEPT ![h] = to]
     /\ answer' = <<"wrote", Len(data)>>

(* A read returns the bytes at the position, as many as there are.          *)
Read(h, cap) ==
  LET from == pos[h]
      n == IF size - from < cap THEN size - from ELSE cap
  IN /\ from # Closed /\ from < size
     /\ answer' = <<"read", [k \in 1..n |-> content[from + k - 1]]>>
     /\ pos' = [pos EXCEPT ![h] = from + n]
     /\ UNCHANGED <<content, size>>

ReadAtEnd(h) ==
  /\ pos[h] = size
  /\ answer' = <<"end">>
  /\ UNCHANGED <<content, size, pos>>

Refuse ==
  /\ answer' = <<"invalid">>
  /\ UNCHANGED <<content, size, pos>>

(* The process ends, or dies in a write through h, which may cost the file  *)
(* what lies behind the position and nothing else.                          *)
Gone(h) ==
  /\ pos' = [g \in Handles |-> Closed]
  /\ answer' = <<"none">>
  /\ UNCHANGED size
  /\ content' \in Bytes(size)
  /\ \A i \in 0..(size - 1) : i < pos[h] => content'[i] = content[i]
  /\ pos[h] = Closed => content' = content

Texts == UNION {[1..n -> Data] : n \in 0..MaxLen}

Next == \/ \E h \in Handles : Open(h) \/ Close(h) \/ ReadAtEnd(h) \/ Gone(h)
        \/ \E h \in Handles, cap \in 0..MaxLen : Read(h, cap)
        \/ \E h \in Handles, data \in Texts : Write(h, data)
        \/ Refuse

Spec == Init /\ [][Next]_vars
=============================================================================
