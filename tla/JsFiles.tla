------------------------------- MODULE JsFiles -------------------------------
(***************************************************************************)
(* The files of the browser backend (backends/js/playsys.ts): MemoryFile,  *)
(* whose bytes belong to the page and outlive the process, and WebFSFile,  *)
(* which reads a stream in chunks while the process is suspended and       *)
(* writes in the background.  Both copy from and to the program's memory   *)
(* through views that were made when the process was loaded.               *)
(*                                                                         *)
(* A behaviour follows the fake file system's one entry, or one file the   *)
(* user picked: they share nothing but the memory.  Descriptors and        *)
(* suspension are the subject of JsProcess.                                *)
(***************************************************************************)
EXTENDS Integers, Sequences

CONSTANTS
  Handles,  \* descriptors
  Data,     \* bytes in the fake file
  Zero,     \* what a new Uint8Array holds
  Uname,    \* the entry's first contents, a sequence of bytes
  Page,     \* what buffers are rounded up to: 4096 in the code
  MaxLen,   \* bound on the length of a call
  MaxSize,  \* bound on the size of the fake file
  MaxChunk, \* bound on the length of a chunk of the stream
  MaxBytes, \* bound on the bytes of the stream
  Regions,  \* places of the program's memory that it writes from
  MaxWrites \* bound on the writes to the picked file

ASSUME FilesConstants ==
  /\ Handles # {} /\ Zero \in Data
  /\ Page \in Nat \ {0}
  /\ Uname \in Seq(Data)
  /\ {MaxLen, MaxSize, MaxChunk, MaxBytes, MaxWrites} \subseteq Nat

VARIABLES
  alive,    \* the program runs: it has not returned, exited or trapped
  attached, \* the process's views still show the program's memory
  kind,     \* what the program opened: "fake", "picked", or "none" so far
  fent,     \* the fake file's entry: buf, its length, and size
  fds,      \* the MemoryFiles, by descriptor: mode and pos
  answer,   \* what the last call on a MemoryFile returned
  web,      \* the WebFSFile: "closed", "open", "closing" or "lost"
  mode,     \* and its access mode
  arrived,  \* history: how many bytes the stream has handed over
  ended,    \* the stream has no more
  rbuf,     \* this.rbuf, the bytes of the stream by their place in it
  rd,       \* the read in progress: what was asked for and is in place
  got,      \* history: the bytes reads have returned
  broken,   \* history: a read has failed
  outcome,  \* what the last read that did not fail asked for and returned
  regions,  \* the program's memory at the places it writes from
  written,  \* history: what the program has written
  queue,    \* views of the memory that wstream has still to take, by write
  touched,  \* history: the writes whose memory changed or went before that
  failed,   \* wstream is in error
  landed,   \* what wstream has taken
  disk      \* the picked file, once it has been committed

mem == <<fent, fds, answer>>
input == <<arrived, ended, rbuf, rd, got, broken, outcome>>
output == <<regions, written, queue, touched, failed, landed, disk>>
webVars == <<web, mode, input, output>>
vars == <<alive, attached, kind, mem, webVars>>

Closed == [mode |-> "none", pos |-> -1]
(* No file holds this: writes are counted from 1.                           *)
None == <<[write |-> 0, byte |-> 0]>>
Idle == [len |-> -1, mem |-> <<>>]
Modes == {"r", "w", "rw"}

CanRead(m) == m \in {"r", "rw"}
CanWrite(m) == m \in {"w", "rw"}

Init ==
  /\ alive = TRUE /\ attached = TRUE /\ kind = "none"
  /\ fent = [buf |-> [i \in 0..(Len(Uname) - 1) |-> Uname[i + 1]],
             length |-> Len(Uname), size |-> Len(Uname)]
  /\ fds = [h \in Handles |-> Closed]
  /\ answer = <<"none">>
  /\ web = "closed" /\ mode = "none"
  /\ arrived = 0 /\ ended = FALSE /\ rbuf = <<>> /\ rd = Idle
  /\ got = <<>> /\ broken = FALSE /\ outcome = [len |-> 0, n |-> 0]
  /\ regions = [p \in Regions |-> 1]
  /\ written = <<>> /\ queue = <<>> /\ touched = {} /\ failed = FALSE
  /\ landed = <<>> /\ disk = None

-----------------------------------------------------------------------------
(* The process. *)

(* The program can make calls: it is not suspended in a read.               *)
Running == alive /\ rd = Idle

(* The program grows its memory, which detaches every view of it.           *)
Grow ==
  /\ Running /\ attached
  /\ attached' = FALSE
  /\ touched' = touched \cup {queue[k].write : k \in DOMAIN queue}
  /\ UNCHANGED <<alive, kind, mem, web, mode, input, regions, written, queue, failed, landed,
                 disk>>

(* The end of the process: nothing closes its files.                        *)
Ended ==
  /\ alive' = FALSE
  /\ fds' = [h \in Handles |-> Closed]
  /\ answer' = <<"none">>
  /\ web' = IF web = "open" THEN "lost" ELSE web
  /\ UNCHANGED <<attached, kind, mode, input, output>>

Exit == Running /\ Ended /\ UNCHANGED fent

(* openat reads the path through the view, and throws if it is detached.    *)
OpenDetached == Running /\ ~attached /\ Ended /\ UNCHANGED fent

(* wasm_load: the page starts the next program, which finds the entry.      *)
Load ==
  /\ ~alive /\ kind = "fake"
  /\ alive' = TRUE /\ attached' = TRUE
  /\ UNCHANGED <<kind, mem, webVars>>

-----------------------------------------------------------------------------
(* MemoryFile. *)

(* The entry's mode 0o444 is not looked at.                                 *)
OpenFake(h, m) ==
  /\ Running /\ attached /\ kind \in {"none", "fake"} /\ kind' = "fake"
  /\ fds[h] = Closed
  /\ fds' = [fds EXCEPT ![h] = [mode |-> m, pos |-> 0]]
  /\ answer' = <<"ok">>
  /\ UNCHANGED <<alive, attached, fent, webVars>>

CloseFake(h) ==
  /\ Running
  /\ fds[h] # Closed
  /\ fds' = [fds EXCEPT ![h] = Closed]
  /\ answer' = <<"ok">>
  /\ UNCHANGED <<alive, attached, kind, fent, webVars>>

(* align2 *)
Aligned(n) == ((n + Page - 1) \div Page) * Page

(* Mutant: only whole pages are copied. *)
CopiedPages(pos) == (pos \div Page) * Page

Copied(pos) == pos

(* The buffer after the check at the start of write: only what lies before  *)
(* the position is copied to a larger one.                                  *)
Grown(pos, len) ==
  IF pos + len <= fent.length THEN fent
  ELSE LET n == Aligned(fent.length + len)
       IN [buf |-> [i \in 0..(n - 1) |-> IF i < Copied(pos) THEN fent.buf[i] ELSE Zero],
           length |-> n, size |-> fent.size]

Larger(m, n) == IF m > n THEN m ELSE n
Smaller(m, n) == IF m < n THEN m ELSE n

WriteFake(h, data) ==
  LET pos == fds[h].pos
      to == pos + Len(data)
      room == Grown(pos, Len(data))
  IN /\ Running /\ attached /\ CanWrite(fds[h].mode)
     /\ to <= MaxSize
     /\ fent' = [room EXCEPT
                   !.buf = [i \in 0..(room.length - 1) |->
                      IF pos <= i /\ i < to THEN data[i - pos + 1] ELSE room.buf[i]],
                   !.size = Larger(fent.size, to)]
     /\ fds' = [fds EXCEPT ![h].pos = to]
     /\ answer' = <<"wrote", Len(data)>>
     /\ UNCHANGED <<alive, attached, kind, webVars>>

(* The detached view throws after the buffer has been replaced.             *)
WriteFakeDetached(h, len) ==
  /\ Running /\ ~attached /\ CanWrite(fds[h].mode)
  /\ fds[h].pos + len <= MaxSize
  /\ fent' = Grown(fds[h].pos, len)
  /\ Ended

ReadFake(h, cap) ==
  LET pos == fds[h].pos
      n == Smaller(fent.size - pos, cap)
  IN /\ Running /\ CanRead(fds[h].mode)
     /\ attached /\ pos < fent.size
     /\ answer' = <<"read", [k \in 1..n |-> fent.buf[pos + k - 1]]>>
     /\ fds' = [fds EXCEPT ![h].pos = pos + n]
     /\ UNCHANGED <<alive, attached, kind, fent, webVars>>

ReadFakeEnd(h) ==
  /\ Running /\ CanRead(fds[h].mode)
  /\ fds[h].pos >= fent.size
  /\ answer' = <<"end">>
  /\ UNCHANGED <<alive, attached, kind, fent, fds, webVars>>

ReadFakeDetached(h) ==
  /\ Running /\ CanRead(fds[h].mode)
  /\ ~attached /\ fds[h].pos < fent.size
  /\ Ended /\ UNCHANGED fent

(* A read of a file open for writing only, and the other way round.         *)
RefuseFake(h) ==
  /\ Running /\ fds[h].mode \in {"r", "w"}
  /\ answer' = <<"invalid">>
  /\ UNCHANGED <<alive, attached, kind, fent, fds, webVars>>

-----------------------------------------------------------------------------
(* WebFSFile. *)

(* open_web_fs *)
OpenPicked(m) ==
  /\ Running /\ attached /\ kind = "none" /\ kind' = "picked"
  /\ web' = "open" /\ mode' = m
  /\ UNCHANGED <<alive, attached, mem, input, output>>

(* Bytes that read has put in place, and what is left over of them.         *)
Placed(bytes, already, len) == SubSeq(bytes, 1, Smaller(Len(bytes), len - already))

(* Mutant: what does not fit is dropped. *)
RemainderDropped(bytes, already, len) == <<>>

Remainder(bytes, already, len) ==
  SubSeq(bytes, Smaller(Len(bytes), len - already) + 1, Len(bytes))

(* read starts with what the last one left; the process is suspended.  A    *)
(* detached view fails the read before rbuf is assigned.                    *)
ReadPicked(len) ==
  /\ Running /\ web = "open" /\ CanRead(mode)
  /\ IF rbuf = <<>> \/ attached
     THEN /\ rd' = [len |-> len, mem |-> Placed(rbuf, 0, len)]
          /\ rbuf' = Remainder(rbuf, 0, len)
          /\ UNCHANGED broken
     ELSE broken' = TRUE /\ UNCHANGED <<rd, rbuf>>
  /\ UNCHANGED <<alive, attached, kind, mem, web, mode, arrived, ended, got, outcome, output>>

(* The loop goes on: fewer bytes are in place than were asked for.          *)
Wanting == rd # Idle /\ Len(rd.mem) < rd.len

(* rstream.read() gives the next chunk.  If the view is detached it is lost.*)
Chunk(n) ==
  LET bytes == [k \in 1..n |-> arrived + k]
      have == Len(rd.mem)
  IN /\ Wanting /\ ~ended /\ arrived + n <= MaxBytes
     /\ arrived' = arrived + n
     /\ IF attached
        THEN /\ rd' = [rd EXCEPT !.mem = @ \o Placed(bytes, have, rd.len)]
             /\ rbuf' = Remainder(bytes, have, rd.len)
             /\ UNCHANGED broken
        ELSE rd' = Idle /\ broken' = TRUE /\ UNCHANGED rbuf
     /\ UNCHANGED <<alive, attached, kind, mem, web, mode, ended, got, outcome, output>>

(* Mutant: the loop ends only when there is more than was asked for.        *)
CompletePast == rd # Idle /\ Len(rd.mem) > rd.len

Complete == rd # Idle /\ Len(rd.mem) >= rd.len

(* The read returns how many bytes are in place.                            *)
Returned ==
  /\ got' = got \o rd.mem /\ rd' = Idle
  /\ outcome' = [len |-> rd.len, n |-> Len(rd.mem)]

ReadDone ==
  /\ Complete /\ Returned
  /\ UNCHANGED <<alive, attached, kind, mem, web, mode, arrived, ended, rbuf, broken, output>>

(* The stream is done. *)
StreamEnds ==
  /\ Wanting /\ ended' = TRUE /\ Returned
  /\ UNCHANGED <<alive, attached, kind, mem, web, mode, arrived, rbuf, broken, output>>

(* rstream.read() is rejected: the call is told so, whatever is in place.   *)
StreamFails ==
  /\ Wanting /\ rd' = Idle /\ broken' = TRUE
  /\ UNCHANGED <<alive, attached, kind, mem, web, mode, arrived, ended, rbuf, got, outcome,
                 output>>

(* Mutant: a write replaces the one that waits. *)
QueuedOver(p) == <<[write |-> Len(written) + 1, at |-> p]>>

(* The view of the program's memory waits in wstream.                       *)
Queued(p) == Append(queue, [write |-> Len(written) + 1, at |-> p])

(* write returns a promise, which the program sees as 0 whatever becomes of *)
(* it.                                                                      *)
Write(p) ==
  /\ Running /\ web = "open" /\ CanWrite(mode)
  /\ Len(written) < MaxWrites
  /\ written' = Append(written, regions[p])
  /\ UNCHANGED <<alive, attached, kind, mem, web, mode, input, regions, failed, landed, disk>>

WritePicked(p) ==
  /\ Write(p) /\ attached /\ ~failed
  /\ queue' = Queued(p)
  /\ UNCHANGED touched

(* wstream in error rejects the write, and the catch makes it an error code *)
(* that nobody reads.                                                       *)
WriteRejected(p) == Write(p) /\ attached /\ failed /\ UNCHANGED <<queue, touched>>

(* Making a view of detached memory throws before the try.                  *)
WriteDetached(p) ==
  /\ Write(p) /\ ~attached
  /\ touched' = touched \cup {Len(written) + 1}
  /\ UNCHANGED queue

(* The program uses its memory for something else.                          *)
Reuse(p) ==
  /\ Running /\ web # "closed" /\ CanWrite(mode)
  /\ regions' = [regions EXCEPT ![p] = 3 - @]
  /\ touched' = touched \cup {queue[k].write : k \in {j \in DOMAIN queue : queue[j].at = p}}
  /\ UNCHANGED <<alive, attached, kind, mem, web, mode, input, written, queue, failed, landed,
                 disk>>

(* wstream takes the oldest view; a detached one holds nothing.             *)
Lands ==
  /\ queue # <<>>
  /\ landed' =
       IF attached
       THEN Append(landed, [write |-> Head(queue).write, byte |-> regions[Head(queue).at]])
       ELSE landed
  /\ queue' = Tail(queue)
  /\ UNCHANGED <<alive, attached, kind, mem, web, mode, input, regions, written, touched,
                 failed, disk>>

(* wstream is in error: what waits is rejected, a close that waits too, and *)
(* the file stays as it was.  write's catch and the missing one of close    *)
(* tell the program nothing.                                                *)
Errored ==
  /\ failed' = TRUE /\ queue' = <<>>
  /\ web' = IF web = "closing" THEN "closed" ELSE web
  /\ UNCHANGED <<alive, attached, kind, mem, mode, input, regions, written, touched, landed,
                 disk>>

(* The oldest write fails: no permission any more, no room.                 *)
LandFails == queue # <<>> /\ Errored

(* A stream in error rejects close at once.                                 *)
AfterClose == IF CanWrite(mode) /\ ~failed THEN "closing" ELSE "closed"

(* close: the descriptor is free at once, wstream goes on by itself.        *)
ClosePicked ==
  /\ Running /\ web = "open"
  /\ web' = AfterClose
  /\ UNCHANGED <<alive, attached, kind, mem, mode, input, output>>

Committing == web = "closing" /\ queue = <<>>

(* wstream replaces the file when it has taken all, or fails to.            *)
Commit ==
  /\ Committing
  /\ web' = "closed" /\ disk' = landed
  /\ UNCHANGED <<alive, attached, kind, mem, mode, input, regions, written, queue, touched,
                 failed, landed>>

CommitFails == Committing /\ Errored

-----------------------------------------------------------------------------
Texts == UNION {[1..n -> Data] : n \in 0..MaxLen}

Next == \/ Grow \/ Exit \/ OpenDetached \/ Load
        \/ \E h \in Handles, m \in Modes : OpenFake(h, m)
        \/ \E h \in Handles : CloseFake(h) \/ ReadFakeEnd(h)
                            \/ ReadFakeDetached(h) \/ RefuseFake(h)
        \/ \E h \in Handles, data \in Texts : WriteFake(h, data)
        \/ \E h \in Handles, len \in 0..MaxLen : WriteFakeDetached(h, len)
        \/ \E h \in Handles, cap \in 0..MaxLen : ReadFake(h, cap)
        \/ \E m \in Modes : OpenPicked(m)
        \/ \E len \in 0..MaxLen : ReadPicked(len)
        \/ \E n \in 1..MaxChunk : Chunk(n)
        \/ ReadDone \/ StreamEnds \/ StreamFails
        \/ \E p \in Regions : WritePicked(p) \/ WriteRejected(p) \/ WriteDetached(p) \/ Reuse(p)
        \/ Lands \/ LandFails \/ ClosePicked \/ Commit \/ CommitFails

(* The browser answers what it is asked: a stream yields, ends or fails,    *)
(* and a writable stream takes what was written to it, or fails.            *)
Spec ==
  /\ Init /\ [][Next]_vars
  /\ WF_vars(StreamEnds \/ StreamFails \/ \E n \in 1..MaxChunk : Chunk(n))
  /\ WF_vars(ReadDone)
  /\ WF_vars(Lands \/ LandFails) /\ WF_vars(Commit \/ CommitFails)

-----------------------------------------------------------------------------
TypeOK ==
  /\ {alive, attached, ended, broken, failed} \subseteq BOOLEAN
  /\ kind \in {"none", "fake", "picked"}
  /\ fent.length \in Nat /\ fent.size \in 0..fent.length
  /\ fent.buf \in [0..(fent.length - 1) -> Data]
  /\ \A h \in Handles : fds[h] = Closed
                       \/ (fds[h].mode \in Modes /\ fds[h].pos \in 0..fent.size)
  /\ web \in {"closed", "open", "closing", "lost"} /\ mode \in Modes \cup {"none"}
  /\ arrived \in 0..MaxBytes
  /\ {rbuf, rd.mem, got} \subseteq Seq(1..MaxBytes)
  /\ rd.len \in -1..MaxLen /\ Len(rd.mem) <= Larger(rd.len, 0)
  /\ outcome.len \in 0..MaxLen /\ outcome.n \in 0..outcome.len
  /\ regions \in [Regions -> 1..2] /\ written \in Seq(1..2) /\ touched \subseteq 1..MaxWrites
  /\ queue \in Seq([write : 1..MaxWrites, at : Regions])
  /\ {landed, disk} \subseteq Seq([write : 0..MaxWrites, byte : 0..2])

(* The fake file's bytes behind the position of a handle that outgrows the  *)
(* buffer are not copied: MemoryFile still implements a file of bytes, one  *)
(* that all handles and all processes share.                                *)
File == INSTANCE ByteFile WITH
  Initial <- Len(Uname),
  content <- [i \in 0..(fent.size - 1) |-> fent.buf[i]],
  size <- fent.size,
  pos <- [h \in Handles |-> fds[h].pos]

ImplementsByteFile == File!Spec

(* Through any cuts of the stream into chunks and of the reads into buffers *)
(* the program gets every byte once and in order; a read that fails (the    *)
(* stream's failure, or detached memory) may lose bytes but repeats none.   *)
StreamKept ==
  LET s == got \o rd.mem \o rbuf
  IN /\ \A j, k \in DOMAIN s : j < k => s[j] < s[k]
     /\ ~broken => Len(s) = arrived

(* A read returns fewer bytes than it was asked for only at the end of the  *)
(* stream.                                                                  *)
ShortAtEnd == outcome.n < outcome.len => ended

(* What reads give a program, over any chunks, buffers, failures and growth *)
(* of memory: the stream, whole and in order, cut short only at its end.    *)
ReadInv == TypeOK /\ StreamKept /\ ShortAtEnd

(* What wstream has taken: in the order of the writes, and of a write whose *)
(* memory the program left alone until then, what it wrote.                 *)
LandedAsWritten ==
  \A k \in DOMAIN landed :
    /\ \A j \in 1..(k - 1) : landed[j].write < landed[k].write
    /\ landed[k].write \in touched \/ landed[k].byte = written[landed[k].write]

(* A write that is neither taken nor waiting was made of memory that is     *)
(* gone, unless wstream is in error.                                        *)
NoneMissing ==
  failed \/ \A n \in DOMAIN written :
              \/ n \in touched
              \/ \E k \in DOMAIN landed : landed[k].write = n
              \/ \E k \in DOMAIN queue : queue[k].write = n

(* Writes are not waited for and their failures are told to nobody: still a *)
(* picked file is replaced by all that the program wrote or not at all.     *)
(* When one write fails those behind it do not close the gap, and the close *)
(* that follows does not commit what is left.  Only the writes whose memory *)
(* changed or went while they waited may differ or be missing: those are    *)
(* lost, since write hands out a view and returns.                          *)
AllOrNothing ==
  /\ LandedAsWritten /\ NoneMissing
  /\ disk # None => ~failed /\ queue = <<>> /\ disk = landed

(* What is committed is what was written.  The code keeps this only where   *)
(* the program knows not to touch its memory (MCJsFilesReuse).              *)
CommitsWritten ==
  disk # None => [k \in DOMAIN disk |-> disk[k].byte] = written

(* A read returns, and a file that is closed is committed or has failed.    *)
Answered ==
  /\ rd # Idle ~> rd = Idle
  /\ web = "closing" ~> web = "closed"
=============================================================================
