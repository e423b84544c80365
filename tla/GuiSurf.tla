------------------------------ MODULE GuiSurf ------------------------------
(***************************************************************************)
(* GUI surfaces of the native backend (backends/wgpu/src/glfw.cc and the   *)
(* surface part of wgpu.cc).  Each surface has an OS window and a ring     *)
(* buffer of messages.  Events pile up in the window system and are only   *)
(* processed while some read sits in glfwWaitEvents, one callback after    *)
(* the other and for every window: a resize posts a message to its own     *)
(* surface, whoever is being read.  The buffer is the queue of bytes that  *)
(* RingBuf implements, at the grain of a message's two writes, header and  *)
(* payload; but as it grows, grow_rbuf has it copy from a block that       *)
(* realloc may have freed, and by less than RingBuf needs to keep it all.  *)
(* The sizes a window is given are numbered.                               *)
(***************************************************************************)
EXTENDS Integers, Sequences

CONSTANTS
  Surfs,     \* surfaces the program opens, each once
  InitCap,   \* rbufcap, in halves of a message
  MaxCap,    \* maxcap of grow_rbuf
  MaxSizes,  \* bound: sizes given to one window
  MaxEvents, \* bound: events pending in the window system
  ReadSizes  \* the nbyte arguments of reads

ASSUME SurfConstants ==
  /\ InitCap \in Nat /\ MaxCap \in Nat /\ InitCap <= MaxCap
  /\ InitCap >= 2  \* there is room for a message
  /\ MaxSizes \in Nat \ {0} /\ MaxEvents \in Nat \ {0}
  /\ ReadSizes \subseteq Nat
  /\ "none" \notin Surfs

VARIABLES
  surf,      \* per surface: is it open, its window, rbuf's contents and cap,
             \* and, as a history, the message it last grew for (0: none) and
             \* whether it could not grow some time
  sizes,     \* how many sizes each window has been given
  events,    \* what the window system has not delivered yet
  reader,    \* the read in glfwWaitEvents: surface, bytes taken, bytes wanted,
             \* and whether an event has woken it
  ret,       \* the read that has just returned, if any: surface and result
  posts,     \* history: messages posted to each surface
  received,  \* history: what completed reads have returned, in order
  wild       \* a callback has followed the pointer to a surface that is gone

vars == <<surf, sizes, events, reader, ret, posts, received, wild>>

p_err_end == -10

None == "none"
Idle == [surf |-> None, got |-> <<>>, want |-> 0, woken |-> FALSE]
NoResult == [surf |-> None, n |-> 0]

Init ==
  /\ surf = [s \in Surfs |-> [state |-> "none", window |-> FALSE,
                              shouldClose |-> FALSE, cap |-> InitCap, q |-> <<>>,
                              grown |-> 0, refused |-> FALSE]]
  /\ sizes = [s \in Surfs |-> 0]
  /\ events = <<>>
  /\ reader = Idle
  /\ ret = NoResult
  /\ posts = [s \in Surfs |-> 0]
  /\ received = [s \in Surfs |-> <<>>]
  /\ wild = FALSE

-----------------------------------------------------------------------------
Least(a, b) == IF a < b THEN a ELSE b

(* The message of a window's k-th size: its header and its surfinfo.        *)
Header(k) == <<k, "hdr">>
Payload(k) == <<k, "info">>
MsgSize == 2

(* A byte of which nothing is known. *)
Lost == <<0, "lost">>

(* p_ringbuf_write: what does not fit is not written.                       *)
Written(b, byte) == IF Len(b.q) < b.cap THEN [b EXCEPT !.q = Append(@, byte)] ELSE b

(* grow_rbuf: room for one more message, or twice the capacity if less,     *)
(* up to maxcap and if the allocator has it.  When realloc moves the block,  *)
(* p_ringbuf_move copies from the freed one; when it does not, the chunk to  *)
(* be moved overlaps its destination.  Either may lose any bytes, but not    *)
(* how many there are.                                                       *)
NewCap(b) == Least(b.cap + MsgSize, 2 * b.cap)
Without(q, lost) == [j \in DOMAIN q |-> IF j \in lost THEN Lost ELSE q[j]]
Grown(b, k, memory, lost) ==
  IF memory /\ NewCap(b) <= MaxCap
  THEN [b EXCEPT !.cap = NewCap(b), !.q = Without(@, lost), !.grown = k]
  ELSE [b EXCEPT !.refused = TRUE]

(* Mutant: the buffer never grows. *)
WithRoomNever(b, k, memory, lost) == b

WithRoom(b, k, memory, lost) ==
  IF b.cap - Len(b.q) < MsgSize THEN Grown(b, k, memory, lost) ELSE b

(* surf_post_guimsg; a failed growth is logged and the message written      *)
(* anyhow.                                                                  *)
Posted(b, k, memory, lost) ==
  Written(Written(WithRoom(b, k, memory, lost), Header(k)), Payload(k))

-----------------------------------------------------------------------------
(* The program runs: no read waits, and nothing has undone the process.     *)
InProgram == reader = Idle /\ ~wild

(* p_gui_surf_open, whose window posts its first size at once.              *)
Open(s) ==
  /\ InProgram
  /\ surf[s].state = "none"
  /\ \E memory \in BOOLEAN :
       surf' = [surf EXCEPT ![s] = [Posted(@, 1, memory, {}) EXCEPT !.state = "open",
                                                                    !.window = TRUE]]
  /\ sizes' = [sizes EXCEPT ![s] = 1]
  /\ posts' = [posts EXCEPT ![s] = 1]
  /\ ret' = NoResult
  /\ UNCHANGED <<events, reader, received, wild>>

(* p_gui_surf_open deletes the surface when it fails.  When there is no GPU  *)
(* surface or device for it the window has been made, and stays.            *)
OpenFails(s) ==
  /\ InProgram
  /\ surf[s].state = "none"
  /\ \E window \in BOOLEAN :
       surf' = [surf EXCEPT ![s] = [@ EXCEPT !.state = "failed", !.window = window]]
  /\ ret' = NoResult
  /\ UNCHANGED <<sizes, events, reader, posts, received, wild>>

(* Mutant: the window is left behind. *)
DestroyedNot(b) == b

(* glfwDestroyWindow.  Events that are still pending come to nothing.       *)
Destroyed(b) == [b EXCEPT !.window = FALSE]

(* p_gui_surf_close *)
Close(s) ==
  /\ InProgram
  /\ surf[s].state = "open"
  /\ surf' = [surf EXCEPT ![s] = [Destroyed(@) EXCEPT !.state = "closed", !.q = <<>>]]
  /\ ret' = NoResult
  /\ UNCHANGED <<sizes, events, reader, posts, received, wild>>

-----------------------------------------------------------------------------
(* The window system.  A program that waits is woken by any event, also by  *)
(* those no callback is hooked up for.                                      *)

(* What comes while callbacks run is left for the next wait.                *)
Event(kind, s, k) ==
  /\ Len(events) < MaxEvents /\ ~reader.woken /\ ~wild
  /\ surf[s].window
  /\ events' = Append(events, [kind |-> kind, surf |-> s, size |-> k])
  /\ ret' = NoResult
  /\ UNCHANGED <<surf, reader, posts, received, wild>>

Resize(s) ==
  /\ sizes[s] < MaxSizes
  /\ sizes' = [sizes EXCEPT ![s] = @ + 1]
  /\ Event("resize", s, sizes[s] + 1)
ClickClose(s) == ~surf[s].shouldClose /\ Event("close", s, 0) /\ UNCHANGED sizes
MoveMouse(s) == events = <<>> /\ Event("mouse", s, 0) /\ UNCHANGED sizes

-----------------------------------------------------------------------------
(* p_gui_surf_read, up to glfwWaitEvents. *)

Returns(s, n, bytes) ==
  /\ ret' = [surf |-> s, n |-> n]
  /\ received' = [received EXCEPT ![s] = @ \o bytes]
  /\ reader' = Idle

(* Mutant: what is left after the flush is thrown away. *)
LeftAll(s, n) == <<>>

Taken(s, n) == SubSeq(surf[s].q, 1, Least(n, Len(surf[s].q)))
Left(s, n) == SubSeq(surf[s].q, n + 1, Len(surf[s].q))

ReadGone(s) ==
  /\ InProgram
  /\ ~surf[s].window
  /\ Returns(s, p_err_end, <<>>)
  /\ UNCHANGED <<surf, sizes, events, posts, wild>>

Drains(s, n) == n >= Len(surf[s].q) \/ n = 0

(* More is buffered than was asked for: no need to wait.                    *)
ReadBuffered(s, n) ==
  /\ InProgram
  /\ surf[s].window /\ ~Drains(s, n)
  /\ surf' = [surf EXCEPT ![s].q = Left(s, n)]
  /\ Returns(s, n, Taken(s, n))
  /\ UNCHANGED <<sizes, events, posts, wild>>

(* The user closed the window: the bytes just flushed are not reported.     *)
ReadLast(s, n) ==
  /\ InProgram
  /\ surf[s].window /\ surf[s].shouldClose /\ Drains(s, n)
  /\ surf' = [surf EXCEPT ![s] = [Destroyed(@) EXCEPT !.q = Left(s, n)]]
  /\ Returns(s, p_err_end, <<>>)
  /\ UNCHANGED <<sizes, events, posts, wild>>

ReadWaits(s, n) ==
  /\ InProgram
  /\ surf[s].window /\ ~surf[s].shouldClose /\ Drains(s, n)
  /\ reader' = [surf |-> s, got |-> Taken(s, n), want |-> n, woken |-> FALSE]
  /\ surf' = [surf EXCEPT ![s].q = Left(s, n)]
  /\ ret' = NoResult
  /\ UNCHANGED <<sizes, events, posts, received, wild>>

(* glfwWaitEvents calls back for every pending event, one after the other.  *)
(* A callback finds its surface by the window's user pointer.               *)
SizePosted(e) ==
  /\ surf[e.surf].window /\ e.kind = "resize" /\ surf[e.surf].state = "open"
  /\ \E memory \in BOOLEAN, lost \in SUBSET (DOMAIN surf[e.surf].q) :
       surf' = [surf EXCEPT ![e.surf] = Posted(@, e.size, memory, lost)]
  /\ posts' = [posts EXCEPT ![e.surf] = @ + 1]
  /\ UNCHANGED wild

SizeOfDeleted(e) ==
  /\ surf[e.surf].window /\ e.kind = "resize" /\ surf[e.surf].state # "open"
  /\ wild' = TRUE
  /\ UNCHANGED <<surf, posts>>

CloseNoted(e) ==
  /\ surf[e.surf].window /\ e.kind = "close"
  /\ surf' = [surf EXCEPT ![e.surf].shouldClose = TRUE]
  /\ UNCHANGED <<posts, wild>>

Ignored(e) ==
  /\ ~surf[e.surf].window \/ e.kind = "mouse"
  /\ UNCHANGED <<surf, posts, wild>>

WaitEvents ==
  /\ reader # Idle /\ ~wild
  /\ events # <<>>
  /\ LET e == Head(events)
     IN SizePosted(e) \/ SizeOfDeleted(e) \/ CloseNoted(e) \/ Ignored(e)
  /\ events' = Tail(events)
  /\ reader' = [reader EXCEPT !.woken = TRUE]
  /\ UNCHANGED <<sizes, ret, received>>

(* The rest of the read, when no event is left. *)
Rest == Least(reader.want - Len(reader.got), Len(surf[reader.surf].q))

ReadEnds ==
  /\ reader.woken /\ ~wild
  /\ events = <<>>
  /\ surf' = [surf EXCEPT ![reader.surf].q = Left(reader.surf, Rest)]
  /\ Returns(reader.surf, Len(reader.got) + Rest,
             reader.got \o Taken(reader.surf, Rest))
  /\ UNCHANGED <<sizes, events, posts, wild>>

Read(s, n) ==
  /\ surf[s].state = "open"
  /\ ReadGone(s) \/ ReadBuffered(s, n) \/ ReadLast(s, n) \/ ReadWaits(s, n)

(* What follows a wild pointer is undefined: nothing does here.             *)
Next == \/ \E s \in Surfs : \/ Open(s) \/ OpenFails(s) \/ Close(s)
                            \/ \E n \in ReadSizes : Read(s, n)
                            \/ Resize(s) \/ ClickClose(s) \/ MoveMouse(s)
        \/ WaitEvents \/ ReadEnds

(* Code that runs goes on, and a program keeps reading its surfaces, asking *)
(* for at least a byte.                                                     *)
Spec ==
  /\ Init /\ [][Next]_vars
  /\ WF_vars(WaitEvents) /\ WF_vars(ReadEnds)
  /\ \A s \in Surfs : SF_vars(\E n \in ReadSizes \ {0} : Read(s, n))

(* The window system keeps sending events, be it only the mouse's.          *)
LivelySpec == Spec /\ SF_vars(\E s \in Surfs : MoveMouse(s))

-----------------------------------------------------------------------------
Byte == ((1..MaxSizes) \X {"hdr", "info"}) \cup {Lost}

TypeOK ==
  /\ \A s \in Surfs :
       /\ surf[s].state \in {"none", "open", "failed", "closed"}
       /\ surf[s].cap \in InitCap..MaxCap /\ Len(surf[s].q) <= surf[s].cap
       /\ surf[s].q \in Seq(Byte) /\ received[s] \in Seq(Byte)
       /\ posts[s] \in 0..MaxSizes /\ surf[s].grown \in 0..MaxSizes
  /\ Len(events) <= MaxEvents
  /\ reader.surf \in Surfs \cup {None} /\ Len(reader.got) <= reader.want

(* The bytes of the first k messages, whole and in order.                   *)
Frames(k) == [j \in 1..(MsgSize * k) |->
                IF j % 2 = 1 THEN Header((j + 1) \div 2) ELSE Payload(j \div 2)]

InCall(s) == IF reader.surf = s THEN reader.got ELSE <<>>

(* The bytes of k messages, of which those before the g-th, for which the   *)
(* buffer last grew, may have lost what they hold, but not their place.     *)
MessageStream(bytes, k, g) ==
  /\ Len(bytes) = MsgSize * k
  /\ \A j \in DOMAIN bytes :
       bytes[j] = Frames(k)[j] \/ (bytes[j] = Lost /\ j <= MsgSize * (g - 1))

(* While a surface's window is there, what its reads have returned, what    *)
(* the read in progress holds and what is buffered are together a message   *)
(* for every size the window was given, each in its place, however the      *)
(* reads cut them up and whichever surface was being read when they came.   *)
(* A message that came when the buffer last grew, or since, is whole; so    *)
(* are all of them if it never grew.  Nothing is said of a buffer that      *)
(* could not grow, when surf_post_guimsg writes what fits.                  *)
StreamIntact ==
  \A s \in Surfs :
    surf[s].window /\ surf[s].state = "open" /\ ~surf[s].refused =>
      MessageStream(received[s] \o InCall(s) \o surf[s].q, posts[s], surf[s].grown)

(* No waiting read is left with a window that is gone, and no callback with *)
(* a surface that is: but for the windows of opens that failed after the    *)
(* window was made, which p_gui_surf_open leaves behind.                    *)
WindowsOwned ==
  /\ \A s \in Surfs : surf[s].window => surf[s].state \in {"open", "failed"}
  /\ reader # Idle => surf[reader.surf].window /\ surf[reader.surf].state = "open"
  /\ wild => \E s \in Surfs : surf[s].state = "failed" /\ surf[s].window

(* Surfaces, their windows and the waiting read agree, although every       *)
(* window's callbacks run inside whichever read waits.                      *)
WindowInv == TypeOK /\ WindowsOwned

(* As many bytes as were posted to a surface that is read reach the program,*)
(* unless the window goes first, or the buffer could not grow, or the callback of  *)
(* a window left behind runs.                                               *)
Delivered ==
  \A s \in Surfs : \A k \in 1..MaxSizes :
    posts[s] >= k ~> \/ Len(received[s]) >= MsgSize * k
                     \/ ~surf[s].window \/ surf[s].refused \/ wild

(* "p_ringbuf_move(dst, p, newcap)" (glfw.cc:27): growing keeps the         *)
(* messages.  It need not, see Grown.                                       *)
GrowthKeepsAll ==
  [][\A s \in Surfs : surf'[s].cap > surf[s].cap =>
       \A j \in DOMAIN surf[s].q : surf'[s].q[j] = surf[s].q[j]]_vars

(* "if (n < 1) // surface gone" (spec.md:361): a read returns less than one *)
(* only when the window is gone.                                            *)
ShortMeansGone ==
  [][\A s \in Surfs :
       ret' # ret /\ ret'.surf = s /\ ret'.n < 1 => ~surf'[s].window]_vars

(* "flush buffered messages" (glfw.cc:52): bytes a read takes out of the    *)
(* buffer reach the caller when the call returns.                           *)
TakenIsReturned ==
  [][\A s \in Surfs :
       surf[s].window /\ surf'[s].state = "open" /\ reader'.surf # s =>
         Len(received'[s] \o surf'[s].q) >= Len(received[s] \o InCall(s) \o surf[s].q)]_vars
=============================================================================
