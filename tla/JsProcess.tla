----------------------------- MODULE JsProcess -----------------------------
(***************************************************************************)
(* A WebAssembly process of the browser backend (backends/js/playsys.ts):  *)
(* how a system call that takes time unwinds the program with Binaryen's   *)
(* Asyncify and rewinds it when its promise or timer completes, how file   *)
(* descriptors are given out, and how the text written to the standard     *)
(* streams leaves in lines.  JavaScript runs to completion: a promise or a *)
(* timer acts only while neither the program nor callMain is on the stack. *)
(*                                                                         *)
(* Calls that are refused, and reads and writes of memory files, change    *)
(* nothing that is followed here.  The program's memory does not grow.  A  *)
(* write does not start with a byte order mark, which str would drop.      *)
(***************************************************************************)
EXTENDS Integers, Sequences

CONSTANTS
  MaxFd,    \* bound on the descriptors
  MaxCalls, \* bound on the calls that suspend
  MaxText,  \* bound on the pieces of text written to each standard stream
  Lines,    \* the standard streams whose text is followed
  Chunks    \* what a write may hold

(* "x" is a character that is written whole, "lead" and "trail" the two     *)
(* parts of one that the end of a write cuts.                               *)
Pieces == {"x", "nl", "lead", "trail"}

ASSUME JsConstants ==
  /\ MaxFd \in Nat /\ MaxFd >= 2 /\ MaxCalls \in Nat /\ MaxText \in Nat
  /\ Lines \subseteq {1, 2}
  /\ Chunks \subseteq Seq(Pieces)
  /\ \A c \in Chunks : \A k \in DOMAIN c :
       (c[k] = "lead" => k = Len(c)) /\ (c[k] = "trail" => k = 1)

VARIABLES
  prog,      \* where the program is
  state,     \* asyncify_get_state: 0 normal, 1 unwinding, 2 rewinding
  suspended, \* this.suspended
  result,    \* this.suspend_result, and the call it is of
  pending,   \* promises and timers that will call resume
  calls,     \* history: how many calls have suspended
  files,     \* this.files, each by its class and whether it can be read
  freeFds,   \* this.free_fds
  maxFd,     \* this.max_fd
  text,      \* the two line writers: buf, and the histories out and written
  main       \* the promise of run

control == <<prog, state, suspended, result, pending, calls>>
fdVars == <<files, freeFds, maxFd>>
vars == <<control, fdVars, text, main>>

(* A negative result, whichever error it tells.                             *)
Failed == -1

Fds == 0..MaxFd
Webs == {"web", "webWriteOnly"}

Init ==
  /\ prog = "new" /\ state = 0 /\ suspended = FALSE
  /\ result = [call |-> 0, value |-> 0]
  /\ pending = {} /\ calls = 0
  /\ files = [fd \in Fds |-> CASE fd = 0 -> "base" [] fd \in {1, 2} -> "line"
                             [] OTHER -> "none"]
  /\ freeFds = <<>> /\ maxFd = 2
  /\ text = [fd \in Lines |-> [buf |-> <<>>, out |-> <<>>, written |-> <<>>]]
  /\ main = "pending"

-----------------------------------------------------------------------------
(* The end of the program. *)

(* Mutant: what is left in the buffer stays there. *)
FlushedNot(t) == t

(* LineWriterFile.flush: onLine ends the line.                              *)
Flushed(t) ==
  IF t.buf = <<>> THEN t
  ELSE [t EXCEPT !.out = Append(@ \o t.buf, "nl"), !.buf = <<>>]

(* finalize, with the files there are by then.                              *)
Finalized(fs) ==
  [fd \in Lines |-> IF fs[fd] = "line" THEN Flushed(text[fd]) ELSE text[fd]]

Over(how, fs) ==
  /\ prog' = "over" /\ main' = how
  /\ suspended' = FALSE
  /\ text' = Finalized(fs)

(* run *)
Start ==
  /\ prog = "new" /\ prog' = "running"
  /\ UNCHANGED <<state, suspended, result, pending, calls, fdVars, text, main>>

(* main returns, or the exit system call throws WasmExit.                   *)
Finish ==
  /\ prog = "running"
  /\ Over("resolved", files)
  /\ UNCHANGED <<state, result, pending, calls, fdVars>>

(* The program traps. *)
Trap ==
  /\ prog = "running"
  /\ Over("rejected", files)
  /\ UNCHANGED <<state, result, pending, calls, fdVars>>

-----------------------------------------------------------------------------
(* Descriptors. *)

NextFd == IF freeFds = <<>> THEN maxFd + 1 ELSE freeFds[Len(freeFds)]

(* Mutant: the free descriptor is looked at and not removed. *)
LeftFreeAll == freeFds

LeftFree == IF freeFds = <<>> THEN <<>> ELSE SubSeq(freeFds, 1, Len(freeFds) - 1)

Highest == IF freeFds = <<>> THEN maxFd + 1 ELSE maxFd

(* allocFd *)
AllocFd(file) ==
  /\ NextFd <= MaxFd
  /\ files' = [files EXCEPT ![NextFd] = file]
  /\ freeFds' = LeftFree /\ maxFd' = Highest

(* openat of a file of the fake file system.                                *)
OpenFake ==
  /\ prog = "running"
  /\ AllocFd("mem")
  /\ UNCHANGED <<control, text, main>>

(* With the trunc flag: no file has truncate, the descriptor is given back. *)
OpenFakeTrunc ==
  /\ prog = "running"
  /\ NextFd <= MaxFd
  /\ freeFds' = Append(LeftFree, NextFd) /\ maxFd' = Highest
  /\ UNCHANGED <<files, control, text, main>>

(* With the append flag: sys_seek_end is not defined where openat names it, *)
(* and the ReferenceError goes through the program to callMain.             *)
OpenFakeAppend ==
  /\ prog = "running"
  /\ AllocFd("mem")
  /\ Over("rejected", files')
  /\ UNCHANGED <<state, result, pending, calls>>

(* close: nothing is flushed, and what a line writer holds is lost.         *)
Close ==
  /\ prog = "running"
  /\ \E fd \in Fds :
       /\ files[fd] # "none"
       /\ files' = [files EXCEPT ![fd] = "none"]
       /\ freeFds' = Append(freeFds, fd)
  /\ UNCHANGED <<maxFd, control, text, main>>

-----------------------------------------------------------------------------
(* write to a line writer: everything up to the last newline goes out.      *)

Decoded(s) == [k \in DOMAIN s |-> IF s[k] \in {"lead", "trail"} THEN "bad" ELSE s[k]]

LastNl(s) == IF \E k \in DOMAIN s : s[k] = "nl"
             THEN CHOOSE k \in DOMAIN s :
                    s[k] = "nl" /\ \A j \in DOMAIN s : s[j] = "nl" => j <= k
             ELSE 0

(* str decodes every write for itself, with the replacement character for   *)
(* the part of a character: txt_dec keeps nothing from one to the next.     *)
Written(t, chunk) ==
  LET s == t.buf \o Decoded(chunk)
      n == LastNl(s)
  IN [buf |-> SubSeq(s, n + 1, Len(s)), out |-> t.out \o SubSeq(s, 1, n),
      written |-> t.written \o chunk]

WriteLine ==
  /\ prog = "running"
  /\ \E fd \in Lines, chunk \in Chunks :
       /\ files[fd] = "line"
       /\ Len(text[fd].written) + Len(chunk) <= MaxText
       /\ text' = [text EXCEPT ![fd] = Written(@, chunk)]
  /\ UNCHANGED <<control, fdVars, main>>

-----------------------------------------------------------------------------
(* Suspension. *)

(* Mutant: the timer is not set. *)
OwedUnlessSleep(op) == IF op = <<"sleep">> THEN {} ELSE {[call |-> calls + 1, op |-> op]}

Owed(op) == {[call |-> calls + 1, op |-> op]}

(* suspend, and the promise or timer that will resume the program; then the *)
(* import returns and the program unwinds.                                  *)
Suspend(op) ==
  /\ prog = "running" /\ prog' = "unwinding"
  /\ calls < MaxCalls /\ calls' = calls + 1
  /\ state' = 1 /\ suspended' = TRUE
  /\ pending' = pending \cup Owed(op)
  /\ UNCHANGED <<result, fdVars, text, main>>

(* openat of anything else: the user picks a file.                          *)
OpenWeb == \E file \in Webs : Suspend(<<"open", file>>)

ReadWeb ==
  /\ \E fd \in Fds : files[fd] = "web"
  /\ Suspend(<<"read">>)

Sleep == Suspend(<<"sleep">>)

(* Mutant: asyncify_stop_unwind is forgotten. *)
StoppedNot == state

Stopped == 0

(* The rest of callMain once the program has unwound.                       *)
Unwound ==
  /\ prog = "unwinding" /\ prog' = "parked"
  /\ state' = Stopped
  /\ UNCHANGED <<suspended, result, pending, calls, fdVars, text, main>>

(* The program has unwound past suspend_stack_size: asyncify_stop_unwind    *)
(* sets its state and then traps.  What the program waits for still comes.  *)
UnwindOverflows ==
  /\ prog = "unwinding"
  /\ state' = Stopped
  /\ Over("rejected", files)
  /\ UNCHANGED <<result, pending, calls, fdVars>>

OffStack == prog \in {"parked", "over"}

(* Mutant: the completion runs twice, as a fulfilled and a failed promise.  *)
CompletedStays(p) == pending

Completed(p) == pending \ {p}

(* Mutant: resume calls mainfun also after asyncify_start_rewind trapped.   *)
EnteredAlways == "rewinding"

(* asyncify_start_rewind traps in a process that unwound too far, and the   *)
(* exception leaves resume before it gets to callMain.                      *)
Entered == IF prog = "parked" THEN "rewinding" ELSE prog

(* resume: mainfun is called again and rewinds.                             *)
Resume(p, value) ==
  /\ prog' = Entered /\ state' = 2
  /\ result' = [call |-> p.call, value |-> value]
  /\ pending' = Completed(p)
  /\ UNCHANGED <<suspended, calls, text, main>>

(* open_web_fs ends with a file, a read or a sleep ends.                    *)
Succeeds ==
  /\ OffStack
  /\ \E p \in pending :
       IF p.op[1] = "open"
       THEN AllocFd(p.op[2]) /\ Resume(p, NextFd)
       ELSE Resume(p, 0) /\ UNCHANGED fdVars

(* The promise of an open or a read is rejected, or there is no file picker.*)
Fails ==
  /\ OffStack
  /\ \E p \in pending : p.op[1] # "sleep" /\ Resume(p, Failed)
  /\ UNCHANGED fdVars

(* The rewound program calls sys_syscall again: resumeFinalize.             *)
Rewound ==
  /\ prog = "rewinding" /\ suspended
  /\ prog' = "running"
  /\ state' = 0 /\ suspended' = FALSE
  /\ UNCHANGED <<result, pending, calls, fdVars, text, main>>

-----------------------------------------------------------------------------
Next == \/ Start \/ Finish \/ Trap
        \/ OpenFake \/ OpenFakeTrunc \/ OpenFakeAppend \/ Close
        \/ WriteLine
        \/ OpenWeb \/ ReadWeb \/ Sleep
        \/ Unwound \/ UnwindOverflows
        \/ Succeeds \/ Fails
        \/ Rewound

(* JavaScript goes on once it has been entered, and promises and timers     *)
(* complete.                                                                *)
Spec ==
  /\ Init /\ [][Next]_vars
  /\ WF_vars(Unwound \/ UnwindOverflows \/ Rewound)
  /\ WF_vars(Succeeds \/ Fails)

-----------------------------------------------------------------------------
Places == {"new", "running", "unwinding", "parked", "rewinding", "over"}
Kinds == {"none", "base", "line", "mem"} \cup Webs
Ops == {<<"read">>, <<"sleep">>} \cup {<<"open", file>> : file \in Webs}
Chars == {"x", "nl", "bad"}

TypeOK ==
  /\ prog \in Places /\ state \in 0..2 /\ suspended \in BOOLEAN
  /\ result \in [call : 0..MaxCalls, value : Int]
  /\ pending \subseteq [call : 1..MaxCalls, op : Ops] /\ calls \in 0..MaxCalls
  /\ files \in [Fds -> Kinds]
  /\ freeFds \in Seq(Fds) /\ maxFd \in 2..MaxFd
  /\ text \in [Lines -> [buf : Seq(Chars), out : Seq(Chars), written : Seq(Pieces)]]
  /\ main \in {"pending", "resolved", "rejected"}

(* The assertions of suspend, callMain, resume and resumeFinalize hold while*)
(* the process lives: in what order promises, timers and the program's      *)
(* calls may come, Asyncify is in the state each of them expects.           *)
AssertsHold ==
  /\ prog = "running" => state = 0
  /\ prog = "unwinding" => state = 1
  /\ prog = "parked" => state = 0
  /\ prog = "rewinding" => state = 2

(* Whatever promises, timers and calls interleave, the process is in a state *)
(* the assertions of its code allow.                                        *)
ProcessInv == TypeOK /\ AssertsHold

(* A suspended program waits for one completion, that of the call it is in, *)
(* and wakes with the result of that call; a program that is not suspended  *)
(* is owed nothing.  The handlers of a promise never resume a call twice.   *)
OneAnswer ==
  main = "pending" =>
    /\ suspended <=> prog \in {"unwinding", "parked", "rewinding"}
    /\ prog \in {"unwinding", "parked"} =>
         \E p \in pending : pending = {p} /\ p.call = calls
    /\ prog \notin {"unwinding", "parked"} => pending = {}
    /\ prog = "rewinding" => result.call = calls

(* Once the promise of run is settled the program never runs again, prints  *)
(* nothing and is not settled otherwise, also when it was killed while what *)
(* it waited for was still to come (the TODO of callMain).                  *)
SettledStays ==
  [][main # "pending" => UNCHANGED <<prog, main, text, suspended>>]_vars

(* Every descriptor up to max_fd is either open or free, and free once: an  *)
(* open never takes over a descriptor in use, and none is lost.             *)
FdsPartitioned ==
  /\ \A fd \in Fds :
       LET at == {k \in 1..Len(freeFds) : freeFds[k] = fd}
       IN IF files[fd] # "none" THEN at = {} /\ fd <= maxFd
          ELSE fd <= maxFd => \E k \in at : at = {k}
  /\ \A k \in 1..Len(freeFds) : freeFds[k] <= maxFd

(* What is written to a standard stream that stays open goes out in order,  *)
(* each write as it decodes alone, and all of it by the time the promise of *)
(* run is settled, the last line also without a newline and also when the   *)
(* program is killed.                                                       *)
LinesKept ==
  \A fd \in Lines :
    LET t == text[fd]
        d == Decoded(t.written)
    IN files[fd] = "line" =>
         IF main = "pending" THEN t.out \o t.buf = d
         ELSE t.buf = <<>> /\ t.out \in {d, Append(d, "nl")}

(* Text that is whole comes out whole: what is written with no part of a    *)
(* character missing shows no replacement character.  The code keeps this   *)
(* only where no write ends within a character: the line writer joins       *)
(* writes, but decodes each before it does (MCJsProcessCut).                *)
CharactersKept ==
  \A fd \in Lines :
    LET t == text[fd]
        w == t.written
        Whole == \A k \in DOMAIN w :
                   /\ w[k] = "lead" => k < Len(w) /\ w[k + 1] = "trail"
                   /\ w[k] = "trail" => k > 1 /\ w[k - 1] = "lead"
    IN Whole => \A k \in DOMAIN t.out : t.out[k] # "bad"

(* A call that suspends returns to the program, unless the program cannot   *)
(* be unwound.                                                              *)
CallsReturn == prog = "unwinding" ~> prog \in {"running", "over"}
=============================================================================
