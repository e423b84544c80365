-------------------------- MODULE JsProcessProofs --------------------------
(***************************************************************************)
(* A browser process, for every number of calls and descriptors and any    *)
(* writes: the assertions around Asyncify hold, every suspended call is    *)
(* answered once with its own result, a settled process stays so,          *)
(* descriptors are never confused, and the text of a standard stream that  *)
(* stays open goes out in order and complete.                              *)
(***************************************************************************)
EXTENDS JsProcess, SequenceTheorems, WellFoundedInduction, TLAPS

(* A set of positions that is not empty has a last one.                     *)
LEMMA LastOf ==
  ASSUME NEW n \in Nat, NEW S, S \subseteq 1..n, S # {}
  PROVE  \E k \in S : \A j \in S : j <= k
<1> DEFINE T == {n - k : k \in S}
<1>1. T \subseteq Nat /\ T # {}
  <2>1. PICK k \in S : k \in 1..n
    OBVIOUS
  <2>2. n - k \in T
    OBVIOUS
  <2>3. T \subseteq Nat
    OBVIOUS
  <2> QED
    BY <2>2, <2>3
<1>2. PICK x \in T : \A y \in T : ~(<<y, x>> \in OpToRel(<, Nat))
  BY <1>1, WFMin, NatLessThanWellFounded
<1>3. \A y \in T : ~(y < x)
  BY <1>1, <1>2 DEF OpToRel
<1>4. PICK k \in S : x = n - k
  BY <1>2
<1>5. \A j \in S : n - j \in T
  OBVIOUS
<1>6. \A j \in S : ~(n - j < n - k)
  BY <1>3, <1>4, <1>5
<1> HIDE DEF T
<1> QED
  BY <1>4, <1>6

-----------------------------------------------------------------------------
(* A process is over when the promise of run is settled, and only then.     *)
OverIsOver ==
  /\ main = "pending" <=> prog # "over"
  /\ main # "pending" => ~suspended

(* What is inductive about suspension. *)
ControlInv ==
  /\ prog \in Places /\ suspended \in BOOLEAN
  /\ prog = "new" => state = 0
  /\ AssertsHold /\ OneAnswer /\ OverIsOver

-----------------------------------------------------------------------------
LEMMA InitControl == Init => ControlInv
BY DEF Init, ControlInv, Places, AssertsHold, OneAnswer, OverIsOver, OffStack

(* A running program ends: nothing is pending.                              *)
LEMMA EndControl ==
  ASSUME ControlInv, prog = "running", NEW how \in {"resolved", "rejected"},
         NEW fs, Over(how, fs), UNCHANGED <<state, pending>>
  PROVE  ControlInv'
BY DEF ControlInv, Over, Places, AssertsHold, OneAnswer, OverIsOver, OffStack

(* Steps that leave suspension alone. *)
LEMMA OtherControl ==
  ASSUME ControlInv, UNCHANGED <<control, main>>
  PROVE  ControlInv'
BY DEF ControlInv, control, Places, AssertsHold, OneAnswer, OverIsOver, OffStack

LEMMA SuspendControl ==
  ASSUME ControlInv, NEW op, Suspend(op)
  PROVE  ControlInv'
<1>1. pending' = {[call |-> calls + 1, op |-> op]} /\ calls' = calls + 1
  BY DEF ControlInv, Suspend, Owed, OneAnswer, OverIsOver
<1>2. \E p \in pending' : pending' = {p} /\ p.call = calls'
  BY <1>1
<1>3. main = "pending" /\ main' = "pending" /\ prog' = "unwinding"
      /\ state' = 1 /\ suspended' = TRUE
  BY DEF ControlInv, Suspend, OverIsOver
<1>4. OneAnswer'
  BY <1>2, <1>3 DEF OneAnswer
<1> QED
  BY <1>3, <1>4 DEF ControlInv, Places, AssertsHold, OverIsOver, OffStack

(* The completion of a parked program's call, or of one that was given up.  *)
LEMMA ResumeControl ==
  ASSUME ControlInv, OffStack, NEW p \in pending, NEW value, Resume(p, value)
  PROVE  ControlInv'
<1>1. prog' = Entered /\ state' = 2 /\ result'.call = p.call
      /\ pending' = pending \ {p} /\ UNCHANGED <<suspended, calls, main>>
  BY DEF Resume, Completed
<1>2. CASE main = "pending"
  <2>1. prog = "parked" /\ suspended
    BY <1>2 DEF ControlInv, OffStack, OverIsOver, OneAnswer
  <2>2. pending = {p} /\ p.call = calls
    BY <1>2, <2>1 DEF ControlInv, OneAnswer
  <2>3. pending' = {} /\ result'.call = calls'
    BY <1>1, <2>2
  <2> QED
    BY <1>1, <1>2, <2>1, <2>3
    DEF Entered, ControlInv, Places, AssertsHold, OneAnswer, OverIsOver
<1>3. CASE main # "pending"
  BY <1>1, <1>3
  DEF Entered, ControlInv, Places, AssertsHold, OneAnswer, OverIsOver
<1> QED
  BY <1>2, <1>3

LEMMA NextControl == ASSUME ControlInv, [Next]_vars PROVE ControlInv'
<1>1. CASE Start
  BY <1>1 DEF Start, ControlInv, Places, AssertsHold, OneAnswer, OverIsOver, OffStack
<1>2. CASE Finish
  BY <1>2, EndControl DEF Finish
<1>3. CASE Trap
  BY <1>3, EndControl DEF Trap
<1>4. CASE OpenFake \/ OpenFakeTrunc \/ Close \/ WriteLine \/ UNCHANGED vars
  BY <1>4, OtherControl
  DEF OpenFake, OpenFakeTrunc, Close, WriteLine, vars, control
<1>5. CASE OpenFakeAppend
  BY <1>5, EndControl DEF OpenFakeAppend
<1>6. CASE OpenWeb \/ ReadWeb \/ Sleep
  BY <1>6, SuspendControl DEF OpenWeb, ReadWeb, Sleep
<1>7. CASE Unwound
  BY <1>7
  DEF Unwound, Stopped, ControlInv, Places, AssertsHold, OneAnswer, OverIsOver, OffStack
<1>8. CASE UnwindOverflows
  <2>1. prog' = "over" /\ main' = "rejected" /\ ~suspended' /\ suspended' \in BOOLEAN
    BY <1>8 DEF UnwindOverflows, Over
  <2>2. state' = 0
    BY <1>8 DEF UnwindOverflows, Stopped
  <2> QED
    BY <2>1, <2>2 DEF ControlInv, Places, AssertsHold, OneAnswer, OverIsOver, OffStack
<1>9. CASE Succeeds
  BY <1>9, ResumeControl DEF Succeeds
<1>10. CASE Fails
  BY <1>10, ResumeControl DEF Fails
<1>11. CASE Rewound
  BY <1>11
  DEF Rewound, ControlInv, Places, AssertsHold, OneAnswer, OverIsOver, OffStack
<1> QED
  BY <1>1, <1>2, <1>3, <1>4, <1>5, <1>6, <1>7, <1>8, <1>9, <1>10, <1>11 DEF Next

(* Whatever the order of calls, promises and timers, suspend, callMain,     *)
(* resume and resumeFinalize find Asyncify in the state they assert, and    *)
(* each suspended call is answered exactly once, with its own result.       *)
THEOREM CallsAnswered == Spec => [](AssertsHold /\ OneAnswer)
<1>1. ControlInv => AssertsHold /\ OneAnswer
  BY DEF ControlInv
<1> QED
  BY InitControl, NextControl, <1>1, PTL DEF Spec

(* After the promise of run is settled the program is not entered again and *)
(* prints nothing more, whatever promises and timers were still to come.    *)
THEOREM SettledForGood == Spec => SettledStays
<1>1. ASSUME ControlInv, [Next]_vars
      PROVE  [main # "pending" => UNCHANGED <<prog, main, text, suspended>>]_vars
  <2> SUFFICES ASSUME Next, main # "pending"
               PROVE  UNCHANGED <<prog, main, text, suspended>>
    BY <1>1
  <2>1. prog = "over" /\ ~suspended
    BY <1>1 DEF ControlInv, OverIsOver
  <2>2. Succeeds \/ Fails
    BY <2>1
    DEF Next, Start, Finish, Trap, OpenFake, OpenFakeTrunc, OpenFakeAppend, Close,
        WriteLine, OpenWeb, ReadWeb, Sleep, Suspend, Unwound, UnwindOverflows, Rewound
  <2>3. PICK p, value : Resume(p, value)
    BY <2>2 DEF Succeeds, Fails
  <2> QED
    BY <2>1, <2>3 DEF Resume, Entered
<1> QED
  BY InitControl, NextControl, <1>1, PTL DEF Spec, SettledStays

-----------------------------------------------------------------------------
(* Descriptors.  The free list as it changes: without repetition, and       *)
(* exactly the closed descriptors up to max_fd.                             *)
FdTypes ==
  /\ files \in [Fds -> Kinds] /\ freeFds \in Seq(Fds) /\ maxFd \in 2..MaxFd
  /\ \A p \in pending : p.op[1] = "open" => p.op[2] \in Webs

FreeAreClosed ==
  /\ \A j, k \in 1..Len(freeFds) : freeFds[j] = freeFds[k] => j = k
  /\ \A k \in 1..Len(freeFds) :
       files[freeFds[k]] = "none" /\ freeFds[k] <= maxFd

ClosedAreFree ==
  /\ \A fd \in Fds : files[fd] # "none" => fd <= maxFd
  /\ \A fd \in Fds : files[fd] = "none" /\ fd <= maxFd =>
                       \E k \in 1..Len(freeFds) : freeFds[k] = fd

FdInv == FdTypes /\ FreeAreClosed /\ ClosedAreFree

LEMMA FdInvPartition == FdInv => FdsPartitioned
<1> SUFFICES ASSUME FdInv PROVE FdsPartitioned
  OBVIOUS
<1> USE DEF FdInv
<1>1. \A k \in 1..Len(freeFds) : freeFds[k] <= maxFd
  BY DEF FreeAreClosed
<1>2. ASSUME NEW fd \in Fds, files[fd] # "none"
      PROVE  {k \in 1..Len(freeFds) : freeFds[k] = fd} = {} /\ fd <= maxFd
  BY <1>2 DEF FreeAreClosed, ClosedAreFree
<1>3. ASSUME NEW fd \in Fds, files[fd] = "none", fd <= maxFd
      PROVE  \E k \in {k \in 1..Len(freeFds) : freeFds[k] = fd} :
               {j \in 1..Len(freeFds) : freeFds[j] = fd} = {k}
  <2>1. PICK k \in 1..Len(freeFds) : freeFds[k] = fd
    BY <1>3 DEF ClosedAreFree
  <2>2. {j \in 1..Len(freeFds) : freeFds[j] = fd} = {k}
    BY <2>1 DEF FreeAreClosed
  <2> QED
    BY <2>1, <2>2
<1> QED
  BY <1>1, <1>2, <1>3 DEF FdsPartitioned

LEMMA InitFds == Init => FdInv
<1> SUFFICES ASSUME Init PROVE FdInv
  OBVIOUS
<1>1. freeFds = <<>> /\ Len(freeFds) = 0 /\ maxFd = 2 /\ pending = {}
  BY DEF Init
<1>2. FdTypes
  BY <1>1, JsConstants DEF Init, FdTypes, Fds, Kinds, JsConstants
<1>3. \A fd \in Fds : files[fd] # "none" <=> fd \in 0..2
  BY DEF Init, Fds
<1> QED
  BY <1>1, <1>2, <1>3 DEF FdInv, FreeAreClosed, ClosedAreFree, Fds

(* What allocFd takes and leaves, with the list empty or not.               *)
LEMMA NextFdFacts ==
  ASSUME FdInv, NextFd <= MaxFd
  PROVE  /\ NextFd \in Fds /\ files[NextFd] = "none" /\ NextFd <= Highest
         /\ Highest \in 2..MaxFd /\ maxFd <= Highest
         /\ \A fd \in Fds : fd <= Highest => fd <= maxFd \/ fd = NextFd
         /\ LeftFree \in Seq(Fds) /\ Len(LeftFree) <= Len(freeFds)
         /\ \A k \in 1..Len(LeftFree) :
              LeftFree[k] = freeFds[k] /\ LeftFree[k] # NextFd
         /\ \A k \in 1..Len(freeFds) :
              freeFds[k] = NextFd \/ k \in 1..Len(LeftFree)
<1> USE DEF FdInv, FdTypes
<1>1. CASE freeFds = <<>>
  <2>1. NextFd = maxFd + 1 /\ Highest = maxFd + 1 /\ LeftFree = <<>>
    BY <1>1 DEF NextFd, Highest, LeftFree
  <2>2. NextFd \in Fds /\ Highest \in 2..MaxFd
    BY <2>1, JsConstants DEF Fds, JsConstants
  <2>3. files[NextFd] = "none"
    BY <2>1, <2>2 DEF ClosedAreFree
  <2> QED
    BY <1>1, <2>1, <2>2, <2>3 DEF Fds
<1>2. CASE freeFds # <<>>
  <2> DEFINE n == Len(freeFds)
  <2>1. n \in Nat \ {0}
    BY <1>2
  <2>2. NextFd = freeFds[n] /\ Highest = maxFd /\ LeftFree = SubSeq(freeFds, 1, n - 1)
    BY <1>2 DEF NextFd, Highest, LeftFree
  <2>3. NextFd \in Fds /\ files[NextFd] = "none" /\ NextFd <= maxFd
    BY <2>1, <2>2 DEF FreeAreClosed
  <2>4. /\ LeftFree \in Seq(Fds) /\ Len(LeftFree) = n - 1
        /\ \A k \in 1..(n - 1) : LeftFree[k] = freeFds[k]
    <3>1. \A k \in 1..(n - 1) : freeFds[k] \in Fds
      BY <2>1
    <3> HIDE DEF n
    <3> QED
      BY <2>1, <2>2, <3>1, SubSeqProperties, 1 \in Int, n - 1 \in Int
  <2>5. \A k \in 1..(n - 1) : LeftFree[k] # NextFd
    BY <2>1, <2>2, <2>4 DEF FreeAreClosed
  <2> HIDE DEF n
  <2> QED
    BY <2>1, <2>2, <2>3, <2>4, <2>5 DEF n
<1> QED
  BY <1>1, <1>2

LEMMA AllocInv ==
  ASSUME FdInv, NEW kind \in Kinds \ {"none"}, AllocFd(kind),
         \A p \in pending' : p.op[1] = "open" => p.op[2] \in Webs
  PROVE  FdInv'
<1>1. /\ NextFd <= MaxFd /\ files' = [files EXCEPT ![NextFd] = kind]
      /\ freeFds' = LeftFree /\ maxFd' = Highest
  BY DEF AllocFd
<1>2. FdTypes'
  BY <1>1, NextFdFacts DEF FdInv, FdTypes
<1>3. /\ files'[NextFd] = kind
      /\ \A fd \in Fds : fd # NextFd => files'[fd] = files[fd]
  BY <1>1, NextFdFacts DEF FdInv, FdTypes
<1>4. FreeAreClosed'
  <2>1. \A k \in 1..Len(LeftFree) :
          k \in 1..Len(freeFds) /\ LeftFree[k] = freeFds[k] /\ LeftFree[k] # NextFd
    BY <1>1, NextFdFacts, Len(freeFds) \in Nat, Len(LeftFree) \in Nat DEF FdInv, FdTypes
  <2>2. \A k \in 1..Len(freeFds) : freeFds[k] \in Fds
    BY DEF FdInv, FdTypes
  <2>3. \A k \in 1..Len(LeftFree) : files'[LeftFree[k]] = "none" /\ LeftFree[k] <= Highest
    BY <1>1, <1>3, <2>1, <2>2, NextFdFacts DEF FdInv, FdTypes, FreeAreClosed, Fds
  <2>4. \A j, k \in 1..Len(LeftFree) : LeftFree[j] = LeftFree[k] => j = k
    BY <2>1 DEF FdInv, FreeAreClosed
  <2> QED
    BY <1>1, <2>3, <2>4 DEF FreeAreClosed
<1>5. ClosedAreFree'
  BY <1>1, <1>3, NextFdFacts DEF FdInv, FdTypes, ClosedAreFree, Fds
<1> QED
  BY <1>2, <1>4, <1>5 DEF FdInv

(* A descriptor put on the free list. *)
LEMMA Pushed ==
  ASSUME NEW list \in Seq(Fds), NEW fd \in Fds,
         \A j, k \in 1..Len(list) : list[j] = list[k] => j = k,
         \A k \in 1..Len(list) : list[k] # fd
  PROVE  LET after == Append(list, fd)
         IN /\ after \in Seq(Fds) /\ Len(after) = Len(list) + 1
            /\ \A j, k \in 1..Len(after) : after[j] = after[k] => j = k
            /\ \A k \in 1..Len(after) :
                 after[k] = fd \/ (k \in 1..Len(list) /\ after[k] = list[k])
            /\ after[Len(list) + 1] = fd
            /\ \A k \in 1..Len(list) : k \in 1..Len(after) /\ after[k] = list[k]
<1> DEFINE after == Append(list, fd)
<1>1. /\ after \in Seq(Fds) /\ Len(after) = Len(list) + 1
      /\ \A k \in 1..Len(list) : after[k] = list[k]
      /\ after[Len(list) + 1] = fd
  BY AppendProperties
<1>2. Len(list) \in Nat
  OBVIOUS
<1> HIDE DEF after
<1>3. \A k \in 1..Len(after) : k = Len(list) + 1 \/ k \in 1..Len(list)
  BY <1>1, <1>2
<1>4. \A j, k \in 1..Len(after) : after[j] = after[k] => j = k
  BY <1>1, <1>3
<1>5. /\ \A k \in 1..Len(after) :
           after[k] = fd \/ (k \in 1..Len(list) /\ after[k] = list[k])
      /\ \A k \in 1..Len(list) : k \in 1..Len(after) /\ after[k] = list[k]
  BY <1>1, <1>2, <1>3
<1> QED
  BY <1>1, <1>4, <1>5 DEF after

LEMMA CloseInv == ASSUME FdInv, Close PROVE FdInv'
<1>1. PICK fd \in Fds :
        /\ files[fd] # "none" /\ files' = [files EXCEPT ![fd] = "none"]
        /\ freeFds' = Append(freeFds, fd)
        /\ UNCHANGED <<maxFd, pending>>
  BY DEF Close, control
<1>2. /\ freeFds \in Seq(Fds) /\ fd <= maxFd
      /\ \A j, k \in 1..Len(freeFds) : freeFds[j] = freeFds[k] => j = k
      /\ \A k \in 1..Len(freeFds) : freeFds[k] # fd
  BY <1>1 DEF FdInv, FdTypes, FreeAreClosed, ClosedAreFree
<1>3. /\ freeFds' \in Seq(Fds) /\ Len(freeFds') = Len(freeFds) + 1
      /\ \A j, k \in 1..Len(freeFds') : freeFds'[j] = freeFds'[k] => j = k
      /\ \A k \in 1..Len(freeFds') :
           freeFds'[k] = fd \/ (k \in 1..Len(freeFds) /\ freeFds'[k] = freeFds[k])
      /\ freeFds'[Len(freeFds) + 1] = fd
      /\ \A k \in 1..Len(freeFds) : k \in 1..Len(freeFds') /\ freeFds'[k] = freeFds[k]
  BY <1>1, <1>2, Pushed
<1>4. /\ files'[fd] = "none"
      /\ \A g \in Fds : g # fd => files'[g] = files[g]
  BY <1>1 DEF FdInv, FdTypes
<1>5. FdTypes'
  BY <1>1, <1>3 DEF FdInv, FdTypes, Kinds
<1>6. FreeAreClosed'
  <2>1. \A k \in 1..Len(freeFds) : freeFds[k] \in Fds
    BY <1>2
  <2> QED
    BY <1>1, <1>2, <1>3, <1>4, <2>1 DEF FdInv, FreeAreClosed
<1>7. ClosedAreFree'
  <2>1. \A g \in Fds : files'[g] # "none" => g <= maxFd'
    BY <1>1, <1>4 DEF FdInv, ClosedAreFree
  <2>2. Len(freeFds) + 1 \in 1..Len(freeFds')
    BY <1>2, <1>3
  <2>3. ASSUME NEW g \in Fds, files'[g] = "none", g <= maxFd'
        PROVE  \E k \in 1..Len(freeFds') : freeFds'[k] = g
    <3>1. CASE g = fd
      BY <1>3, <2>2, <3>1
    <3>2. CASE g # fd
      BY <1>1, <1>3, <1>4, <2>3, <3>2 DEF FdInv, ClosedAreFree
    <3> QED
      BY <3>1, <3>2
  <2> QED
    BY <2>1, <2>3 DEF ClosedAreFree
<1> QED
  BY <1>5, <1>6, <1>7 DEF FdInv

LEMMA OpenFakeTruncInv == ASSUME FdInv, OpenFakeTrunc PROVE FdInv'
<1>1. /\ NextFd <= MaxFd
      /\ freeFds' = Append(LeftFree, NextFd) /\ maxFd' = Highest
      /\ UNCHANGED <<files, pending>>
  BY DEF OpenFakeTrunc, control
<1>2. /\ NextFd \in Fds /\ files[NextFd] = "none" /\ NextFd <= Highest
      /\ Highest \in 2..MaxFd /\ maxFd <= Highest
      /\ \A fd \in Fds : fd <= Highest => fd <= maxFd \/ fd = NextFd
      /\ LeftFree \in Seq(Fds) /\ Len(LeftFree) <= Len(freeFds)
      /\ \A k \in 1..Len(LeftFree) :
           LeftFree[k] = freeFds[k] /\ LeftFree[k] # NextFd
      /\ \A k \in 1..Len(freeFds) :
           freeFds[k] = NextFd \/ k \in 1..Len(LeftFree)
  BY <1>1, NextFdFacts
<1>3. \A k \in 1..Len(LeftFree) : k \in 1..Len(freeFds)
  BY <1>2, Len(freeFds) \in Nat, Len(LeftFree) \in Nat DEF FdInv, FdTypes
<1>4. \A j, k \in 1..Len(LeftFree) : LeftFree[j] = LeftFree[k] => j = k
  BY <1>2, <1>3 DEF FdInv, FreeAreClosed
<1>5. /\ freeFds' \in Seq(Fds) /\ Len(freeFds') = Len(LeftFree) + 1
      /\ \A j, k \in 1..Len(freeFds') : freeFds'[j] = freeFds'[k] => j = k
      /\ \A k \in 1..Len(freeFds') :
           freeFds'[k] = NextFd \/ (k \in 1..Len(LeftFree) /\ freeFds'[k] = LeftFree[k])
      /\ freeFds'[Len(LeftFree) + 1] = NextFd
      /\ \A k \in 1..Len(LeftFree) : k \in 1..Len(freeFds') /\ freeFds'[k] = LeftFree[k]
  BY <1>1, <1>2, <1>4, Pushed
<1>6. FdTypes'
  BY <1>1, <1>2, <1>5 DEF FdInv, FdTypes
<1>7. FreeAreClosed'
  <2>1. \A k \in 1..Len(LeftFree) : files[LeftFree[k]] = "none" /\ LeftFree[k] <= Highest
    <3>1. \A k \in 1..Len(freeFds) : freeFds[k] \in Fds
      BY DEF FdInv, FdTypes
    <3> QED
      BY <1>2, <1>3, <3>1 DEF FdInv, FdTypes, FreeAreClosed, Fds
  <2> QED
    BY <1>1, <1>2, <1>5, <2>1 DEF FreeAreClosed
<1>8. ClosedAreFree'
  <2>1. \A g \in Fds : files'[g] # "none" => g <= maxFd'
    BY <1>1, <1>2 DEF FdInv, FdTypes, ClosedAreFree, Fds
  <2>2. Len(LeftFree) + 1 \in 1..Len(freeFds')
    BY <1>2, <1>5
  <2>3. ASSUME NEW g \in Fds, files'[g] = "none", g <= maxFd'
        PROVE  \E k \in 1..Len(freeFds') : freeFds'[k] = g
    <3>1. CASE g = NextFd
      BY <1>5, <2>2, <3>1
    <3>2. CASE g # NextFd
      <4>1. PICK k \in 1..Len(freeFds) : freeFds[k] = g
        BY <1>1, <1>2, <2>3, <3>2 DEF FdInv, ClosedAreFree
      <4> QED
        BY <1>2, <1>5, <3>2, <4>1
    <3> QED
      BY <3>1, <3>2
  <2> QED
    BY <2>1, <2>3 DEF ClosedAreFree
<1> QED
  BY <1>6, <1>7, <1>8 DEF FdInv

(* Steps that leave the descriptors alone and start no open. *)
LEMMA OtherFds ==
  ASSUME FdInv, UNCHANGED fdVars,
         \A p \in pending' : p.op[1] = "open" => p.op[2] \in Webs
  PROVE  FdInv'
BY DEF FdInv, FdTypes, FreeAreClosed, ClosedAreFree, fdVars

LEMMA SuspendFds ==
  ASSUME FdInv, OpenWeb \/ ReadWeb \/ Sleep
  PROVE  FdInv'
<1>1. PICK op \in Ops : Suspend(op)
  BY DEF OpenWeb, ReadWeb, Sleep, Ops
<1>2. op[1] = "open" => op[2] \in Webs
  BY DEF Ops
<1>3. pending' = pending \cup {[call |-> calls + 1, op |-> op]} /\ UNCHANGED fdVars
  BY <1>1 DEF Suspend, Owed
<1>4. \A p \in pending' : p.op[1] = "open" => p.op[2] \in Webs
  BY <1>2, <1>3 DEF FdInv, FdTypes
<1> QED
  BY <1>3, <1>4, OtherFds

LEMMA SucceedsFds == ASSUME FdInv, Succeeds PROVE FdInv'
<1>1. PICK p \in pending :
        IF p.op[1] = "open"
        THEN AllocFd(p.op[2]) /\ Resume(p, NextFd)
        ELSE Resume(p, 0) /\ UNCHANGED fdVars
  BY DEF Succeeds
<1>2. pending' \subseteq pending
  BY <1>1 DEF Resume, Completed
<1>3. \A q \in pending' : q.op[1] = "open" => q.op[2] \in Webs
  BY <1>2 DEF FdInv, FdTypes
<1>4. CASE p.op[1] = "open"
  <2>1. p.op[2] \in Kinds \ {"none"}
    BY <1>4 DEF FdInv, FdTypes, Webs, Kinds
  <2> QED
    BY <1>1, <1>3, <1>4, <2>1, AllocInv
<1>5. CASE p.op[1] # "open"
  BY <1>1, <1>3, <1>5, OtherFds
<1> QED
  BY <1>4, <1>5

LEMMA NextFds == ASSUME FdInv, [Next]_vars PROVE FdInv'
<1>1. ASSUME UNCHANGED pending
      PROVE  \A p \in pending' : p.op[1] = "open" => p.op[2] \in Webs
  BY <1>1 DEF FdInv, FdTypes
<1>2. CASE OpenFake \/ OpenFakeAppend
  <2>1. AllocFd("mem") /\ UNCHANGED pending
    BY <1>2 DEF OpenFake, OpenFakeAppend, control
  <2> QED
    BY <1>1, <2>1, AllocInv DEF Kinds
<1>3. CASE OpenFakeTrunc \/ Close
  BY <1>3, OpenFakeTruncInv, CloseInv
<1>4. CASE OpenWeb \/ ReadWeb \/ Sleep
  BY <1>4, SuspendFds
<1>5. CASE Succeeds
  BY <1>5, SucceedsFds
<1>6. CASE Fails
  <2>1. pending' \subseteq pending /\ UNCHANGED fdVars
    BY <1>6 DEF Fails, Resume, Completed
  <2> QED
    BY <2>1, OtherFds DEF FdInv, FdTypes
<1>7. CASE \/ Start \/ Finish \/ Trap \/ WriteLine
           \/ Unwound \/ UnwindOverflows \/ Rewound \/ UNCHANGED vars
  <2>1. UNCHANGED <<pending, fdVars>>
    BY <1>7
    DEF Start, Finish, Trap, WriteLine, Unwound, UnwindOverflows, Rewound, vars, control
  <2> QED
    BY <1>1, <2>1, OtherFds
<1> QED
  BY <1>2, <1>3, <1>4, <1>5, <1>6, <1>7 DEF Next

(* allocFd, close and a failed open share the descriptors out: none is      *)
(* given to two files, and none is lost, however they follow each other.    *)
THEOREM DescriptorsApart == Spec => []FdsPartitioned
<1> QED
  BY InitFds, NextFds, FdInvPartition, PTL DEF Spec

-----------------------------------------------------------------------------
(***************************************************************************)
(* The standard streams.                                                   *)
(***************************************************************************)

(* The last newline, or 0.                                                  *)
LEMMA LastNlBound ==
  ASSUME NEW s \in Seq(Chars)
  PROVE  LastNl(s) \in 0..Len(s)
<1> DEFINE S == {k \in DOMAIN s : s[k] = "nl"}
<1>1. Len(s) \in Nat /\ DOMAIN s = 1..Len(s)
  OBVIOUS
<1>2. CASE S = {}
  BY <1>1, <1>2 DEF LastNl
<1>3. CASE S # {}
  <2>1. \E k \in S : \A j \in S : j <= k
    BY <1>1, <1>3, LastOf
  <2> QED
    BY <1>1, <1>3, <2>1 DEF LastNl
<1> QED
  BY <1>2, <1>3

-----------------------------------------------------------------------------
Texts == [buf : Seq(Chars), out : Seq(Chars), written : Seq(Pieces)]

(* What has gone out and what waits is what was written, decoded.           *)
Kept(t) == t.out \o t.buf = Decoded(t.written)

(* Everything has gone out, the last line ended.                            *)
AllOut(t) ==
  t.buf = <<>> /\ t.out \in {Decoded(t.written), Append(Decoded(t.written), "nl")}

(* A write decodes to as many characters as it has pieces.                  *)
LEMMA DecodedChars ==
  ASSUME NEW s \in Seq(Pieces)
  PROVE  Decoded(s) \in Seq(Chars) /\ Len(Decoded(s)) = Len(s)
<1>1. Len(s) \in Nat /\ DOMAIN s = 1..Len(s) /\ \A k \in 1..Len(s) : s[k] \in Pieces
  OBVIOUS
<1>2. Decoded(s) \in [1..Len(s) -> Chars]
  BY <1>1 DEF Decoded, Pieces, Chars
<1>3. Decoded(s) \in Seq(Chars)
  BY <1>1, <1>2, SeqDef
<1>4. DOMAIN Decoded(s) = 1..Len(s)
  BY <1>2
<1> QED
  BY <1>1, <1>3, <1>4, LenProperties

(* Decoding the writes one by one decodes the text piece by piece.          *)
LEMMA DecodedJoined ==
  ASSUME NEW s \in Seq(Pieces), NEW c \in Seq(Pieces)
  PROVE  Decoded(s \o c) = Decoded(s) \o Decoded(c)
<1> DEFINE j == s \o c
           d == Decoded(j)
           ds == Decoded(s)
           dc == Decoded(c)
           e == ds \o dc
<1>1. /\ Len(s) \in Nat /\ Len(c) \in Nat /\ j \in Seq(Pieces) /\ Len(j) = Len(s) + Len(c)
      /\ \A k \in 1..Len(j) : j[k] = IF k <= Len(s) THEN s[k] ELSE c[k - Len(s)]
  BY ConcatProperties, LenProperties
<1> HIDE DEF j
<1>2. ds \in Seq(Chars) /\ dc \in Seq(Chars) /\ Len(ds) = Len(s) /\ Len(dc) = Len(c)
  BY DecodedChars
<1>3. d \in Seq(Chars) /\ Len(d) = Len(s) + Len(c)
  BY <1>1, DecodedChars
<1>4. /\ \A k \in 1..Len(j) : d[k] = IF j[k] \in {"lead", "trail"} THEN "bad" ELSE j[k]
      /\ \A k \in 1..Len(s) : ds[k] = IF s[k] \in {"lead", "trail"} THEN "bad" ELSE s[k]
      /\ \A k \in 1..Len(c) : dc[k] = IF c[k] \in {"lead", "trail"} THEN "bad" ELSE c[k]
  <2>1. DOMAIN j = 1..Len(j) /\ DOMAIN s = 1..Len(s) /\ DOMAIN c = 1..Len(c)
    BY <1>1, LenProperties
  <2> QED
    BY <2>1 DEF Decoded
<1> HIDE DEF d, ds, dc
<1>5. /\ e \in Seq(Chars) /\ Len(e) = Len(ds) + Len(dc)
      /\ \A k \in 1..(Len(ds) + Len(dc)) :
           e[k] = IF k <= Len(ds) THEN ds[k] ELSE dc[k - Len(ds)]
  BY <1>2, ConcatProperties
<1> HIDE DEF e
<1>6. \A k \in 1..Len(d) : d[k] = e[k]
  <2> SUFFICES ASSUME NEW k \in 1..Len(d) PROVE d[k] = e[k]
    OBVIOUS
  <2>1. k \in 1..Len(j) /\ k \in 1..(Len(ds) + Len(dc))
    BY <1>1, <1>2, <1>3
  <2>2. CASE k <= Len(s)
    <3>1. k \in 1..Len(s) /\ j[k] = s[k] /\ e[k] = ds[k]
      BY <1>1, <1>2, <1>5, <2>1, <2>2
    <3> QED
      BY <1>4, <2>1, <3>1
  <2>3. CASE ~(k <= Len(s))
    <3>1. k - Len(s) \in 1..Len(c) /\ j[k] = c[k - Len(s)] /\ e[k] = dc[k - Len(s)]
      BY <1>1, <1>2, <1>5, <2>1, <2>3
    <3> QED
      BY <1>4, <2>1, <3>1
  <2> QED
    BY <2>2, <2>3
<1>7. d = e
  BY <1>2, <1>3, <1>5, <1>6, SeqEqual
<1> QED
  BY <1>7 DEF j, d, ds, dc, e

LEMMA WrittenKept ==
  ASSUME NEW t \in Texts, Kept(t), NEW chunk \in Chunks
  PROVE  Written(t, chunk) \in Texts /\ Kept(Written(t, chunk))
<1> DEFINE b == t.buf
           o == t.out
           g == Decoded(chunk)
           w == Decoded(t.written)
           s == b \o g
           n == LastNl(s)
           u == SubSeq(s, 1, n)
           v == SubSeq(s, n + 1, Len(s))
<1>0. chunk \in Seq(Pieces) /\ t.written \in Seq(Pieces) /\ t.written \o chunk \in Seq(Pieces)
  BY JsConstants, ConcatProperties DEF JsConstants, Texts
<1>1. b \in Seq(Chars) /\ o \in Seq(Chars) /\ g \in Seq(Chars)
  BY <1>0, DecodedChars DEF Texts
<1>d. Decoded(t.written \o chunk) = w \o g
  BY <1>0, DecodedJoined
<1> HIDE DEF g
<1>2. s \in Seq(Chars)
  BY <1>1
<1>3. n \in 0..Len(s) /\ Len(s) \in Nat
  <2> HIDE DEF s
  <2> QED
    BY <1>2, LastNlBound
<1>4. Written(t, chunk) = [buf |-> v, out |-> o \o u, written |-> t.written \o chunk]
  BY DEF Written, g
<1>5. w = o \o b
  BY DEF Kept
<1> HIDE DEF b, o, n, w
<1>6. u \in Seq(Chars) /\ v \in Seq(Chars)
  <2> HIDE DEF s
  <2>1. \A i \in 1..n : s[i] \in Chars
    BY <1>2, <1>3
  <2>2. \A i \in (n + 1)..Len(s) : s[i] \in Chars
    BY <1>2, <1>3
  <2>3. n \in Int /\ n + 1 \in Int /\ Len(s) \in Int /\ 1 \in Int
    BY <1>3
  <2> QED
    BY <2>1, <2>2, <2>3, SubSeqProperties
<1>7. u \o v = s
  <2> HIDE DEF s
  <2>1. 1 \in 1..(Len(s) + 1) /\ n \in (1 - 1)..Len(s) /\ Len(s) \in n..Len(s)
    BY <1>3
  <2>2. u \o v = SubSeq(s, 1, Len(s))
    BY <1>2, <2>1, ConcatAdjacentSubSeq
  <2> QED
    BY <1>2, <2>2, SubSeqFull
<1> HIDE DEF u, v
<1>a. \A x, y, z \in Seq(Chars) : (x \o y) \o z = x \o (y \o z)
  BY ConcatAssociative
<1>8. (o \o u) \o v = o \o (u \o v)
  <2>1. o \in Seq(Chars) /\ u \in Seq(Chars) /\ v \in Seq(Chars)
    BY <1>1, <1>6
  <2> QED
    BY <1>a, <2>1, Zenon
<1>9. (o \o b) \o g = o \o (b \o g)
  <2> HIDE DEF s
  <2> QED
    BY <1>1, <1>a, Zenon
<1>10. o \o u \in Seq(Chars) /\ (o \o b) \o g \in Seq(Chars)
  BY <1>1, <1>6
<1>11. Written(t, chunk) \in Texts
  BY <1>0, <1>4, <1>6, <1>10 DEF Texts
<1>12. (o \o u) \o v = Decoded(t.written \o chunk)
  BY <1>5, <1>d, <1>7, <1>8, <1>9, Zenon
<1>13. /\ Written(t, chunk).out = o \o u /\ Written(t, chunk).buf = v
       /\ Written(t, chunk).written = t.written \o chunk
  <2> HIDE DEF s
  <2> QED
    BY <1>4
<1> QED
  BY <1>11, <1>12, <1>13, Zenon DEF Kept

LEMMA FlushedOut ==
  ASSUME NEW t \in Texts, Kept(t)
  PROVE  Flushed(t) \in Texts /\ AllOut(Flushed(t))
<1> DEFINE b == t.buf
           o == t.out
<1>1. b \in Seq(Chars) /\ o \in Seq(Chars) /\ o \o b = Decoded(t.written)
  BY DEF Texts, Kept
<1>2. CASE b = <<>>
  <2>1. o \o <<>> = o
    BY <1>1, ConcatEmptySeq
  <2> QED
    BY <1>1, <1>2, <2>1 DEF Flushed, AllOut
<1>3. CASE b # <<>>
  <2>1. Flushed(t) = [buf |-> <<>>, out |-> Append(o \o b, "nl"), written |-> t.written]
    BY <1>3 DEF Flushed, Texts
  <2>2. o \o b \in Seq(Chars) /\ "nl" \in Chars /\ t.written \in Seq(Pieces)
    BY <1>1, ConcatProperties DEF Chars, Texts
  <2>3. Append(o \o b, "nl") \in Seq(Chars) /\ <<>> \in Seq(Chars) /\ t.written \in Seq(Pieces)
    BY <2>2, AppendProperties, EmptySeq
  <2> HIDE DEF b, o
  <2> QED
    BY <1>1, <2>1, <2>2, <2>3 DEF Texts, AllOut
<1> QED
  BY <1>2, <1>3

-----------------------------------------------------------------------------
(* While the process lives its writers have lost nothing; when it is over,  *)
(* those that were open have let go of everything.                          *)
TextInv ==
  /\ text \in [Lines -> Texts]
  /\ main = "pending" => \A fd \in Lines : Kept(text[fd])
  /\ main # "pending" => \A fd \in Lines : files[fd] = "line" => AllOut(text[fd])

LEMMA InitText == Init => TextInv
<1> SUFFICES ASSUME Init PROVE TextInv
  OBVIOUS
<1> DEFINE t == [buf |-> <<>>, out |-> <<>>, written |-> <<>>]
<1>1. <<>> \in Seq(Chars) /\ <<>> \in Seq(Pieces) /\ <<>> \o <<>> = <<>>
  OBVIOUS
<1>2. Decoded(<<>>) = <<>>
  BY DEF Decoded
<1>4. t \in Texts /\ Kept(t)
  BY <1>1, <1>2 DEF Texts, Kept
<1>3. text = [fd \in Lines |-> t] /\ main = "pending"
  BY DEF Init
<1> HIDE DEF t
<1> QED
  BY <1>3, <1>4 DEF TextInv

(* The end: the writers that are open are flushed.                          *)
LEMMA OverText ==
  ASSUME ControlInv, TextInv, prog # "over",
         NEW how \in {"resolved", "rejected"}, Over(how, files')
  PROVE  TextInv'
<1>1. main = "pending" /\ main' = how /\ how # "pending"
  BY DEF ControlInv, OverIsOver, Over
<1>2. text' = [fd \in Lines |->
                 IF files'[fd] = "line" THEN Flushed(text[fd]) ELSE text[fd]]
  BY DEF Over, Finalized
<1>3. \A fd \in Lines : text[fd] \in Texts /\ Kept(text[fd])
  BY <1>1 DEF TextInv
<1>4. \A fd \in Lines : Flushed(text[fd]) \in Texts /\ AllOut(Flushed(text[fd]))
  BY <1>3, FlushedOut
<1> QED
  BY <1>1, <1>2, <1>3, <1>4 DEF TextInv

(* Steps of a process that write nothing and make nothing a line writer.    *)
LEMMA OtherText ==
  ASSUME TextInv, UNCHANGED <<text, main>>,
         main # "pending" => \A fd \in Lines : files'[fd] = "line" => files[fd] = "line"
  PROVE  TextInv'
BY DEF TextInv

(* A completion opens a file from the web or nothing.                       *)
LEMMA SucceedsText == ASSUME FdInv, TextInv, Succeeds PROVE TextInv'
<1>1. PICK p \in pending :
        IF p.op[1] = "open"
        THEN AllocFd(p.op[2]) /\ Resume(p, NextFd)
        ELSE Resume(p, 0) /\ UNCHANGED fdVars
  BY DEF Succeeds
<1>2. UNCHANGED <<text, main>>
  BY <1>1 DEF Resume
<1>3. CASE p.op[1] = "open"
  <2>1. p.op[2] \in Webs /\ p.op[2] # "line"
    BY <1>3 DEF FdInv, FdTypes, Webs
  <2>2. files' = [files EXCEPT ![NextFd] = p.op[2]] /\ files \in [Fds -> Kinds]
    BY <1>1, <1>3 DEF AllocFd, FdInv, FdTypes
  <2>3. \A fd \in Lines : fd \in Fds
    BY JsConstants DEF JsConstants, Fds
  <2>4. \A fd \in Lines : files'[fd] = "line" => files[fd] = "line"
    BY <2>1, <2>2, <2>3
  <2> QED
    BY <1>2, <2>4, OtherText
<1>4. CASE p.op[1] # "open"
  BY <1>1, <1>2, <1>4, OtherText DEF fdVars
<1> QED
  BY <1>3, <1>4

LEMMA WriteText == ASSUME ControlInv, TextInv, WriteLine PROVE TextInv'
<1>1. PICK fd \in Lines, chunk \in Chunks :
        text' = [text EXCEPT ![fd] = Written(text[fd], chunk)]
  BY DEF WriteLine
<1>2. main = "pending" /\ main' = "pending"
  BY DEF WriteLine, ControlInv, OverIsOver
<1>3. \A l \in Lines : text[l] \in Texts /\ Kept(text[l])
  BY <1>2 DEF TextInv
<1>4. Written(text[fd], chunk) \in Texts /\ Kept(Written(text[fd], chunk))
  BY <1>3, WrittenKept
<1>5. text' \in [Lines -> Texts]
  BY <1>1, <1>4 DEF TextInv
<1>6. \A l \in Lines : Kept(text'[l])
  BY <1>1, <1>3, <1>4 DEF TextInv
<1> QED
  BY <1>2, <1>5, <1>6 DEF TextInv

LEMMA NextText ==
  ASSUME ControlInv, FdInv, TextInv, [Next]_vars
  PROVE  TextInv'
<1> USE DEF fdVars
<1>1. CASE Start \/ OpenFakeTrunc \/ Unwound \/ Fails \/ Rewound
  BY <1>1, OtherText DEF Start, OpenFakeTrunc, Unwound, Fails, Rewound, Resume
<1>2. CASE Finish \/ Trap \/ UnwindOverflows \/ OpenFakeAppend
  <2>1. prog # "over" /\ \E how \in {"resolved", "rejected"} : Over(how, files')
    BY <1>2 DEF Finish, Trap, UnwindOverflows, OpenFakeAppend, Over
  <2> QED
    BY <2>1, OverText
<1>3. CASE OpenFake \/ Close
  <2>1. main = "pending" /\ UNCHANGED <<text, main>>
    BY <1>3 DEF OpenFake, Close, ControlInv, OverIsOver
  <2> QED
    BY <2>1, OtherText
<1>4. CASE WriteLine
  BY <1>4, WriteText
<1>5. CASE OpenWeb \/ ReadWeb \/ Sleep
  BY <1>5, OtherText DEF OpenWeb, ReadWeb, Sleep, Suspend
<1>6. CASE Succeeds
  BY <1>6, SucceedsText
<1>7. CASE UNCHANGED vars
  BY <1>7, OtherText DEF vars
<1> QED
  BY <1>1, <1>2, <1>3, <1>4, <1>5, <1>6, <1>7 DEF Next

-----------------------------------------------------------------------------
(* What is written to a standard stream that stays open goes out in order,  *)
(* as each write decodes by itself (str), and all of it by the time the     *)
(* promise of run is settled, also when the program is killed while it is   *)
(* unwound (LineWriterFile, finalize).                                      *)
THEOREM TextGoesOut == Spec => []LinesKept
<1>1. TextInv => LinesKept
  BY DEF TextInv, LinesKept, Kept, AllOut
<1> QED
  BY InitControl, NextControl, InitFds, NextFds, InitText, NextText, <1>1, PTL DEF Spec

-----------------------------------------------------------------------------
(***************************************************************************)
(* What is owed.  With the descriptors, the text and the control above this*)
(* is every variable.                                                      *)
(***************************************************************************)
CallTypes ==
  /\ state \in 0..2
  /\ result \in [call : 0..MaxCalls, value : Int]
  /\ pending \subseteq [call : 1..MaxCalls, op : Ops] /\ calls \in 0..MaxCalls
  /\ main \in {"pending", "resolved", "rejected"}

LEMMA InitCalls == Init => CallTypes
BY JsConstants DEF Init, CallTypes

LEMMA SuspendCalls ==
  ASSUME CallTypes, NEW op \in Ops, Suspend(op)
  PROVE  CallTypes'
<1>1. calls + 1 \in 1..MaxCalls /\ calls + 1 \in 0..MaxCalls
  BY JsConstants DEF CallTypes, Suspend
<1>2. [call |-> calls + 1, op |-> op] \in [call : 1..MaxCalls, op : Ops]
  BY <1>1
<1>3. /\ pending' = pending \cup {[call |-> calls + 1, op |-> op]}
      /\ calls' = calls + 1 /\ state' = 1 /\ UNCHANGED <<result, main>>
  BY DEF Suspend, Owed
<1> QED
  BY <1>1, <1>2, <1>3 DEF CallTypes

LEMMA ResumeCalls ==
  ASSUME CallTypes, NEW p \in pending, NEW value \in Int, Resume(p, value)
  PROVE  CallTypes'
<1>1. p.call \in 1..MaxCalls
  BY DEF CallTypes
<1>2. [call |-> p.call, value |-> value] \in [call : 0..MaxCalls, value : Int]
  BY <1>1, JsConstants
<1>3. /\ state' = 2 /\ result' = [call |-> p.call, value |-> value]
      /\ pending' \subseteq pending /\ UNCHANGED <<calls, main>>
  BY DEF Resume, Completed
<1> QED
  BY <1>2, <1>3 DEF CallTypes

LEMMA NextCalls == ASSUME CallTypes, FdInv, [Next]_vars PROVE CallTypes'
<1>1. CASE \/ Start \/ OpenFake \/ OpenFakeTrunc \/ Close \/ WriteLine
           \/ Unwound \/ Rewound \/ UNCHANGED vars
  <2>1. /\ state' \in {state, 0} /\ UNCHANGED <<result, pending, calls, main>>
    BY <1>1
    DEF Start, OpenFake, OpenFakeTrunc, Close, WriteLine, Unwound, Stopped, Rewound,
        vars, control
  <2> QED
    BY <2>1 DEF CallTypes
<1>2. CASE Finish \/ Trap \/ OpenFakeAppend \/ UnwindOverflows
  <2>1. /\ state' \in {state, 0} /\ UNCHANGED <<result, pending, calls>>
        /\ main' \in {"resolved", "rejected"}
    BY <1>2 DEF Finish, Trap, OpenFakeAppend, UnwindOverflows, Stopped, Over
  <2> QED
    BY <2>1 DEF CallTypes
<1>3. CASE OpenWeb \/ ReadWeb \/ Sleep
  <2>1. PICK op \in Ops : Suspend(op)
    BY <1>3 DEF OpenWeb, ReadWeb, Sleep, Ops
  <2> QED
    BY <2>1, SuspendCalls
<1>4. CASE Succeeds
  <2>1. PICK p \in pending :
          IF p.op[1] = "open"
          THEN AllocFd(p.op[2]) /\ Resume(p, NextFd)
          ELSE Resume(p, 0) /\ UNCHANGED fdVars
    BY <1>4 DEF Succeeds
  <2>2. AllocFd(p.op[2]) => NextFd \in Int
    BY NextFdFacts DEF AllocFd, Fds
  <2> QED
    BY <2>1, <2>2, ResumeCalls
<1>5. CASE Fails
  BY <1>5, ResumeCalls DEF Fails, Failed
<1> QED
  BY <1>1, <1>2, <1>3, <1>4, <1>5 DEF Next

(* Every variable is of its type and the assertions of suspend, callMain,   *)
(* resume and resumeFinalize hold, whatever promises, timers and calls      *)
(* interleave.                                                              *)
THEOREM ProcessSound == Spec => []ProcessInv
<1>1. ControlInv /\ FdInv /\ TextInv /\ CallTypes => ProcessInv
  BY DEF ControlInv, FdInv, FdTypes, TextInv, Texts, CallTypes, ProcessInv, TypeOK
<1> QED
  BY InitControl, NextControl, InitFds, NextFds, InitText, NextText, InitCalls, NextCalls,
     <1>1, PTL DEF Spec
=============================================================================
