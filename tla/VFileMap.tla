------------------------------ MODULE VFileMap ------------------------------
(***************************************************************************)
(* The virtual file map of backends/base/vfile.c: two parallel arrays,     *)
(* sorted by descriptor, that live in static storage until they are full   *)
(* and in one heap block afterwards.  The calls are the ones the syscall   *)
(* layer makes: vfile_lookup, vfile_open (with a descriptor of its own or  *)
(* with one end of a host pipe) and vfile_close.  The binary search that   *)
(* vfile_map_get, vfile_map_set and vfile_map_del share runs one probe per *)
(* step, so that its loop is something to reason about: what it returns,   *)
(* the variables i and d it leaves behind for the insertion, and that it   *)
(* ends.  The process is single-threaded: one call at a time.              *)
(***************************************************************************)
EXTENDS Integers, FiniteSets

CONSTANTS
  InitCap,    \* VFILE_MAP_INITCAP, the length of the static arrays
  MaxCap,     \* bound: memrealloc returns NULL beyond this capacity
              \* (without HAS_LIBC it always does: MaxCap = InitCap)
  KeysPerVal, \* sizeof(vfile_t) \div sizeof(fd_t), 8 on a 64-bit host
  FdMin,      \* VFILE_FD_MIN, above every descriptor of the host
  MaxFd,      \* bound on the descriptors handed out
  HostFds,    \* descriptors _psys_pipe may return
  MaxPipes,   \* bound: how many pipe files a program holds open at once
  Files,      \* identities standing for a file's flags, name, fops and data
  NoFile,     \* what a slot no open has written yet describes
  Junk        \* the descriptor read from heap memory never written

ASSUME MapConstants ==
  /\ InitCap \in Nat \ {0}
  /\ MaxCap \in Nat /\ InitCap <= MaxCap
  /\ KeysPerVal \in Nat \ {0}
  /\ FdMin \in Nat /\ MaxFd \in Nat
  /\ HostFds \subseteq 0..(FdMin - 1)
  /\ MaxPipes \in Nat
  /\ NoFile \notin Files
  /\ Junk \in Int

VARIABLES
  cap, len, keys, vals,  \* g_vfile_map
  call,                  \* the call in progress, "idle" between calls
  key, file,             \* its descriptor, and the file it opens or closes
  low, high, i, d,       \* the locals of the search
  answer                 \* what the last finished call reported

mapVars == <<cap, len, keys, vals>>
loopVars == <<low, high, i, d>>
vars == <<mapVars, call, key, file, loopVars, answer>>

NoFd == -12  \* p_err_nomem

Fds == {NoFd} \cup HostFds \cup FdMin..MaxFd
Slots == 0..(MaxCap - 1)
Used == 0..(len - 1)
Calls == {"idle", "lookup", "close", "set", "del"}

Answer(op, fd, f) == [op |-> op, fd |-> fd, file |-> f]

KeySet == {keys[s] : s \in Used}
PipeSlots == {s \in Used : keys[s] < FdMin}

Init ==
  /\ cap = InitCap /\ len = 0
  /\ keys = [s \in Slots |-> 0]
  /\ vals = [s \in Slots |-> [fd |-> 0, file |-> NoFile]]
  /\ call = "idle" /\ key = 0 /\ file = NoFile
  /\ low = 0 /\ high = 0 /\ i = 0 /\ d = 0
  /\ answer = Answer("none", NoFd, NoFile)

(* The call returns: its locals are gone, its report is the new answer.     *)
Finish(op, fd, f) ==
  /\ call' = "idle" /\ key' = 0 /\ file' = NoFile
  /\ low' = 0 /\ high' = 0 /\ i' = 0 /\ d' = 0
  /\ answer' = Answer(op, fd, f)

-----------------------------------------------------------------------------
(* vfile_map_grow.  The first growth copies both arrays from static storage *)
(* to the heap; a later one is a realloc, which keeps the bytes where they  *)
(* were while the second array's base moves up by the old capacity's keys.  *)

Full == len = cap
HasRoom == Full => 2 * cap <= MaxCap

GrownCap == IF Full THEN 2 * cap ELSE cap

GrownKeys ==
  IF Full THEN [s \in Slots |-> IF s < len THEN keys[s] ELSE Junk] ELSE keys

JunkVal == [fd |-> Junk, file |-> NoFile]
Shift == cap \div KeysPerVal

GrownVals ==
  IF ~Full THEN vals
  ELSE IF cap = InitCap
       THEN [s \in Slots |-> IF s < len THEN vals[s] ELSE JunkVal]
       ELSE [s \in Slots |-> IF s + Shift < cap THEN vals[s + Shift] ELSE JunkVal]

(* memrealloc returned NULL: the open reports p_err_nomem.                  *)
NoMem ==
  /\ Full
  /\ Finish("open", NoFd, NoFile)
  /\ UNCHANGED mapVars

-----------------------------------------------------------------------------
(* The calls. *)

Begin(c, k, f) ==
  /\ call = "idle"
  /\ call' = c /\ key' = k /\ file' = f
  /\ low' = 0 /\ high' = len /\ i' = 0 /\ d' = 0
  /\ UNCHANGED <<mapVars, answer>>

(* VFILE_JUMP_FOP of read and write: vfile_lookup of the caller's argument. *)
BeginLookup == \E k \in Fds : Begin("lookup", k, NoFile)

(* _psys_close: vfile_lookup first.                                         *)
BeginClose == \E k \in Fds : Begin("close", k, NoFile)

(* vfile_open with a pipe flag.  The host never returns a descriptor that   *)
(* is still open, and a pipe file's descriptor stays open with it.          *)
BeginOpenPipe ==
  /\ Cardinality(PipeSlots) < MaxPipes
  /\ \E k \in HostFds \ KeySet, f \in Files : Begin("set", k, f)

(* Mutant: descriptors are numbered by position. *)
NextKeyByCount == FdMin + len

(* vfile_map_alloc's key: above every key of the map, and at least FdMin.   *)
NextKey ==
  IF len = 0 \/ vals[len - 1].fd + 1 < FdMin THEN FdMin
  ELSE vals[len - 1].fd + 1

(* vfile_open without a pipe: vfile_map_alloc appends.                      *)
OpenAlloc ==
  /\ call = "idle" /\ HasRoom
  /\ NextKey <= MaxFd
  /\ \E f \in Files :
       /\ cap' = GrownCap /\ len' = len + 1
       /\ keys' = [GrownKeys EXCEPT ![len] = NextKey]
       /\ vals' = [GrownVals EXCEPT ![len] = [fd |-> NextKey, file |-> f]]
       /\ Finish("open", NextKey, f)

OpenAllocNoMem == call = "idle" /\ NoMem

-----------------------------------------------------------------------------
(* The search loop. *)

Searching == call # "idle" /\ low < high
Mid == (low + high) \div 2

(* Mutants: the loop bounds of a search that never ends, or that skips one. *)
NextLowStuck == Mid
NextHighSkips == Mid - 1

NextLow == Mid + 1
NextHigh == Mid

Probe ==
  /\ Searching
  /\ i' = Mid /\ d' = keys[Mid] - key
  /\ \/ keys[Mid] < key /\ low' = NextLow /\ UNCHANGED high
     \/ keys[Mid] > key /\ high' = NextHigh /\ UNCHANGED low
  /\ UNCHANGED <<mapVars, call, key, file, answer>>

Found == Searching /\ keys[Mid] = key
Hit(c) == call = c /\ Found
Miss(c) == call = c /\ ~Searching
Returning(c) == Hit(c) \/ Miss(c)

LookupHit ==
  /\ Hit("lookup")
  /\ Finish("lookup", key, vals[Mid].file)
  /\ UNCHANGED mapVars

LookupMiss ==
  /\ Miss("lookup")
  /\ Finish("lookup", key, NoFile)
  /\ UNCHANGED mapVars

(* vfile_close: release the file found, then vfile_map_del of its own fd.   *)
CloseHit ==
  /\ Hit("close")
  /\ call' = "del" /\ key' = vals[Mid].fd /\ file' = vals[Mid].file
  /\ low' = 0 /\ high' = len /\ i' = 0 /\ d' = 0
  /\ UNCHANGED <<mapVars, answer>>

(* Not a virtual file: _psys_close_host, outside this module.               *)
CloseMiss ==
  /\ Miss("close")
  /\ Finish("close", key, NoFile)
  /\ UNCHANGED mapVars

(* vfile_map_del at the end of vfile_close.  Found: both memcpy calls move  *)
(* the rest down, the slot past the new end keeps its bytes.  Not found,    *)
(* which takes a slot whose fd is not its key: p_err_badfd.                 *)
Removed(array) ==
  [s \in Slots |-> IF Mid <= s /\ s < len - 1 THEN array[s + 1] ELSE array[s]]

Delete ==
  /\ Returning("del")
  /\ IF Found
     THEN /\ len' = len - 1
          /\ keys' = Removed(keys) /\ vals' = Removed(vals)
          /\ Finish("close", key, file)
          /\ UNCHANGED cap
     ELSE /\ Finish("close", key, NoFile)
          /\ UNCHANGED mapVars

(* Mutant: always after the last probe. *)
InsertAfter == i + 1

(* The slot the loop left behind: before i if its last probe was above the  *)
(* key, after i if it was below.  Only the former shifts the rest up.       *)
InsertAt == IF d < 0 THEN i + 1 ELSE i

Opened(array, v) ==
  [s \in Slots |->
     IF s = InsertAt THEN v
     ELSE IF d > 0 /\ i < s /\ s <= len THEN array[s - 1]
     ELSE array[s]]

(* The end of vfile_map_set, and vfile_open filling in the slot it returns: *)
(* the old slot of a key the map holds, else a slot made for it.            *)
Set ==
  /\ Returning("set")
  /\ IF Found
     THEN /\ vals' = [vals EXCEPT ![Mid].file = file]
          /\ UNCHANGED <<cap, len, keys>>
     ELSE /\ HasRoom
          /\ cap' = GrownCap /\ len' = len + 1
          /\ keys' = Opened(GrownKeys, key)
          /\ vals' = Opened(GrownVals, [fd |-> key, file |-> file])
  /\ Finish("open", key, file)

SetNoMem == Miss("set") /\ NoMem

Run == \/ Probe
       \/ LookupHit \/ LookupMiss
       \/ CloseHit \/ CloseMiss
       \/ Delete
       \/ Set \/ SetNoMem

Next == \/ BeginLookup \/ BeginClose \/ BeginOpenPipe
        \/ OpenAlloc \/ OpenAllocNoMem
        \/ Run

(* A call in progress is a running C function: it takes its next step.      *)
Spec == Init /\ [][Next]_vars /\ WF_vars(Run)

-----------------------------------------------------------------------------
File == Files \cup {NoFile}

TypeOK ==
  /\ cap \in InitCap..MaxCap /\ len \in 0..cap
  /\ keys \in [Slots -> Int]
  /\ vals \in [Slots -> [fd : Int, file : File]]
  /\ call \in Calls /\ key \in Int /\ file \in File
  /\ low \in 0..MaxCap /\ high \in 0..MaxCap /\ i \in 0..MaxCap /\ d \in Int
  /\ answer \in [op : {"none", "open", "lookup", "close"}, fd : Int, file : File]

(* The uses for which the map is right: at most one pipe file open at a     *)
(* time, and no growth of an array that is already on the heap.             *)
SafeUse == MaxPipes <= 1 /\ MaxCap <= 2 * InitCap

(* The keys in use are strictly increasing: no descriptor is held twice,    *)
(* and a binary search over them is meaningful.                             *)
KeysSorted == \A a, b \in Used : a < b => keys[a] < keys[b]

(* The entry found under a descriptor is the entry of that descriptor: the  *)
(* two arrays stay parallel (vfile.c:201-202 asserts this of keys 2 and 3). *)
EntryFdIsKey == \A a \in Used : vals[a].fd = keys[a]

(* The map's arrays between any two steps: well typed, sorted without       *)
(* repetition, and parallel, whatever order of opens and closes and growth  *)
(* led to them.                                                             *)
MapInv == TypeOK /\ KeysSorted /\ EntryFdIsKey

(* The loop invariant shared by get, set and del: everything below low is   *)
(* smaller than the key and everything from high on is larger, so that a    *)
(* miss means the descriptor is not open.                                   *)
SearchWindow ==
  call # "idle" =>
    /\ low <= high /\ high <= len
    /\ \A a \in Used : /\ a < low => keys[a] < key
                       /\ high <= a => key < keys[a]

(* Opening a pipe file keeps every descriptor that was open: what the debug *)
(* constructor asserts of 2, 3, 4 and 5 after "set 1" (vfile.c:218-223).    *)
SetKeepsKeys == [][call = "set" => KeySet \subseteq KeySet']_vars

(* Every call returns: the search loop ends.                                *)
CallReturns == call # "idle" ~> call = "idle"

(* The open files the arrays stand for. *)
SlotOf(k) == CHOOSE s \in Used : keys[s] = k
Table == [k \in KeySet |-> vals[SlotOf(k)].file]

Abstract == INSTANCE FdTable WITH table <- Table

(* The arrays implement the descriptor table: lookups answer with the file  *)
(* opened under that descriptor, opens and closes change one entry each.    *)
ImplementsFdTable == Abstract!Spec
=============================================================================
