--------------------------- MODULE VFileMapProofs ---------------------------
(***************************************************************************)
(* The virtual file map stays sorted and parallel, its search never loses  *)
(* a descriptor, and it implements the table of descriptors, for every     *)
(* capacity, set of descriptors and set of files, as long as it is used    *)
(* within SafeUse.                                                         *)
(***************************************************************************)
EXTENDS VFileMap, FiniteSetTheorems, TLAPS

(* While a pipe file is being entered no key is as small as its descriptor, *)
(* so the search only ever moves down and leaves i at the front.            *)
SetGoesFirst ==
  call = "set" =>
    /\ key < FdMin
    /\ \A a \in Used : keys[a] >= FdMin
    /\ d >= 0
    /\ d > 0 => high = i
    /\ d = 0 => low = 0 /\ high = len /\ i = 0

(* What is inductive: the checked invariants and the state of the search    *)
(* that the insertion depends on.                                           *)
IInv == TypeOK /\ KeysSorted /\ EntryFdIsKey /\ SearchWindow /\ SetGoesFirst

-----------------------------------------------------------------------------
(* The middle of a nonempty window lies inside it.                          *)
LEMMA MidInWindow ==
  ASSUME TypeOK, low < high
  PROVE  Mid \in Int /\ low <= Mid /\ Mid < high
BY DEF TypeOK, Mid

(* A returned call has no search left to speak of.                          *)
LEMMA FinishedIdle ==
  ASSUME NEW op, NEW fd, NEW f, Finish(op, fd, f)
  PROVE  SearchWindow' /\ SetGoesFirst'
BY DEF Finish, SearchWindow, SetGoesFirst

(* The type of the locals and the answer after a call has returned.         *)
LEMMA FinishedType ==
  ASSUME MapConstants, NEW op \in {"none", "open", "lookup", "close"},
         NEW fd \in Int, NEW f \in File, Finish(op, fd, f)
  PROVE  /\ call' \in Calls /\ key' \in Int /\ file' \in File
         /\ low' \in 0..MaxCap /\ high' \in 0..MaxCap
         /\ i' \in 0..MaxCap /\ d' \in Int
         /\ answer' \in [op : {"none", "open", "lookup", "close"},
                         fd : Int, file : File]
BY DEF MapConstants, Finish, Answer, Calls, File

(* Growth leaves at least one free slot and keeps both arrays' used part,   *)
(* as long as the arrays being grown are the static ones.                   *)
LEMMA GrowthKeeps ==
  ASSUME SafeUse, TypeOK, HasRoom
  PROVE  /\ GrownCap \in InitCap..MaxCap /\ len < GrownCap
         /\ GrownKeys \in [Slots -> Int]
         /\ GrownVals \in [Slots -> [fd : Int, file : File]]
         /\ \A a \in Used : GrownKeys[a] = keys[a] /\ GrownVals[a] = vals[a]
<1>1. CASE Full
  <2>1. cap = InitCap
    BY <1>1, MapConstants DEF SafeUse, TypeOK, HasRoom, MapConstants
  <2>2. GrownCap \in InitCap..MaxCap /\ len < GrownCap
    BY <1>1, MapConstants DEF TypeOK, HasRoom, GrownCap, Full, MapConstants
  <2>3. Used \subseteq Slots
    BY MapConstants DEF TypeOK, Used, Slots, MapConstants
  <2>4. JunkVal \in [fd : Int, file : File]
    BY MapConstants DEF JunkVal, File, MapConstants
  <2>5. GrownKeys = [s \in Slots |-> IF s < len THEN keys[s] ELSE Junk]
    BY <1>1 DEF GrownKeys
  <2>6. GrownVals = [s \in Slots |-> IF s < len THEN vals[s] ELSE JunkVal]
    BY <1>1, <2>1 DEF GrownVals
  <2>7. GrownKeys \in [Slots -> Int]
    BY <2>5, MapConstants DEF TypeOK, MapConstants
  <2>8. GrownVals \in [Slots -> [fd : Int, file : File]]
    BY <2>6, <2>4 DEF TypeOK
  <2>9. \A a \in Used : GrownKeys[a] = keys[a] /\ GrownVals[a] = vals[a]
    BY <2>3, <2>5, <2>6 DEF Used, TypeOK
  <2> QED BY <2>2, <2>7, <2>8, <2>9
<1>2. CASE ~Full
  BY <1>2, MapConstants
    DEF TypeOK, HasRoom, GrownCap, GrownKeys, GrownVals, Full, MapConstants
<1> QED BY <1>1, <1>2

(* A bound of one pipe file lets a pipe be opened only when none is.        *)
LEMMA NoPipeOpen ==
  ASSUME SafeUse, TypeOK, Cardinality(PipeSlots) < MaxPipes
  PROVE  \A a \in Used : keys[a] >= FdMin
<1>1. IsFiniteSet(Used)
  <2>1. 0 \in Int /\ len - 1 \in Int
    BY DEF TypeOK
  <2> QED BY <2>1, FS_Interval DEF Used
<1>2. IsFiniteSet(PipeSlots)
  BY <1>1, FS_Subset DEF PipeSlots
<1>3. Cardinality(PipeSlots) = 0
  BY <1>2, FS_CardinalityType, MapConstants DEF SafeUse, MapConstants
<1>4. PipeSlots = {}
  BY <1>2, <1>3, FS_EmptySet
<1>5. \A a \in Used : keys[a] \in Int
  BY MapConstants DEF TypeOK, Used, Slots, MapConstants
<1> QED BY <1>4, <1>5, MapConstants DEF PipeSlots, MapConstants

-----------------------------------------------------------------------------
LEMMA InitIInv == Init => IInv
BY MapConstants
   DEF Init, IInv, TypeOK, KeysSorted, EntryFdIsKey, SearchWindow,
       SetGoesFirst, MapConstants, Calls, File, Answer, Used, NoFd

(* A step that leaves the map and the search alone. *)
LEMMA StutterIInv == ASSUME IInv, UNCHANGED vars PROVE IInv'
BY DEF IInv, TypeOK, KeysSorted, EntryFdIsKey, SearchWindow, SetGoesFirst,
       vars, mapVars, loopVars, Used

(* A lookup or close starts with the whole map as its window.               *)
LEMMA BeginIInv ==
  ASSUME IInv, NEW c \in Calls \ {"idle"}, NEW k \in Int, NEW f \in File,
         Begin(c, k, f),
         c = "set" => k < FdMin /\ \A a \in Used : keys[a] >= FdMin
  PROVE  IInv'
<1>1. TypeOK'
  BY MapConstants DEF IInv, Begin, TypeOK, mapVars, MapConstants
<1>2. KeysSorted' /\ EntryFdIsKey'
  BY DEF IInv, Begin, KeysSorted, EntryFdIsKey, mapVars, Used
<1>3. SearchWindow'
  BY DEF IInv, Begin, SearchWindow, mapVars, Used, TypeOK
<1>4. SetGoesFirst'
  BY DEF IInv, Begin, SetGoesFirst, mapVars, Used
<1> QED BY <1>1, <1>2, <1>3, <1>4 DEF IInv

(* A call that returns without touching the map.                            *)
LEMMA AnswerIInv ==
  ASSUME IInv, NEW op \in {"none", "open", "lookup", "close"},
         NEW fd \in Int, NEW f \in File, Finish(op, fd, f), UNCHANGED mapVars
  PROVE  IInv'
<1>1. TypeOK'
  BY FinishedType, MapConstants DEF IInv, TypeOK, mapVars
<1>2. KeysSorted' /\ EntryFdIsKey'
  BY DEF IInv, KeysSorted, EntryFdIsKey, mapVars, Used
<1> QED BY <1>1, <1>2, FinishedIdle DEF IInv

(* vfile_map_alloc appends a key above all others. *)
LEMMA OpenAllocIInv == ASSUME SafeUse, IInv, OpenAlloc PROVE IInv'
<1> USE DEF IInv
<1>1. PICK f \in Files :
        /\ cap' = GrownCap /\ len' = len + 1
        /\ keys' = [GrownKeys EXCEPT ![len] = NextKey]
        /\ vals' = [GrownVals EXCEPT ![len] = [fd |-> NextKey, file |-> f]]
        /\ Finish("open", NextKey, f)
  BY DEF OpenAlloc
<1>2. HasRoom
  BY DEF OpenAlloc
<1>3. /\ GrownCap \in InitCap..MaxCap /\ len < GrownCap
      /\ GrownKeys \in [Slots -> Int]
      /\ GrownVals \in [Slots -> [fd : Int, file : File]]
      /\ \A a \in Used : GrownKeys[a] = keys[a] /\ GrownVals[a] = vals[a]
  BY <1>2, GrowthKeeps
<1>4. Used \subseteq Slots /\ len \in Slots /\ len \in Nat
  BY <1>3, MapConstants DEF TypeOK, Used, Slots, MapConstants
<1>5. NextKey \in Int /\ \A a \in Used : keys[a] < NextKey
  <2>1. CASE len = 0
    BY <2>1, MapConstants DEF NextKey, Used, MapConstants
  <2>2. CASE len # 0
    <3>1. len - 1 \in Used /\ vals[len - 1].fd \in Int
      BY <2>2, <1>4 DEF Used, TypeOK
    <3>2. vals[len - 1].fd = keys[len - 1]
      BY <3>1 DEF EntryFdIsKey
    <3>3. \A a \in Used : keys[a] \in Int /\ keys[a] <= keys[len - 1]
      BY <3>1, <1>4 DEF KeysSorted, Used, TypeOK
    <3>4. NextKey \in Int /\ NextKey > vals[len - 1].fd
      BY <2>2, <3>1, MapConstants DEF NextKey, MapConstants
    <3> QED BY <3>2, <3>3, <3>4, <3>1
  <2> QED BY <2>1, <2>2
<1>6. File' = File /\ f \in File
  BY DEF File
<1>7. TypeOK'
  <2>1. cap' \in InitCap..MaxCap /\ len' \in 0..cap'
    BY <1>1, <1>3, <1>4
  <2>2. keys' \in [Slots -> Int]
    BY <1>1, <1>3, <1>5
  <2>3. vals' \in [Slots -> [fd : Int, file : File]]
    BY <1>1, <1>3, <1>5, <1>6
  <2> QED BY <2>1, <2>2, <2>3, <1>1, <1>5, <1>6, FinishedType, MapConstants DEF TypeOK
<1>8. \A a \in Used' : a \in Used \/ a = len
  BY <1>1, <1>4 DEF Used
<1>9. keys'[len] = NextKey /\ vals'[len].fd = NextKey
  BY <1>1, <1>3, <1>4
<1>10. \A a \in Used : a # len /\ a < len /\ keys'[a] = keys[a] /\ vals'[a] = vals[a]
  BY <1>1, <1>3, <1>4 DEF Used
<1>11. KeysSorted'
  <2> SUFFICES ASSUME NEW a \in Used', NEW b \in Used', a < b
               PROVE  keys'[a] < keys'[b]
    BY DEF KeysSorted
  <2>1. a \in Used
    BY <1>4, <1>8, <1>10 DEF Used
  <2> QED BY <2>1, <1>5, <1>8, <1>9, <1>10 DEF KeysSorted
<1>12. EntryFdIsKey'
  BY <1>8, <1>9, <1>10 DEF EntryFdIsKey
<1> QED BY <1>7, <1>11, <1>12, <1>1, FinishedIdle

(* One probe halves the window and keeps the descriptor inside it.          *)
LEMMA ProbeIInv == ASSUME IInv, Probe PROVE IInv'
<1> USE DEF IInv
<1>1. Mid \in Int /\ low <= Mid /\ Mid < high /\ Mid \in Used
  BY MidInWindow DEF Probe, Searching, SearchWindow, Used, TypeOK
<1>2. keys[Mid] \in Int /\ Used \subseteq Slots
  BY <1>1, MapConstants DEF TypeOK, Used, Slots, MapConstants
<1>3. \A a \in Used : /\ keys[a] \in Int
                      /\ a < Mid => keys[a] < keys[Mid]
                      /\ Mid < a => keys[Mid] < keys[a]
  BY <1>1, <1>2 DEF KeysSorted, TypeOK
<1>4. TypeOK'
  BY <1>1, <1>2, MapConstants
     DEF Probe, TypeOK, mapVars, NextLow, NextHigh, SearchWindow, Searching, MapConstants
<1>5. KeysSorted' /\ EntryFdIsKey'
  BY DEF Probe, KeysSorted, EntryFdIsKey, mapVars, Used
<1>6. SearchWindow'
  <2>1. /\ low \in Int /\ high \in Int /\ len \in Int /\ key \in Int
        /\ low <= high /\ high <= len
        /\ \A a \in Used : /\ a \in Int
                           /\ a < low => keys[a] < key
                           /\ high <= a => key < keys[a]
    BY DEF Probe, Searching, SearchWindow, TypeOK, Used
  <2>2. /\ call' = call /\ key' = key /\ keys' = keys /\ len' = len /\ Used' = Used
    BY DEF Probe, mapVars, Used
  <2>3. CASE keys[Mid] < key /\ low' = Mid + 1 /\ high' = high
    <3>1. ASSUME NEW a \in Used, a < Mid + 1 PROVE keys[a] < key
      <4>1. keys[a] <= keys[Mid] /\ keys[a] \in Int
        BY <3>1, <2>1, <1>1, <1>2, <1>3
      <4> QED BY <4>1, <2>1, <2>3, <1>2
    <3> QED BY <3>1, <2>1, <2>2, <2>3, <1>1 DEF SearchWindow
  <2>4. CASE keys[Mid] > key /\ high' = Mid /\ low' = low
    <3>1. ASSUME NEW a \in Used, Mid <= a PROVE key < keys[a]
      <4>1. keys[Mid] <= keys[a] /\ keys[a] \in Int
        BY <3>1, <2>1, <1>1, <1>2, <1>3
      <4> QED BY <4>1, <2>1, <2>4, <1>2
    <3> QED BY <3>1, <2>1, <2>2, <2>4, <1>1 DEF SearchWindow
  <2> QED BY <2>3, <2>4 DEF Probe, NextLow, NextHigh
<1>7. SetGoesFirst'
  <2> SUFFICES ASSUME call = "set" PROVE SetGoesFirst'
    BY DEF SetGoesFirst, Probe
  <2>1. keys[Mid] > key
    BY <1>1, <1>2, MapConstants DEF SetGoesFirst, TypeOK, MapConstants
  <2>2. high' = Mid /\ i' = Mid /\ d' = keys[Mid] - key /\ d' > 0
    BY <2>1, <1>2 DEF Probe, NextHigh, TypeOK
  <2> QED BY <2>2 DEF SetGoesFirst, Probe, mapVars, Used
<1> QED BY <1>4, <1>5, <1>6, <1>7

(* vfile_close goes on to delete the entry it found, by that entry's fd.    *)
LEMMA CloseHitIInv == ASSUME IInv, CloseHit PROVE IInv'
<1> USE DEF IInv
<1>1. Mid \in Slots
  BY MidInWindow, MapConstants
     DEF CloseHit, Hit, Found, Searching, SearchWindow, Slots, TypeOK, MapConstants
<1>2. vals[Mid].fd \in Int /\ vals[Mid].file \in File
  BY <1>1 DEF TypeOK
<1>3. TypeOK'
  BY <1>2, MapConstants DEF CloseHit, TypeOK, mapVars, Calls, MapConstants
<1>4. KeysSorted' /\ EntryFdIsKey'
  BY DEF CloseHit, KeysSorted, EntryFdIsKey, mapVars, Used
<1>5. SearchWindow' /\ SetGoesFirst'
  BY DEF CloseHit, SearchWindow, SetGoesFirst, mapVars, Used, TypeOK
<1> QED BY <1>3, <1>4, <1>5

(* Moving the rest of both arrays down one slot keeps them sorted.          *)
LEMMA DeleteIInv == ASSUME IInv, Delete PROVE IInv'
<1> USE DEF IInv
<1>1. CASE ~Found
  <2>1. Finish("close", key, NoFile) /\ UNCHANGED mapVars
    BY <1>1 DEF Delete
  <2> QED BY <2>1, AnswerIInv DEF TypeOK, File
<1>2. CASE Found
  <2>1. /\ len' = len - 1 /\ cap' = cap
        /\ keys' = Removed(keys) /\ vals' = Removed(vals)
        /\ Finish("close", key, file)
    BY <1>2 DEF Delete
  <2>2. Mid \in Used /\ Mid \in Int /\ Used \subseteq Slots /\ len \in Nat /\ len <= MaxCap
    <3>1. Searching
      BY <1>2 DEF Found
    <3>2. Mid \in Int /\ low <= Mid /\ Mid < high
      BY <3>1, MidInWindow DEF Searching
    <3>3. low \in Nat /\ high \in Nat /\ high <= len /\ len \in Nat /\ len <= MaxCap
      BY <3>1, MapConstants DEF Searching, SearchWindow, TypeOK, MapConstants
    <3> QED
      BY <3>2, <3>3, MapConstants DEF Used, Slots, MapConstants
  <2>3. keys' \in [Slots -> Int] /\ vals' \in [Slots -> [fd : Int, file : File]]
    <3>1. \A s \in Slots : s < len - 1 => s + 1 \in Slots
      BY <2>2, MapConstants DEF Slots, MapConstants
    <3>2. keys' \in [Slots -> Int]
      BY <2>1, <3>1 DEF Removed, TypeOK
    <3>3. vals' \in [Slots -> [fd : Int, file : File]]
      BY <2>1, <3>1 DEF Removed, TypeOK
    <3> QED BY <3>2, <3>3
  <2>4. TypeOK'
    BY <2>1, <2>2, <2>3, FinishedType, MapConstants DEF TypeOK, Used
  <2> DEFINE From(a) == IF Mid <= a THEN a + 1 ELSE a
  <2>5. \A a \in Used' : /\ From(a) \in Used
                         /\ keys'[a] = keys[From(a)] /\ vals'[a] = vals[From(a)]
    BY <2>1, <2>2 DEF Removed, Used
  <2>6. \A a, b \in Used' : a < b => From(a) < From(b)
    BY <2>2 DEF Used
  <2> HIDE DEF From
  <2>7. KeysSorted' /\ EntryFdIsKey'
    BY <2>5, <2>6 DEF KeysSorted, EntryFdIsKey
  <2> QED BY <2>4, <2>7, <2>1, FinishedIdle
<1> QED BY <1>1, <1>2

(* A pipe file's descriptor enters in front of all the others.              *)
LEMMA SetIInv == ASSUME SafeUse, IInv, Set PROVE IInv'
<1> USE DEF IInv
<1>1. call = "set" /\ key < FdMin
  BY DEF Set, Returning, Hit, Miss, SetGoesFirst
<1>2. ~Found
  <2> SUFFICES ASSUME Found PROVE FALSE
    OBVIOUS
  <2>1. Mid \in Used
    BY <1>1, MidInWindow DEF Found, Searching, SearchWindow, Used, TypeOK
  <2>2. keys[Mid] >= FdMin
    BY <1>1, <2>1 DEF SetGoesFirst
  <2> QED BY <1>1, <2>2, MapConstants DEF Found, TypeOK, MapConstants
<1>3. /\ cap' = GrownCap /\ len' = len + 1
      /\ keys' = Opened(GrownKeys, key)
      /\ vals' = Opened(GrownVals, [fd |-> key, file |-> file])
      /\ Finish("open", key, file) /\ HasRoom /\ ~Searching
  BY <1>2 DEF Set, Returning, Hit, Miss, Found
<1>4. /\ GrownCap \in InitCap..MaxCap /\ len < GrownCap
      /\ GrownKeys \in [Slots -> Int]
      /\ GrownVals \in [Slots -> [fd : Int, file : File]]
      /\ \A a \in Used : GrownKeys[a] = keys[a] /\ GrownVals[a] = vals[a]
  BY <1>3, GrowthKeeps
<1>5. Used \subseteq Slots /\ len \in Slots /\ len \in Nat
  BY <1>4, MapConstants DEF TypeOK, Used, Slots, MapConstants
<1>6. low = high /\ low = 0
  BY <1>1, <1>3, <1>5, MapConstants
     DEF Searching, SearchWindow, SetGoesFirst, Used, TypeOK, MapConstants
<1>7. InsertAt = 0 /\ (d > 0 \/ len = 0) /\ i <= 0 /\ i \in Int
  BY <1>1, <1>6 DEF SetGoesFirst, InsertAt, TypeOK
<1>8. TypeOK'
  <2>1. keys' \in [Slots -> Int]
    BY <1>3, <1>4, <1>5, <1>7, MapConstants DEF Opened, TypeOK, Slots, MapConstants
  <2>2. vals' \in [Slots -> [fd : Int, file : File]]
    BY <1>3, <1>4, <1>5, <1>7, MapConstants DEF Opened, TypeOK, Slots, MapConstants
  <2> QED BY <2>1, <2>2, <1>3, <1>4, <1>5, FinishedType, MapConstants DEF TypeOK
<1>9. keys'[0] = key /\ vals'[0].fd = key /\ 0 \in Used'
  BY <1>3, <1>5, <1>7 DEF Opened, Used, Slots
<1>10. \A a \in Used' : a # 0 => /\ a - 1 \in Used
                                 /\ keys'[a] = keys[a - 1] /\ vals'[a] = vals[a - 1]
  BY <1>3, <1>4, <1>5, <1>7, <1>6, MapConstants DEF Opened, Used, Slots, TypeOK, SetGoesFirst
<1>11. \A a \in Used : key < keys[a] /\ keys[a] \in Int
  BY <1>1, <1>5, MapConstants DEF SetGoesFirst, TypeOK, MapConstants
<1>12. KeysSorted'
  <2> SUFFICES ASSUME NEW a \in Used', NEW b \in Used', a < b
               PROVE  keys'[a] < keys'[b]
    BY DEF KeysSorted
  <2>1. b # 0 /\ a \in Int /\ b \in Int /\ a >= 0
    BY <1>3, <1>5 DEF Used
  <2>2. CASE a = 0
    BY <2>1, <2>2, <1>9, <1>10, <1>11
  <2>3. CASE a # 0
    BY <2>1, <2>3, <1>10 DEF KeysSorted
  <2> QED BY <2>2, <2>3
<1>13. EntryFdIsKey'
  BY <1>9, <1>10 DEF EntryFdIsKey
<1> QED BY <1>8, <1>12, <1>13, <1>3, FinishedIdle

-----------------------------------------------------------------------------
LEMMA NextIInv == ASSUME SafeUse, IInv, [Next]_vars PROVE IInv'
<1> USE DEF IInv
<1>1. CASE UNCHANGED vars
  BY <1>1, StutterIInv
<1>2. CASE BeginLookup
  BY <1>2, BeginIInv, MapConstants DEF BeginLookup, Fds, NoFd, Calls, File, MapConstants
<1>3. CASE BeginClose
  BY <1>3, BeginIInv, MapConstants DEF BeginClose, Fds, NoFd, Calls, File, MapConstants
<1>4. CASE BeginOpenPipe
  <2>1. \A a \in Used : keys[a] >= FdMin
    BY <1>4, NoPipeOpen DEF BeginOpenPipe
  <2>2. PICK k \in HostFds, f \in Files : Begin("set", k, f)
    BY <1>4 DEF BeginOpenPipe
  <2>3. k \in Int /\ k < FdMin
    BY MapConstants DEF MapConstants
  <2> QED BY <2>1, <2>2, <2>3, BeginIInv DEF Calls, File
<1>5. CASE OpenAlloc
  BY <1>5, OpenAllocIInv
<1>6. CASE OpenAllocNoMem \/ SetNoMem
  BY <1>6, AnswerIInv DEF OpenAllocNoMem, SetNoMem, NoMem, NoFd, File
<1>7. CASE Probe
  BY <1>7, ProbeIInv
<1>8. CASE LookupHit
  <2>1. Mid \in Slots
    BY <1>8, MidInWindow, MapConstants
       DEF LookupHit, Hit, Found, Searching, SearchWindow, Slots, TypeOK, MapConstants
  <2>2. key \in Int /\ vals[Mid].file \in File
    BY <2>1 DEF TypeOK
  <2> QED BY <1>8, <2>2, AnswerIInv DEF LookupHit
<1>9. CASE LookupMiss
  BY <1>9, AnswerIInv DEF LookupMiss, TypeOK, File
<1>10. CASE CloseHit
  BY <1>10, CloseHitIInv
<1>11. CASE CloseMiss
  BY <1>11, AnswerIInv DEF CloseMiss, TypeOK, File
<1>12. CASE Delete
  BY <1>12, DeleteIInv
<1>13. CASE Set
  BY <1>13, SetIInv
<1> QED
  BY <1>1, <1>2, <1>3, <1>4, <1>5, <1>6, <1>7, <1>8, <1>9, <1>10, <1>11, <1>12, <1>13
     DEF Next, Run

(* The invariant holds in every reachable state. *)
LEMMA MapInvariant == SafeUse => (Spec => []IInv)
<1> SUFFICES ASSUME SafeUse
             PROVE  Spec => []IInv
  OBVIOUS
<1>1. Init => IInv
  BY InitIInv
<1>2. IInv /\ [Next]_vars => IInv'
  BY NextIInv
<1> QED BY <1>1, <1>2, PTL DEF Spec

(* The map is well-typed, sorted and parallel in every reachable state, for *)
(* every capacity and every set of descriptors and files, as long as one    *)
(* pipe file is open at a time and the heap block is not grown.             *)
THEOREM MapCorrect == SafeUse => (Spec => []MapInv)
<1>1. IInv => MapInv
  BY DEF IInv, MapInv
<1> QED BY MapInvariant, <1>1, PTL

(* Under the same conditions the binary search of get, set and del never    *)
(* excludes the descriptor it looks for, one probe at a time.               *)
THEOREM SearchExact == SafeUse => (Spec => []SearchWindow)
<1>1. IInv => SearchWindow
  BY DEF IInv
<1> QED BY MapInvariant, <1>1, PTL

-----------------------------------------------------------------------------
(***************************************************************************)
(* The map implements the table of descriptors.                            *)
(***************************************************************************)

(* What the calls between the map and its caller carry: descriptors that    *)
(* may be named, and, between the two parts of a close, an open file.       *)
CallInv ==
  /\ \A a \in Used : keys[a] \in Fds
  /\ call # "idle" => key \in Fds
  /\ call = "set" => file \in Files
  /\ call = "del" => \E a \in Used : keys[a] = key /\ vals[a].file = file

TableInv == IInv /\ CallInv

-----------------------------------------------------------------------------
(* The table that n entries of two arrays stand for.                        *)
KeysOf(n, ks) == {ks[s] : s \in 0..(n - 1)}
TableOf(n, ks, vs) ==
  [k \in KeysOf(n, ks) |-> vs[CHOOSE s \in 0..(n - 1) : ks[s] = k].file]

Filled(K, f) == [k \in K |-> f[k]]

Distinct(n, ks) == \A a, b \in 0..(n - 1) : ks[a] = ks[b] => a = b

LEMMA TableAt ==
  ASSUME NEW n, NEW ks, NEW vs, Distinct(n, ks), NEW a \in 0..(n - 1)
  PROVE  ks[a] \in KeysOf(n, ks) /\ TableOf(n, ks, vs)[ks[a]] = vs[a].file
<1>1. (CHOOSE s \in 0..(n - 1) : ks[s] = ks[a]) = a
  BY DEF Distinct
<1>2. ks[a] \in KeysOf(n, ks)
  BY DEF KeysOf
<1> QED
  BY <1>1, <1>2 DEF TableOf

LEMMA TableUnique ==
  ASSUME NEW n, NEW ks, NEW vs, Distinct(n, ks), NEW K, NEW f,
         K = KeysOf(n, ks), \A a \in 0..(n - 1) : f[ks[a]] = vs[a].file
  PROVE  TableOf(n, ks, vs) = Filled(K, f)
<1>1. \A k \in K : TableOf(n, ks, vs)[k] = f[k]
  BY TableAt DEF KeysOf
<1> QED
  BY <1>1 DEF TableOf, Filled

(* The table's domain and values in a state of the map.                     *)
LEMMA TableFacts ==
  ASSUME IInv
  PROVE  /\ Table = TableOf(len, keys, vals) /\ KeySet = KeysOf(len, keys)
         /\ Distinct(len, keys) /\ DOMAIN Table = KeySet
         /\ \A a \in Used : Table[keys[a]] = vals[a].file
<1>1. Table = TableOf(len, keys, vals) /\ KeySet = KeysOf(len, keys)
  BY DEF Table, TableOf, KeySet, KeysOf, SlotOf, Used
<1>2. Distinct(len, keys)
  <2>1. \A a \in Used : a \in Int /\ keys[a] \in Int
    BY MapConstants DEF IInv, TypeOK, Used, Slots, MapConstants
  <2> QED
    BY <2>1 DEF IInv, KeysSorted, Distinct, Used
<1>3. DOMAIN Table = KeySet
  BY <1>1 DEF TableOf
<1>4. \A a \in 0..(len - 1) : TableOf(len, keys, vals)[keys[a]] = vals[a].file
  BY <1>2, TableAt
<1> QED
  BY <1>1, <1>2, <1>3, <1>4, Zenon DEF Used

(* A table is what one open or close makes of another.                      *)
With(T, k, f) == [x \in DOMAIN T \cup {k} |-> IF x = k THEN f ELSE T[x]]
Without(T, k) == [x \in DOMAIN T \ {k} |-> T[x]]

LEMMA TableWith ==
  ASSUME NEW n, NEW ks, NEW vs, Distinct(n, ks), NEW T, NEW key1, NEW file1,
         KeysOf(n, ks) = DOMAIN T \cup {key1},
         \A a \in 0..(n - 1) :
           vs[a].file = IF ks[a] = key1 THEN file1 ELSE T[ks[a]]
  PROVE  TableOf(n, ks, vs) = With(T, key1, file1)
<1> DEFINE f == [x \in DOMAIN T \cup {key1} |-> IF x = key1 THEN file1 ELSE T[x]]
<1>1. \A a \in 0..(n - 1) : ks[a] \in DOMAIN T \cup {key1}
  BY DEF KeysOf
<1>2. \A a \in 0..(n - 1) : f[ks[a]] = vs[a].file
  BY <1>1
<1>3. f = Filled(DOMAIN T \cup {key1}, f)
  BY DEF Filled
<1> HIDE DEF f
<1>4. TableOf(n, ks, vs) = Filled(DOMAIN T \cup {key1}, f)
  BY <1>2, TableUnique
<1> QED
  BY <1>3, <1>4 DEF f, With

LEMMA TableWithout ==
  ASSUME NEW n, NEW ks, NEW vs, Distinct(n, ks), NEW T, NEW key1,
         KeysOf(n, ks) = DOMAIN T \ {key1},
         \A a \in 0..(n - 1) : vs[a].file = T[ks[a]]
  PROVE  TableOf(n, ks, vs) = Without(T, key1)
BY TableUnique DEF Filled, Without

-----------------------------------------------------------------------------
(* Calls that return without touching the map. *)
LEMMA TableKept ==
  ASSUME UNCHANGED mapVars
  PROVE  UNCHANGED Table /\ UNCHANGED KeySet
BY DEF mapVars, Table, KeySet, SlotOf, Used

(* A search that has found the key stands on its entry, and one that ends   *)
(* has seen that there is none.                                             *)
LEMMA FoundEntry ==
  ASSUME IInv, call # "idle"
  PROVE  /\ Found => Mid \in Used /\ keys[Mid] = key
         /\ ~Searching => key \notin KeySet
<1>1. Found => Mid \in Used /\ keys[Mid] = key
  BY MidInWindow DEF IInv, Found, Searching, SearchWindow, Used, TypeOK
<1>2. ASSUME ~Searching, NEW a \in Used, keys[a] = key
      PROVE  FALSE
  <2>1. low = high /\ low \in Int /\ a \in Int
    BY <1>2 DEF IInv, Searching, SearchWindow, TypeOK, Used
  <2>2. keys[a] < key \/ key < keys[a]
    BY <2>1 DEF IInv, SearchWindow
  <2> QED
    BY <1>2, <2>2 DEF IInv, TypeOK
<1> QED
  BY <1>1, <1>2 DEF KeySet

-----------------------------------------------------------------------------
(* What the three calls that change the map do to its arrays.               *)

LEMMA AllocArrays ==
  ASSUME SafeUse, TableInv, OpenAlloc
  PROVE  /\ len \in Nat /\ len' = len + 1
         /\ NextKey \in Fds /\ NextKey \notin KeySet
         /\ keys'[len] = NextKey
         /\ \E f \in Files : /\ vals'[len].file = f
                            /\ answer' = Answer("open", NextKey, f)
         /\ \A a \in Used : keys'[a] = keys[a] /\ vals'[a] = vals[a]
<1> USE DEF TableInv, IInv
<1>1. PICK f \in Files :
        /\ cap' = GrownCap /\ len' = len + 1
        /\ keys' = [GrownKeys EXCEPT ![len] = NextKey]
        /\ vals' = [GrownVals EXCEPT ![len] = [fd |-> NextKey, file |-> f]]
        /\ Finish("open", NextKey, f)
  BY DEF OpenAlloc
<1>2. HasRoom /\ NextKey <= MaxFd
  BY DEF OpenAlloc
<1>3. /\ GrownCap \in InitCap..MaxCap /\ len < GrownCap
      /\ GrownKeys \in [Slots -> Int]
      /\ GrownVals \in [Slots -> [fd : Int, file : File]]
      /\ \A a \in Used : GrownKeys[a] = keys[a] /\ GrownVals[a] = vals[a]
  BY <1>2, GrowthKeeps
<1>4. Used \subseteq Slots /\ len \in Slots /\ len \in Nat
  BY <1>3, MapConstants DEF TypeOK, Used, Slots, MapConstants
<1>5. NextKey \in Int /\ NextKey >= FdMin /\ \A a \in Used : keys[a] < NextKey
  <2>1. CASE len = 0
    BY <2>1, MapConstants DEF NextKey, Used, MapConstants
  <2>2. CASE len # 0
    <3>1. len - 1 \in Used /\ vals[len - 1].fd \in Int
      BY <2>2, <1>4 DEF Used, TypeOK
    <3>2. vals[len - 1].fd = keys[len - 1]
      BY <3>1 DEF EntryFdIsKey
    <3>3. \A a \in Used : keys[a] \in Int /\ keys[a] <= keys[len - 1]
      BY <3>1, <1>4 DEF KeysSorted, Used, TypeOK
    <3>4. NextKey \in Int /\ NextKey > vals[len - 1].fd /\ NextKey >= FdMin
      BY <2>2, <3>1, MapConstants DEF NextKey, MapConstants
    <3> QED
      BY <3>1, <3>2, <3>3, <3>4
  <2> QED
    BY <2>1, <2>2
<1>6. NextKey \in Fds
  BY <1>2, <1>5, MapConstants DEF Fds, MapConstants
<1>7. NextKey \notin KeySet
  BY <1>5 DEF KeySet
<1>8. keys'[len] = NextKey /\ vals'[len].file = f /\ answer' = Answer("open", NextKey, f)
  BY <1>1, <1>3, <1>4 DEF Finish
<1>9. \A a \in Used : a # len /\ keys'[a] = keys[a] /\ vals'[a] = vals[a]
  BY <1>1, <1>3, <1>4 DEF Used
<1> QED
  BY <1>1, <1>4, <1>6, <1>7, <1>8, <1>9

LEMMA SetArrays ==
  ASSUME SafeUse, TableInv, Set
  PROVE  /\ len \in Nat /\ len' = len + 1
         /\ key \notin KeySet /\ answer' = Answer("open", key, file)
         /\ keys'[0] = key /\ vals'[0].file = file
         /\ \A a \in Used : keys'[a + 1] = keys[a] /\ vals'[a + 1] = vals[a]
<1> USE DEF TableInv, IInv
<1>1. call = "set" /\ key < FdMin
  BY DEF Set, Returning, Hit, Miss, SetGoesFirst
<1>2. \A a \in Used : keys[a] \in Int /\ key < keys[a]
  BY <1>1, MapConstants DEF SetGoesFirst, TypeOK, Used, Slots, MapConstants
<1>3. ~Found
  BY <1>1, <1>2, FoundEntry DEF TypeOK
<1>4. /\ cap' = GrownCap /\ len' = len + 1
      /\ keys' = Opened(GrownKeys, key)
      /\ vals' = Opened(GrownVals, [fd |-> key, file |-> file])
      /\ Finish("open", key, file) /\ HasRoom /\ ~Searching
  BY <1>3 DEF Set, Returning, Hit, Miss, Found
<1>5. /\ GrownCap \in InitCap..MaxCap /\ len < GrownCap
      /\ GrownKeys \in [Slots -> Int]
      /\ GrownVals \in [Slots -> [fd : Int, file : File]]
      /\ \A a \in Used : GrownKeys[a] = keys[a] /\ GrownVals[a] = vals[a]
  BY <1>4, GrowthKeeps
<1>6. Used \subseteq Slots /\ len \in Slots /\ len \in Nat
  BY <1>5, MapConstants DEF TypeOK, Used, Slots, MapConstants
<1>7. low = high /\ low = 0
  BY <1>1, <1>4, <1>6, MapConstants
     DEF Searching, SearchWindow, SetGoesFirst, Used, TypeOK, MapConstants
<1>8. InsertAt = 0 /\ (d > 0 \/ len = 0) /\ i <= 0 /\ i \in Int
  BY <1>1, <1>7 DEF SetGoesFirst, InsertAt, TypeOK
<1>9. keys'[0] = key /\ vals'[0].file = file
  <2>1. 0 \in Slots
    BY <1>6, MapConstants DEF Slots, MapConstants
  <2>2. keys'[0] = key /\ vals'[0] = [fd |-> key, file |-> file]
    BY <1>4, <1>8, <2>1 DEF Opened
  <2> QED
    BY <2>2
<1>10. \A a \in Used : a + 1 \in Slots /\ a + 1 # 0 /\ (a + 1) - 1 = a /\ d > 0
                      /\ i < a + 1 /\ a + 1 <= len
  BY <1>6, <1>8, MapConstants DEF Used, Slots, MapConstants
<1>11. \A a \in Used : keys'[a + 1] = keys[a] /\ vals'[a + 1] = vals[a]
  BY <1>4, <1>5, <1>8, <1>10 DEF Opened
<1>12. key \notin KeySet
  BY <1>2 DEF KeySet, TypeOK
<1> QED
  BY <1>4, <1>6, <1>9, <1>11, <1>12 DEF Finish

LEMMA DeleteArrays ==
  ASSUME TableInv, Delete
  PROVE  /\ Mid \in Used /\ keys[Mid] = key /\ vals[Mid].file = file
         /\ len \in Nat /\ Mid \in Nat /\ len' = len - 1
         /\ answer' = Answer("close", key, file)
         /\ \A a \in 0..(len - 2) :
              LET from == IF Mid <= a THEN a + 1 ELSE a
              IN keys'[a] = keys[from] /\ vals'[a] = vals[from]
<1> USE DEF TableInv, IInv
<1>1. call = "del" /\ key \in KeySet
  BY DEF Delete, Returning, Hit, Miss, CallInv, KeySet
<1>2. Found
  BY <1>1, FoundEntry DEF Delete, Returning, Hit, Miss
<1>3. Mid \in Used /\ keys[Mid] = key
  BY <1>1, <1>2, FoundEntry
<1>4. PICK b \in Used : keys[b] = key /\ vals[b].file = file
  BY <1>1 DEF CallInv
<1>5. b = Mid
  BY <1>3, <1>4, TableFacts DEF Distinct, Used
<1>6. /\ len' = len - 1 /\ keys' = Removed(keys) /\ vals' = Removed(vals)
      /\ Finish("close", key, file)
  BY <1>2 DEF Delete
<1>7. len \in Nat /\ Mid \in Nat /\ Used \subseteq Slots
  BY <1>3, MapConstants DEF TypeOK, Used, Slots, MapConstants
<1>8. \A a \in 0..(len - 2) : a \in Slots /\ a < len - 1
  BY <1>7 DEF Used
<1>9. \A a \in 0..(len - 2) :
        LET from == IF Mid <= a THEN a + 1 ELSE a
        IN keys'[a] = keys[from] /\ vals'[a] = vals[from]
  BY <1>6, <1>8 DEF Removed
<1> QED
  BY <1>3, <1>4, <1>5, <1>6, <1>7, <1>9 DEF Finish

-----------------------------------------------------------------------------
(* One step of the map is one step of the table or none.                    *)

LEMMA InitTable == Init => CallInv /\ Abstract!Init
<1> SUFFICES ASSUME Init PROVE CallInv /\ Abstract!Init
  OBVIOUS
<1>1. Used = {} /\ KeySet = {}
  BY DEF Init, Used, KeySet
<1>2. Table = [fd \in {} |-> NoFile]
  BY <1>1 DEF Table
<1> QED
  BY <1>1, <1>2 DEF Init, CallInv, Abstract!Init, Answer, Abstract!Answer

LEMMA SlotsOfEntries ==
  ASSUME MaxCap \in Nat, NEW n \in Nat, n <= MaxCap, NEW ks \in [Slots -> Int]
  PROVE  \A a \in 0..(n - 1) : a \in Int /\ ks[a] \in Int
BY DEF Slots

LEMMA NewTable ==
  ASSUME IInv'
  PROVE  /\ Table' = TableOf(len', keys', vals') /\ Distinct(len', keys')
<1>1. Table' = TableOf(len', keys', vals')
  BY DEF Table, TableOf, KeySet, KeysOf, SlotOf, Used
<1>2. \A a \in 0..(len' - 1) : a \in Int /\ keys'[a] \in Int
  <2>1. len' \in Nat /\ len' <= MaxCap /\ keys' \in [Slots -> Int]
    BY MapConstants DEF IInv, TypeOK, MapConstants
  <2>2. MaxCap \in Nat
    BY MapConstants DEF MapConstants
  <2> QED
    BY <2>1, <2>2, SlotsOfEntries
<1>3. Distinct(len', keys')
  BY <1>2 DEF IInv, KeysSorted, Distinct, Used
<1> QED
  BY <1>1, <1>3

(* A file is opened: some entry is new, the others are those of before.     *)
LEMMA OpenedTable ==
  ASSUME IInv, IInv', NEW k \in Fds, NEW f \in Files, k \notin KeySet,
         NEW new \in Used', keys'[new] = k, vals'[new].file = f,
         \A b \in Used' : b = new \/ \E a \in Used : /\ keys'[b] = keys[a]
                                                    /\ vals'[b] = vals[a],
         \A a \in Used : \E b \in Used' : keys'[b] = keys[a],
         answer' = Answer("open", k, f)
  PROVE  Abstract!Open(k, f)
<1>1. /\ DOMAIN Table = KeySet /\ KeySet = KeysOf(len, keys)
      /\ \A a \in Used : Table[keys[a]] = vals[a].file
  BY TableFacts
<1>2. \A b \in 0..(len' - 1) :
        vals'[b].file = IF keys'[b] = k THEN f ELSE Table[keys'[b]]
  <2> TAKE b \in 0..(len' - 1)
  <2>1. CASE b = new
    BY <2>1
  <2>2. CASE b # new
    <3>1. PICK a \in Used : keys'[b] = keys[a] /\ vals'[b] = vals[a]
      BY <2>2 DEF Used
    <3>2. keys[a] # k
      BY DEF KeySet
    <3> QED
      BY <1>1, <3>1, <3>2
  <2> QED
    BY <2>1, <2>2
<1>3. KeysOf(len', keys') = DOMAIN Table \cup {k}
  <2>1. \A x \in KeysOf(len', keys') : x \in KeySet \cup {k}
    BY DEF KeysOf, KeySet, Used
  <2>2. \A x \in KeySet : x \in KeysOf(len', keys')
    BY DEF KeysOf, KeySet, Used
  <2>3. k \in KeysOf(len', keys')
    BY DEF KeysOf, Used
  <2> QED
    BY <1>1, <2>1, <2>2, <2>3
<1>4. Table' = [x \in DOMAIN Table \cup {k} |-> IF x = k THEN f ELSE Table[x]]
  <2> DEFINE T == Table
  <2>1. /\ KeysOf(len', keys') = DOMAIN T \cup {k}
        /\ \A b \in 0..(len' - 1) :
             vals'[b].file = IF keys'[b] = k THEN f ELSE T[keys'[b]]
    BY <1>2, <1>3
  <2> DEFINE n == len'
             ks == keys'
             vs == vals'
  <2>2. /\ Distinct(n, ks) /\ KeysOf(n, ks) = DOMAIN T \cup {k}
        /\ \A b \in 0..(n - 1) : vs[b].file = IF ks[b] = k THEN f ELSE T[ks[b]]
    BY <2>1, NewTable
  <2> HIDE DEF T, n, ks, vs
  <2>3. TableOf(n, ks, vs) = With(T, k, f)
    BY <2>2, TableWith
  <2> QED
    BY <2>3, NewTable DEF T, n, ks, vs, With
<1> QED
  BY <1>1, <1>4 DEF Abstract!Open, Answer, Abstract!Answer

LEMMA AllocTable ==
  ASSUME SafeUse, TableInv, IInv', OpenAlloc
  PROVE  CallInv' /\ Abstract!Next
<1>1. PICK f \in Files : vals'[len].file = f /\ answer' = Answer("open", NextKey, f)
  BY AllocArrays
<1>2. /\ len \in Nat /\ len' = len + 1
      /\ NextKey \in Fds /\ NextKey \notin KeySet /\ keys'[len] = NextKey
      /\ \A a \in Used : keys'[a] = keys[a] /\ vals'[a] = vals[a]
  BY AllocArrays
<1>3. len \in Used' /\ Used \subseteq Used' /\ \A b \in Used' : b = len \/ b \in Used
  BY <1>2 DEF Used
<1>4. Abstract!Open(NextKey, f)
  <2>1. IInv
    BY DEF TableInv
  <2> QED
    BY <1>1, <1>2, <1>3, <2>1, OpenedTable
<1>5. call' = "idle"
  BY DEF OpenAlloc, Finish
<1>6. CallInv'
  BY <1>2, <1>3, <1>5 DEF CallInv, TableInv, Fds
<1> QED
  BY <1>2, <1>4, <1>6 DEF Abstract!Next

LEMMA SetTable ==
  ASSUME SafeUse, TableInv, IInv', Set
  PROVE  CallInv' /\ Abstract!Next
<1>1. /\ len \in Nat /\ len' = len + 1
      /\ key \notin KeySet /\ answer' = Answer("open", key, file)
      /\ keys'[0] = key /\ vals'[0].file = file
      /\ \A a \in Used : keys'[a + 1] = keys[a] /\ vals'[a + 1] = vals[a]
  BY SetArrays
<1>2. 0 \in Used' /\ \A a \in Used : a + 1 \in Used'
  BY <1>1 DEF Used
<1>3. \A b \in Used' : b # 0 => b - 1 \in Used /\ (b - 1) + 1 = b
  BY <1>1 DEF Used
<1>4. \A b \in Used' : \/ b = 0
                       \/ \E a \in Used : keys'[b] = keys[a] /\ vals'[b] = vals[a]
  BY <1>1, <1>3
<1>5. \A a \in Used : \E b \in Used' : keys'[b] = keys[a]
  BY <1>1, <1>2
<1>6. call = "set" /\ key \in Fds /\ file \in Files /\ IInv
  BY DEF Set, Returning, Hit, Miss, TableInv, CallInv
<1>7. Abstract!Open(key, file)
  BY <1>1, <1>2, <1>4, <1>5, <1>6, OpenedTable
<1>8. call' = "idle"
  BY DEF Set, Finish
<1>9. \A b \in Used' : keys'[b] \in Fds
  BY <1>1, <1>4, <1>6 DEF TableInv, CallInv
<1>10. CallInv'
  BY <1>8, <1>9 DEF CallInv, Fds
<1> QED
  BY <1>6, <1>7, <1>10 DEF Abstract!Next

LEMMA DeleteTable ==
  ASSUME TableInv, IInv', Delete
  PROVE  CallInv' /\ Abstract!Next
<1> DEFINE From(a) == IF Mid <= a THEN a + 1 ELSE a
<1>1. /\ Mid \in Used /\ keys[Mid] = key /\ vals[Mid].file = file
      /\ len \in Nat /\ Mid \in Nat /\ len' = len - 1
      /\ answer' = Answer("close", key, file)
      /\ \A a \in 0..(len - 2) : keys'[a] = keys[From(a)] /\ vals'[a] = vals[From(a)]
  BY DeleteArrays
<1>2. \A a \in Used' : From(a) \in Used /\ From(a) # Mid /\ a \in 0..(len - 2)
  BY <1>1 DEF Used
<1>3. \A b \in Used : b = Mid \/ \E a \in Used' : From(a) = b
  <2> TAKE b \in Used
  <2>1. CASE b < Mid
    BY <1>1, <2>1 DEF Used
  <2>2. CASE b > Mid
    <3>1. b - 1 \in Used' /\ Mid <= b - 1 /\ (b - 1) + 1 = b
      BY <1>1, <2>2 DEF Used
    <3> QED
      BY <3>1
  <2> QED
    BY <1>1, <2>1, <2>2 DEF Used
<1> HIDE DEF From
<1>4. \A a \in Used' : keys'[a] = keys[From(a)] /\ vals'[a] = vals[From(a)]
  BY <1>1, <1>2
<1>5. /\ DOMAIN Table = KeySet /\ KeySet = KeysOf(len, keys) /\ Distinct(len, keys)
      /\ \A a \in Used : Table[keys[a]] = vals[a].file
  BY TableFacts DEF TableInv
<1>6. \A a \in Used' : keys'[a] # key
  BY <1>1, <1>2, <1>4, <1>5 DEF Distinct, Used
<1>7. KeysOf(len', keys') = DOMAIN Table \ {key}
  <2>1. \A x \in KeysOf(len', keys') : x \in KeySet /\ x # key
    BY <1>2, <1>4, <1>6 DEF KeysOf, KeySet, Used
  <2>2. \A x \in KeySet : x = key \/ x \in KeysOf(len', keys')
    BY <1>1, <1>3, <1>4 DEF KeysOf, KeySet, Used
  <2> QED
    BY <1>5, <2>1, <2>2
<1>8. Table' = [x \in DOMAIN Table \ {key} |-> Table[x]]
  <2> DEFINE T == Table
  <2>1. KeysOf(len', keys') = DOMAIN T \ {key}
    BY <1>7
  <2>2. \A a \in 0..(len' - 1) : vals'[a].file = T[keys'[a]]
    BY <1>2, <1>4, <1>5 DEF Used
  <2> DEFINE n == len'
             ks == keys'
             vs == vals'
  <2>3. /\ Distinct(n, ks) /\ KeysOf(n, ks) = DOMAIN T \ {key}
        /\ \A a \in 0..(n - 1) : vs[a].file = T[ks[a]]
    BY <2>1, <2>2, NewTable
  <2> HIDE DEF T, n, ks, vs
  <2>4. TableOf(n, ks, vs) = Without(T, key)
    BY <2>3, TableWithout
  <2> QED
    BY <2>4, NewTable DEF T, n, ks, vs, Without
<1>9. Abstract!At(key) = file
  BY <1>1, <1>5 DEF Abstract!At, KeySet
<1>10. call = "del" /\ key \in Fds /\ call' = "idle"
  BY DEF Delete, Returning, Hit, Miss, TableInv, CallInv, Finish
<1>11. \A a \in Used' : keys'[a] \in Fds
  BY <1>2, <1>4 DEF TableInv, CallInv
<1>12. CallInv'
  BY <1>10, <1>11 DEF CallInv, Fds
<1>13. Abstract!Close(key)
  BY <1>1, <1>8, <1>9 DEF Abstract!Close, Answer, Abstract!Answer
<1> QED
  BY <1>10, <1>12, <1>13 DEF Abstract!Next

-----------------------------------------------------------------------------
(* The steps that leave the table alone. *)

LEMMA KeptStep ==
  ASSUME CallInv, UNCHANGED <<mapVars, answer>>,
         call' # "idle" => key' \in Fds,
         call' = "set" => file' \in Files,
         call' = "del" => \E a \in Used : keys[a] = key' /\ vals[a].file = file'
  PROVE  CallInv' /\ UNCHANGED Abstract!tvars
<1>1. Used' = Used /\ keys' = keys /\ vals' = vals
  BY DEF mapVars, Used
<1>2. CallInv'
  BY <1>1 DEF CallInv
<1>3. UNCHANGED Table /\ UNCHANGED answer
  BY TableKept
<1> QED
  BY <1>2, <1>3 DEF Abstract!tvars

LEMMA AnsweredStep ==
  ASSUME CallInv, UNCHANGED mapVars, call' = "idle"
  PROVE  CallInv' /\ Table' = Table
<1>1. Used' = Used /\ keys' = keys
  BY DEF mapVars, Used
<1> QED
  BY <1>1, TableKept DEF CallInv

LEMMA CloseHitKeeps ==
  ASSUME TableInv, CloseHit
  PROVE  CallInv' /\ UNCHANGED Abstract!tvars
<1>1. Mid \in Used /\ keys[Mid] = key
  BY FoundEntry DEF TableInv, CloseHit, Hit, Found, Searching
<1>2. key' = keys[Mid] /\ file' = vals[Mid].file /\ call' = "del"
  BY <1>1 DEF CloseHit, TableInv, IInv, EntryFdIsKey
<1>3. key' \in Fds /\ \E a \in Used : keys[a] = key' /\ vals[a].file = file'
  BY <1>1, <1>2 DEF TableInv, CallInv
<1>4. UNCHANGED <<mapVars, answer>>
  BY DEF CloseHit
<1> QED
  BY <1>2, <1>3, <1>4, KeptStep DEF TableInv

LEMMA LookupTable ==
  ASSUME TableInv, LookupHit \/ LookupMiss
  PROVE  CallInv' /\ Abstract!Next
<1>1. CallInv' /\ Table' = Table
  BY AnsweredStep DEF TableInv, LookupHit, LookupMiss, Finish
<1>2. key \in Fds /\ call = "lookup"
  BY DEF TableInv, CallInv, LookupHit, LookupMiss, Hit, Miss
<1>3. answer' = Answer("lookup", key, Abstract!At(key))
  <2>1. CASE LookupHit
    <3>1. Mid \in Used /\ keys[Mid] = key
      BY <2>1, <1>2, FoundEntry DEF TableInv, LookupHit, Hit
    <3>2. key \in DOMAIN Table /\ Table[key] = vals[Mid].file
      BY <3>1, TableFacts DEF TableInv, KeySet
    <3> QED
      BY <2>1, <3>2 DEF LookupHit, Finish, Abstract!At
  <2>2. CASE LookupMiss
    <3>1. key \notin DOMAIN Table
      BY <2>2, <1>2, FoundEntry, TableFacts DEF TableInv, LookupMiss, Miss
    <3> QED
      BY <2>2, <3>1 DEF LookupMiss, Finish, Abstract!At
  <2> QED
    BY <2>1, <2>2
<1>4. Abstract!Lookup(key)
  BY <1>1, <1>3 DEF Abstract!Lookup, Answer, Abstract!Answer
<1> QED
  BY <1>1, <1>2, <1>4 DEF Abstract!Next

(* Closing what the map does not hold changes nothing and reports no file.  *)
LEMMA CloseMissTable ==
  ASSUME TableInv, CloseMiss
  PROVE  CallInv' /\ Abstract!Next
<1>1. CallInv' /\ Table' = Table
  BY AnsweredStep DEF TableInv, CloseMiss, Finish
<1>2. key \in Fds /\ key \notin DOMAIN Table
  BY FoundEntry, TableFacts DEF TableInv, CallInv, CloseMiss, Miss
<1>3. Table = [x \in DOMAIN Table \ {key} |-> Table[x]]
  <2>1. DOMAIN Table \ {key} = DOMAIN Table
    BY <1>2
  <2>2. Table = [x \in DOMAIN Table |-> Table[x]]
    BY DEF Table
  <2> QED
    BY <2>1, <2>2
<1>4. answer' = Answer("close", key, Abstract!At(key))
  BY <1>2 DEF CloseMiss, Finish, Abstract!At
<1>5. Abstract!Close(key)
  BY <1>1, <1>3, <1>4 DEF Abstract!Close, Answer, Abstract!Answer
<1> QED
  BY <1>1, <1>2, <1>5 DEF Abstract!Next

LEMMA NoMemTable ==
  ASSUME TableInv, NoMem
  PROVE  CallInv' /\ Abstract!Next
<1>1. CallInv' /\ Table' = Table
  BY AnsweredStep DEF TableInv, NoMem, Finish
<1>2. Abstract!OpenFails
  BY <1>1 DEF NoMem, Finish, Abstract!OpenFails, Answer, Abstract!Answer
<1> QED
  BY <1>1, <1>2 DEF Abstract!Next

LEMMA BeginKeeps ==
  ASSUME TableInv, NEW c \in {"lookup", "close", "set"}, NEW k \in Fds,
         NEW f, Begin(c, k, f), c = "set" => f \in Files
  PROVE  CallInv' /\ UNCHANGED Abstract!tvars
BY KeptStep DEF Begin, TableInv

LEMMA TableStep ==
  ASSUME SafeUse, TableInv, [Next]_vars
  PROVE  CallInv' /\ [Abstract!Next]_(Abstract!tvars)
<1>1. IInv'
  BY NextIInv DEF TableInv
<1>2. CASE UNCHANGED vars
  BY <1>2, KeptStep DEF vars, TableInv, CallInv
<1>3. CASE BeginLookup \/ BeginClose
  BY <1>3, BeginKeeps DEF BeginLookup, BeginClose
<1>4. CASE BeginOpenPipe
  BY <1>4, BeginKeeps DEF BeginOpenPipe, Fds
<1>5. CASE OpenAlloc
  BY <1>1, <1>5, AllocTable
<1>6. CASE OpenAllocNoMem \/ SetNoMem
  BY <1>6, NoMemTable DEF OpenAllocNoMem, SetNoMem
<1>7. CASE Probe
  <2>1. call' = call /\ key' = key /\ file' = file /\ UNCHANGED <<mapVars, answer>>
    BY <1>7 DEF Probe
  <2> QED
    BY <2>1, KeptStep DEF TableInv, CallInv
<1>8. CASE LookupHit \/ LookupMiss
  BY <1>8, LookupTable
<1>9. CASE CloseHit
  BY <1>9, CloseHitKeeps
<1>10. CASE CloseMiss
  BY <1>10, CloseMissTable
<1>11. CASE Delete
  BY <1>1, <1>11, DeleteTable
<1>12. CASE Set
  BY <1>1, <1>12, SetTable
<1> QED
  BY <1>2, <1>3, <1>4, <1>5, <1>6, <1>7, <1>8, <1>9, <1>10, <1>11, <1>12
     DEF Next, Run

(* Within SafeUse the arrays implement the descriptor table, for every      *)
(* capacity and every set of descriptors and files: a lookup answers with   *)
(* the file that was opened under the descriptor, an open and a close each  *)
(* change the one entry they name (vfile.c:65-172, 248-301).                *)
THEOREM MapImplements ==
  SafeUse => (Spec => ImplementsFdTable)
<1> SUFFICES ASSUME SafeUse
             PROVE  Spec => ImplementsFdTable
  OBVIOUS
<1>1. Init => TableInv /\ Abstract!Init
  BY InitIInv, InitTable DEF TableInv
<1>2. TableInv /\ [Next]_vars => TableInv' /\ [Abstract!Next]_(Abstract!tvars)
  BY NextIInv, TableStep DEF TableInv
<1> QED
  BY <1>1, <1>2, PTL DEF Spec, ImplementsFdTable, Abstract!Spec
=============================================================================
