-------------------------- MODULE SyscallsProofs --------------------------
(***************************************************************************)
(* The system calls of the native backend, for any number of descriptors,  *)
(* entries, objects and ioring contexts: the tables agree with the host    *)
(* and with each other, and every open virtual file owns what is behind it *)
(* as long as no device and no surface has failed to open.                 *)
(***************************************************************************)
EXTENDS Syscalls, FiniteSetTheorems, WellFoundedInduction, TLAPS

-----------------------------------------------------------------------------
(* The first and the last of a set of numbers. *)

(* A set of positions that is not empty has a last one.                     *)
LEMMA LastOf ==
  ASSUME NEW n \in Nat, NEW S, S \subseteq 1..n, S # {}
  PROVE  \E k \in S : \A j \in S : j <= k
<1> DEFINE T == {n - k : k \in S}
<1>1. T \subseteq Nat /\ T # {}
  <2>1. PICK k \in S : k \in 1..n
    OBVIOUS
  <2>2. n - k \in T
    OBVIOUS
  <2>3. T \subseteq Nat
    OBVIOUS
  <2> QED
    BY <2>2, <2>3
<1>2. PICK x \in T : \A y \in T : ~(<<y, x>> \in OpToRel(<, Nat))
  BY <1>1, WFMin, NatLessThanWellFounded
<1>3. \A y \in T : ~(y < x)
  BY <1>1, <1>2 DEF OpToRel
<1>4. PICK k \in S : x = n - k
  BY <1>2
<1>5. \A j \in S : n - j \in T
  OBVIOUS
<1>6. \A j \in S : ~(n - j < n - k)
  BY <1>3, <1>4, <1>5
<1> HIDE DEF T
<1> QED
  BY <1>4, <1>6

LEMMA LastIs ==
  ASSUME NEW n \in Nat, NEW S, S \subseteq 0..n, S # {}
  PROVE  Max(S) \in S /\ \A k \in S : k <= Max(S)
<1> DEFINE T == {k + 1 : k \in S}
<1>1. T \subseteq 1..(n + 1) /\ T # {} /\ n + 1 \in Nat
  <2>1. T \subseteq 1..(n + 1)
    OBVIOUS
  <2>2. PICK k \in S : TRUE
    OBVIOUS
  <2>3. k + 1 \in T
    OBVIOUS
  <2> QED
    BY <2>1, <2>3
<1>2. PICK l \in T : \A j \in T : j <= l
  <2> HIDE DEF T
  <2> QED
    BY <1>1, LastOf
<1>3. PICK k \in S : l = k + 1
  BY <1>2
<1>4. \A j \in S : j + 1 \in T
  OBVIOUS
<1>5. \A j \in S : k >= j
  <2> TAKE j \in S
  <2>1. j + 1 <= k + 1 /\ j \in Nat /\ k \in Nat
    BY <1>2, <1>3, <1>4
  <2> QED
    BY <2>1
<1>6. Max(S) \in S /\ \A j \in S : Max(S) >= j
  BY <1>5 DEF Max
<1> QED
  BY <1>6

LEMMA FirstIs ==
  ASSUME NEW n \in Nat, NEW S, S \subseteq 0..n, S # {}
  PROVE  Min(S) \in S
<1> DEFINE T == {n - k : k \in S}
<1>1. T \subseteq 0..n /\ T # {}
  <2>1. T \subseteq 0..n
    OBVIOUS
  <2>2. PICK k \in S : TRUE
    OBVIOUS
  <2>3. n - k \in T
    OBVIOUS
  <2> QED
    BY <2>1, <2>3
<1>2. PICK l \in T : \A j \in T : j <= l
  <2> HIDE DEF T
  <2> QED
    BY <1>1, LastIs
<1>3. PICK k \in S : l = n - k
  BY <1>2
<1>4. \A j \in S : n - j \in T
  OBVIOUS
<1>5. \A j \in S : n - j <= l
  BY <1>2, <1>4
<1> HIDE DEF T
<1>6. \A j \in S : k <= j
  BY <1>3, <1>5
<1> QED
  BY <1>6 DEF Min

LEMMA Larger ==
  ASSUME NEW a \in Int, NEW b \in Int
  PROVE  Max({a, b}) \in {a, b} /\ Max({a, b}) >= a /\ Max({a, b}) >= b
<1>1. \E x \in {a, b} : \A y \in {a, b} : x >= y
  OBVIOUS
<1>2. Max({a, b}) \in {a, b} /\ \A y \in {a, b} : Max({a, b}) >= y
  BY <1>1 DEF Max
<1> QED
  BY <1>2

-----------------------------------------------------------------------------
(* Entries of a map. *)

Open(m) == 0..(m.len - 1)

MapType(m) ==
  /\ m.len \in 0..Cap
  /\ m.at \in [Slots -> [fd : {0} \cup HostFds \cup VFds,
                         type : Types \cup {"none"}, data : Data]]
  /\ \A s \in Open(m) : m.at[s].fd \in HostFds \cup VFds /\ m.at[s].type \in Types

Backed(m, h) == \A s \in Open(m) : m.at[s].fd < FdMin => h[m.at[s].fd] = "pipe"

ValidIn(e, hp, used) ==
  IF e.type = "ring" THEN e.data \in used ELSE e.data \in Objs /\ hp[e.data] = e.type

OwnedIn(m, hp, used) ==
  /\ \A s \in Open(m) : ValidIn(m.at[s], hp, used)
  /\ \A s, t \in Open(m) : s # t => m.at[s].data # m.at[t].data
  /\ \A o \in Objs : hp[o] # "free" => \E s \in Open(m) : m.at[s].data = o
  /\ \A c \in used : \E s \in Open(m) : m.at[s].data = c

(* n is m with an entry e at p; so m is n without its entry at p.           *)
Inserted(m, n, p, e) ==
  /\ m.len \in Nat /\ p \in 0..m.len /\ n.len = m.len + 1
  /\ n.at[p] = e
  /\ \A s \in 0..(p - 1) : n.at[s] = m.at[s]
  /\ \A s \in p..(m.len - 1) : n.at[s + 1] = m.at[s]

LEMMA Shifted ==
  ASSUME NEW m, NEW n, NEW p, NEW e, Inserted(m, n, p, e)
  PROVE  /\ p \in Open(n)
         /\ \A s \in Open(n) : s # p =>
              /\ s < p => s \in Open(m) /\ n.at[s] = m.at[s]
              /\ s > p => s - 1 \in Open(m) /\ n.at[s] = m.at[s - 1]
         /\ \A s \in Open(m) :
              /\ s < p => s \in Open(n) /\ n.at[s] = m.at[s]
              /\ s >= p => s + 1 \in Open(n) /\ n.at[s + 1] = m.at[s]
<1>1. m.len \in Nat /\ p \in Nat /\ p <= m.len /\ n.len = m.len + 1
  BY DEF Inserted
<1>2. p \in Open(n)
  BY <1>1 DEF Open
<1>3. ASSUME NEW s \in Open(n), s # p
      PROVE  /\ s < p => s \in Open(m) /\ n.at[s] = m.at[s]
             /\ s > p => s - 1 \in Open(m) /\ n.at[s] = m.at[s - 1]
  <2>1. s \in Nat /\ s <= m.len
    BY <1>1 DEF Open
  <2>2. s < p => s \in 0..(p - 1) /\ s \in Open(m)
    BY <1>1, <2>1 DEF Open
  <2>3. s > p => s - 1 \in p..(m.len - 1) /\ s - 1 \in Open(m) /\ (s - 1) + 1 = s
    BY <1>1, <2>1 DEF Open
  <2> QED
    BY <2>2, <2>3 DEF Inserted
<1>4. ASSUME NEW s \in Open(m)
      PROVE  /\ s < p => s \in Open(n) /\ n.at[s] = m.at[s]
             /\ s >= p => s + 1 \in Open(n) /\ n.at[s + 1] = m.at[s]
  <2>1. s \in Nat /\ s < m.len
    BY <1>1 DEF Open
  <2>2. s < p => s \in 0..(p - 1) /\ s \in Open(n)
    BY <1>1, <2>1 DEF Open
  <2>3. s >= p => s \in p..(m.len - 1) /\ s + 1 \in Open(n)
    BY <1>1, <2>1 DEF Open
  <2> QED
    BY <2>2, <2>3 DEF Inserted
<1> QED
  BY <1>2, <1>3, <1>4

(* The other entries: what they are in one map they are in the other.       *)
LEMMA Others ==
  ASSUME NEW m, NEW n, NEW p, NEW e, Inserted(m, n, p, e)
  PROVE  /\ p \in Open(n) /\ n.at[p] = e
         /\ \A s \in Open(n) : s # p => \E t \in Open(m) : n.at[s] = m.at[t]
         /\ \A s, t \in Open(n) : s # t /\ s # p /\ t # p =>
              \E i, j \in Open(m) : i # j /\ n.at[s] = m.at[i] /\ n.at[t] = m.at[j]
         /\ \A s \in Open(m) : \E t \in Open(n) : t # p /\ n.at[t] = m.at[s]
         /\ \A s, t \in Open(m) : s # t =>
              \E i, j \in Open(n) : /\ i # j /\ i # p /\ j # p
                                    /\ n.at[i] = m.at[s] /\ n.at[j] = m.at[t]
<1> DEFINE D(s) == IF s < p THEN s ELSE s - 1
           U(s) == IF s < p THEN s ELSE s + 1
<1>0. p \in Int /\ (\A s \in Open(m) : s \in Int) /\ (\A s \in Open(n) : s \in Int)
  BY DEF Inserted, Open
<1>1. p \in Open(n) /\ n.at[p] = e
  BY Shifted DEF Inserted
<1>2. \A s \in Open(n) : s # p => D(s) \in Open(m) /\ n.at[s] = m.at[D(s)]
  <2> TAKE s \in Open(n)
  <2> HAVE s # p
  <2>1. s < p \/ s > p
    BY <1>0
  <2>2. s > p => ~(s < p)
    BY <1>0
  <2> QED
    BY <2>1, <2>2, Shifted
<1>3. \A s, t \in Open(n) : s # t /\ s # p /\ t # p => D(s) # D(t)
  BY <1>0
<1>4. \A s \in Open(m) : U(s) \in Open(n) /\ U(s) # p /\ n.at[U(s)] = m.at[s]
  <2> TAKE s \in Open(m)
  <2>1. CASE s < p
    BY <1>0, <2>1, Shifted
  <2>2. CASE s >= p
    <3>1. ~(s < p) /\ s + 1 # p
      BY <1>0, <2>2
    <3> QED
      BY <2>2, <3>1, Shifted
  <2> QED
    BY <1>0, <2>1, <2>2
<1>5. \A s, t \in Open(m) : s # t => U(s) # U(t)
  BY <1>0
<1> HIDE DEF D, U
<1> QED
  BY <1>1, <1>2, <1>3, <1>4, <1>5

LEMMA InsertOwned ==
  ASSUME NEW m, NEW n, NEW p, NEW e, NEW hp, NEW used, NEW hp2, NEW used2,
         Inserted(m, n, p, e), OwnedIn(m, hp, used),
         ValidIn(e, hp2, used2),
         \A s \in Open(m) : m.at[s].data # e.data,
         \A d : d # e.data => /\ d \in used2 <=> d \in used
                              /\ d \in Objs => hp2[d] = hp[d]
  PROVE  OwnedIn(n, hp2, used2)
<1>1. \A s \in Open(n) : ValidIn(n.at[s], hp2, used2)
  <2> TAKE s \in Open(n)
  <2>1. CASE s = p
    BY <2>1, Others
  <2>2. CASE s # p
    <3>1. PICK t \in Open(m) : n.at[s] = m.at[t]
      BY <2>2, Others
    <3>2. ValidIn(m.at[t], hp, used) /\ m.at[t].data # e.data
      BY DEF OwnedIn
    <3> QED
      BY <3>1, <3>2 DEF ValidIn
  <2> QED
    BY <2>1, <2>2
<1>2. \A s, t \in Open(n) : s # t => n.at[s].data # n.at[t].data
  <2> TAKE s, t \in Open(n)
  <2> HAVE s # t
  <2>1. CASE s = p
    <3>1. PICK j \in Open(m) : n.at[t] = m.at[j]
      BY <2>1, Others
    <3> QED
      BY <2>1, <3>1, Others
  <2>2. CASE t = p
    <3>1. PICK j \in Open(m) : n.at[s] = m.at[j]
      BY <2>2, Others
    <3> QED
      BY <2>2, <3>1, Others
  <2>3. CASE s # p /\ t # p
    <3>1. PICK i, j \in Open(m) : i # j /\ n.at[s] = m.at[i] /\ n.at[t] = m.at[j]
      BY <2>3, Others
    <3> QED
      BY <3>1 DEF OwnedIn
  <2> QED
    BY <2>1, <2>2, <2>3
<1>3. \A o \in Objs : hp2[o] # "free" => \E s \in Open(n) : n.at[s].data = o
  <2> TAKE o \in Objs
  <2> HAVE hp2[o] # "free"
  <2>1. CASE o = e.data
    BY <2>1, Others
  <2>2. CASE o # e.data
    <3>1. PICK s \in Open(m) : m.at[s].data = o
      BY <2>2 DEF OwnedIn
    <3> QED
      BY <3>1, Others
  <2> QED
    BY <2>1, <2>2
<1>4. \A c \in used2 : \E s \in Open(n) : n.at[s].data = c
  <2> TAKE c \in used2
  <2>1. CASE c = e.data
    BY <2>1, Others
  <2>2. CASE c # e.data
    <3>1. PICK s \in Open(m) : m.at[s].data = c
      BY <2>2 DEF OwnedIn
    <3> QED
      BY <3>1, Others
  <2> QED
    BY <2>1, <2>2
<1> QED
  BY <1>1, <1>2, <1>3, <1>4 DEF OwnedIn

LEMMA RemoveOwned ==
  ASSUME NEW m, NEW n, NEW p, NEW e, NEW hp, NEW used, NEW hp2, NEW used2,
         Inserted(m, n, p, e), OwnedIn(n, hp, used),
         e.data \notin used2, e.data \in Objs => hp2[e.data] = "free",
         \A d : d # e.data => /\ d \in used2 <=> d \in used
                              /\ d \in Objs => hp2[d] = hp[d]
  PROVE  OwnedIn(m, hp2, used2)
<1>0. \A s \in Open(n) : s # p => n.at[s].data # e.data
  BY Others DEF OwnedIn
<1>1. \A s \in Open(m) : ValidIn(m.at[s], hp2, used2)
  <2> TAKE s \in Open(m)
  <2>1. PICK t \in Open(n) : t # p /\ n.at[t] = m.at[s]
    BY Others
  <2>2. ValidIn(n.at[t], hp, used) /\ n.at[t].data # e.data
    BY <1>0, <2>1 DEF OwnedIn
  <2> QED
    BY <2>1, <2>2 DEF ValidIn
<1>2. \A s, t \in Open(m) : s # t => m.at[s].data # m.at[t].data
  <2> TAKE s, t \in Open(m)
  <2> HAVE s # t
  <2>1. PICK i, j \in Open(n) : i # j /\ n.at[i] = m.at[s] /\ n.at[j] = m.at[t]
    BY Others
  <2> QED
    BY <2>1 DEF OwnedIn
<1>3. \A d : (\E s \in Open(n) : n.at[s].data = d) /\ d # e.data
               => \E s \in Open(m) : m.at[s].data = d
  <2> SUFFICES ASSUME NEW d, NEW s \in Open(n), n.at[s].data = d, d # e.data
               PROVE  \E t \in Open(m) : m.at[t].data = d
    OBVIOUS
  <2>1. s # p
    BY Others
  <2> QED
    BY <2>1, Others
<1>4. \A o \in Objs : hp2[o] # "free" => \E s \in Open(m) : m.at[s].data = o
  <2> TAKE o \in Objs
  <2> HAVE hp2[o] # "free"
  <2>1. o # e.data /\ hp[o] # "free"
    OBVIOUS
  <2> QED
    BY <1>3, <2>1 DEF OwnedIn
<1>5. \A c \in used2 : \E s \in Open(m) : m.at[s].data = c
  <2> TAKE c \in used2
  <2>1. c # e.data /\ c \in used
    OBVIOUS
  <2> QED
    BY <1>3, <2>1 DEF OwnedIn
<1> QED
  BY <1>1, <1>2, <1>4, <1>5 DEF OwnedIn

(* A map with one entry more or less. *)
LEMMA InsertBacked ==
  ASSUME NEW m, NEW n, NEW p, NEW e, NEW h, NEW h2,
         Inserted(m, n, p, e), Backed(m, h),
         e.fd < FdMin => h2[e.fd] = "pipe",
         \A s \in Open(m) : m.at[s].fd < FdMin => h2[m.at[s].fd] = h[m.at[s].fd]
  PROVE  Backed(n, h2)
<1> SUFFICES ASSUME NEW s \in Open(n), n.at[s].fd < FdMin
             PROVE  h2[n.at[s].fd] = "pipe"
  BY DEF Backed
<1>1. CASE s = p
  BY <1>1, Others
<1>2. CASE s # p
  <2>1. PICK t \in Open(m) : n.at[s] = m.at[t]
    BY <1>2, Others
  <2> QED
    BY <2>1 DEF Backed
<1> QED
  BY <1>1, <1>2

LEMMA RemoveBacked ==
  ASSUME NEW m, NEW n, NEW p, NEW e, NEW h, Inserted(m, n, p, e), Backed(n, h)
  PROVE  Backed(m, h)
BY Others DEF Backed

-----------------------------------------------------------------------------
(* What the map operations do. *)

LEMMA Constants ==
  /\ HostMax \in Nat /\ FdMin \in Nat /\ MaxFd \in Nat /\ Cap \in Nat \ {0} /\ NRings \in Nat \ {0}
  /\ \A fd \in HostFds : fd \in Nat /\ fd < FdMin
  /\ \A fd \in VFds : fd \in Nat /\ ~(fd < FdMin)
  /\ Objs \cap RingSlots = {} /\ Null \notin Objs /\ Null \notin RingSlots
  /\ Objs \subseteq Data /\ RingSlots \subseteq Data
BY SyscallConstants DEF HostFds, VFds, RingSlots, Data

LEMMA DeleteEntry ==
  ASSUME NEW m, MapType(m), NEW d \in Open(m)
  PROVE  MapType(Deleted(m, d)) /\ Inserted(Deleted(m, d), m, d, m.at[d])
<1> DEFINE n == Deleted(m, d)
           E == [fd : {0} \cup HostFds \cup VFds, type : Types \cup {"none"}, data : Data]
<1>1. /\ m.len \in Nat /\ m.len <= Cap /\ Cap \in Nat \ {0} /\ d \in Nat /\ d < m.len
  BY Constants DEF MapType, Open
<1>2. /\ n.len = m.len - 1
      /\ n.at = [s \in Slots |->
                   IF s = m.len - 1 THEN [Unused EXCEPT !.data = m.at[s].data]
                   ELSE IF d <= s /\ s < m.len - 1 THEN m.at[s + 1] ELSE m.at[s]]
  BY DEF Deleted
<1>3. m.at \in [Slots -> E] /\ \A s \in Slots : s \in Nat /\ s < Cap
  BY <1>1 DEF MapType, Slots
<1> HIDE DEF n
<1>4. n.at \in [Slots -> E]
  <2>1. \A s \in Slots : n.at[s] \in E
    <3> TAKE s \in Slots
    <3>1. CASE s = m.len - 1
      <4>1. n.at[s] = [fd |-> 0, type |-> "none", data |-> m.at[s].data]
        BY <1>2, <3>1 DEF Unused
      <4> QED
        BY <1>3, <4>1
    <3>2. CASE s # m.len - 1 /\ d <= s /\ s < m.len - 1
      <4>1. s + 1 \in Slots
        BY <1>1, <1>3, <3>2 DEF Slots
      <4> QED
        BY <1>2, <1>3, <3>2, <4>1
    <3>3. CASE s # m.len - 1 /\ ~(d <= s /\ s < m.len - 1)
      BY <1>2, <1>3, <3>3
    <3> QED
      BY <3>1, <3>2, <3>3
  <2>2. n.at = [s \in Slots |-> n.at[s]]
    BY <1>2
  <2> HIDE DEF E
  <2> QED
    BY <2>1, <2>2
<1>5. \A s \in 0..(d - 1) : n.at[s] = m.at[s]
  <2> TAKE s \in 0..(d - 1)
  <2>1. s \in Slots /\ s # m.len - 1 /\ ~(d <= s)
    BY <1>1 DEF Slots
  <2> QED
    BY <1>2, <2>1
<1>6. \A s \in d..(n.len - 1) : m.at[s + 1] = n.at[s]
  <2> TAKE s \in d..(n.len - 1)
  <2>1. s \in Slots /\ s # m.len - 1 /\ d <= s /\ s < m.len - 1
    BY <1>1, <1>2 DEF Slots
  <2> QED
    BY <1>2, <2>1
<1>7. Inserted(n, m, d, m.at[d])
  BY <1>1, <1>2, <1>5, <1>6 DEF Inserted
<1>8. \A s \in Open(n) : n.at[s].fd \in HostFds \cup VFds /\ n.at[s].type \in Types
  <2> TAKE s \in Open(n)
  <2>1. PICK t \in Open(m) : m.at[t] = n.at[s]
    BY <1>7, Others
  <2> QED
    BY <2>1 DEF MapType
<1>9. n.len \in 0..Cap
  BY <1>1, <1>2
<1> QED
  BY <1>4, <1>7, <1>8, <1>9 DEF MapType, n

LEMMA SetData ==
  ASSUME NEW m, NEW n, NEW p \in Slots, NEW fd, NEW type, NEW was, NEW d \in Data,
         MapType(n), Inserted(m, n, p, [fd |-> fd, type |-> type, data |-> was])
  PROVE  /\ MapType(WithData(n, p, d))
         /\ Inserted(m, WithData(n, p, d), p, [fd |-> fd, type |-> type, data |-> d])
<1> DEFINE x == WithData(n, p, d)
           e == [fd |-> fd, type |-> type, data |-> d]
           E == [fd : {0} \cup HostFds \cup VFds, type : Types \cup {"none"}, data : Data]
<1>1. n.at \in [Slots -> E] /\ n.at[p] = [fd |-> fd, type |-> type, data |-> was]
  BY DEF MapType, Inserted
<1>2. x.len = n.len /\ x.at = [n.at EXCEPT ![p].data = d]
  BY DEF WithData
<1>3. p \in Int
  BY DEF Inserted
<1> HIDE DEF x
<1>4. x.at = [n.at EXCEPT ![p] = e]
  <2>1. [n.at[p] EXCEPT !.data = d] = e
    BY <1>1
  <2> QED
    BY <1>2, <2>1
<1>5. e \in E
  BY <1>1
<1>6. x.at \in [Slots -> E]
  <2> HIDE DEF e, E
  <2> QED
    BY <1>1, <1>4, <1>5
<1>7. x.at[p] = e /\ \A s : s \in Slots /\ s # p => x.at[s] = n.at[s]
  <2> HIDE DEF e, E
  <2> QED
    BY <1>1, <1>4
<1>8. /\ n.len \in 0..Cap /\ Cap \in Nat /\ p \in Open(n) /\ m.len \in Nat /\ n.len = m.len + 1
      /\ p \in Nat /\ p <= m.len
  BY Constants, Shifted DEF MapType, Inserted
<1>9. \A s \in Open(n) : s \in Slots
  BY <1>8 DEF Open, Slots
<1>10. Inserted(m, x, p, e)
  <2>1. \A s \in 0..(p - 1) : s \in Slots /\ s # p
    BY <1>8 DEF Slots
  <2>2. \A s \in p..(m.len - 1) : s + 1 \in Slots /\ s + 1 # p
    BY <1>8 DEF Slots
  <2> HIDE DEF e
  <2> QED
    BY <1>2, <1>7, <2>1, <2>2 DEF Inserted
<1>11. \A s \in Open(x) : x.at[s].fd \in HostFds \cup VFds /\ x.at[s].type \in Types
  <2> TAKE s \in Open(x)
  <2>1. s \in Open(n)
    BY <1>2 DEF Open
  <2>2. n.at[s].fd \in HostFds \cup VFds /\ n.at[s].type \in Types
    BY <2>1 DEF MapType
  <2>3. CASE s = p
    BY <1>1, <1>7, <2>2, <2>3
  <2>4. CASE s # p
    BY <1>7, <1>9, <2>1, <2>2, <2>4
  <2> QED
    BY <2>3, <2>4
<1> QED
  BY <1>2, <1>6, <1>8, <1>10, <1>11 DEF MapType, x, e

RenamedTo(x, fd, type) == [x EXCEPT !.fd = fd, !.type = type]

EntryType ==
  [fd : {0} \cup HostFds \cup VFds, type : Types \cup {"none"}, data : Data]

LEMMA Renamed ==
  ASSUME NEW x \in EntryType, NEW f, NEW t
  PROVE  RenamedTo(x, f, t) = [fd |-> f, type |-> t, data |-> x.data]
<1> DEFINE y == [x EXCEPT !.fd = f]
<1>1. /\ y \in [fd : {f}, type : Types \cup {"none"}, data : Data]
      /\ y.fd = f /\ y.data = x.data
  BY DEF EntryType
<1>2. RenamedTo(x, f, t) = [y EXCEPT !.type = t]
  BY DEF RenamedTo
<1> HIDE DEF y
<1>3. [y EXCEPT !.type = t] = [fd |-> y.fd, type |-> t, data |-> y.data]
  BY <1>1
<1> QED
  BY <1>1, <1>2, <1>3

LEMMA KeyIsVirtual ==
  ASSUME MapType(vmap), NextKey <= MaxFd
  PROVE  NextKey \in VFds
<1>1. CASE vmap.len = 0
  BY <1>1, Constants DEF NextKey, VFds
<1>2. CASE vmap.len # 0
  <2>1. vmap.len - 1 \in Open(vmap)
    BY <1>2, Constants DEF Open, MapType
  <2>2. Entry(vmap.len - 1).fd + 1 \in Int
    BY <2>1, Constants DEF MapType, Entry
  <2>3. NextKey = Max({FdMin, Entry(vmap.len - 1).fd + 1})
    BY <1>2 DEF NextKey
  <2>4. NextKey \in Int /\ NextKey >= FdMin
    <3> DEFINE x == Entry(vmap.len - 1).fd + 1
    <3>1. FdMin \in Int /\ x \in Int
      BY <2>2, Constants
    <3>2. NextKey = Max({FdMin, x})
      BY <2>3
    <3> HIDE DEF x
    <3>3. NextKey \in {FdMin, x} /\ NextKey >= FdMin
      BY <3>1, <3>2, Larger
    <3> QED
      BY <3>1, <3>3
  <2> QED
    BY <2>4, Constants DEF VFds
<1> QED
  BY <1>1, <1>2

LEMMA OpenLast ==
  ASSUME MapType(vmap), HasSlot, NextKey <= MaxFd, NEW type \in Types
  PROVE  /\ vmap.len \in Slots
         /\ MapType(OpenedLast(type))
         /\ Inserted(vmap, OpenedLast(type), vmap.len,
                     [fd |-> NextKey, type |-> type, data |-> Entry(vmap.len).data])
<1> DEFINE n == OpenedLast(type)
           p == vmap.len
           e == [fd |-> NextKey, type |-> type, data |-> Entry(p).data]
           E == [fd : {0} \cup HostFds \cup VFds, type : Types \cup {"none"}, data : Data]
<1>1. p \in Nat /\ p < Cap /\ Cap \in Nat /\ p \in Slots
  BY Constants DEF MapType, HasSlot, Slots
<1>2. vmap.at \in [Slots -> E]
  BY DEF MapType
<1>3. NextKey \in VFds
  BY KeyIsVirtual
<1>4. n.len = p + 1 /\ n.at = [vmap.at EXCEPT ![p] = e]
  <2>1. n.len = p + 1 /\ n.at = [vmap.at EXCEPT ![p] = RenamedTo(vmap.at[p], NextKey, type)]
    BY <1>1, <1>2 DEF OpenedLast, RenamedTo
  <2>2. RenamedTo(vmap.at[p], NextKey, type) = e
    <3> DEFINE x == vmap.at[p]
    <3>1. x \in EntryType
      BY <1>1, <1>2 DEF EntryType
    <3>2. e = [fd |-> NextKey, type |-> type, data |-> x.data]
      BY DEF Entry
    <3> HIDE DEF x, e
    <3>3. RenamedTo(x, NextKey, type) = [fd |-> NextKey, type |-> type, data |-> x.data]
      BY <3>1, Renamed
    <3> QED
      BY <3>2, <3>3 DEF x
  <2> QED
    BY <2>1, <2>2
<1>5. e \in E
  BY <1>1, <1>2, <1>3 DEF Entry
<1> HIDE DEF n, e, E
<1>6. /\ n.at \in [Slots -> E] /\ n.at[p] = e
      /\ \A s \in 0..(p - 1) : n.at[s] = vmap.at[s]
  <2>1. \A s \in 0..(p - 1) : s \in Slots /\ s # p
    BY <1>1 DEF Slots
  <2> QED
    BY <1>1, <1>2, <1>4, <1>5, <2>1
<1>7. Inserted(vmap, n, p, e)
  BY <1>1, <1>4, <1>6 DEF Inserted
<1>8. \A s \in Open(n) : n.at[s].fd \in HostFds \cup VFds /\ n.at[s].type \in Types
  <2> TAKE s \in Open(n)
  <2>1. CASE s = p
    BY <1>3, <1>6, <2>1 DEF e
  <2>2. CASE s # p
    <3>1. PICK t \in Open(vmap) : n.at[s] = vmap.at[t]
      BY <1>7, <2>2, Others
    <3> QED
      BY <3>1 DEF MapType
  <2> QED
    BY <2>1, <2>2
<1>9. n.len \in 0..Cap
  BY <1>1, <1>4
<1> QED
  BY <1>1, <1>6, <1>7, <1>8, <1>9 DEF MapType, n, e, E

LEMMA OpenFirst ==
  ASSUME MapType(vmap), HasSlot, NEW fd \in HostFds, NEW type \in Types
  PROVE  /\ 0 \in Slots
         /\ MapType(OpenedFirst(fd, type))
         /\ Inserted(vmap, OpenedFirst(fd, type), 0,
                     [fd |-> fd, type |-> type, data |-> Entry(0).data])
<1> DEFINE n == OpenedFirst(fd, type)
           e == [fd |-> fd, type |-> type, data |-> Entry(0).data]
           E == [fd : {0} \cup HostFds \cup VFds, type : Types \cup {"none"}, data : Data]
<1>1. /\ vmap.len \in Nat /\ vmap.len < Cap /\ Cap \in Nat /\ 0 \in Slots
      /\ \A s \in Slots : s \in Nat /\ s < Cap
  BY Constants DEF MapType, HasSlot, Slots
<1>2. vmap.at \in [Slots -> E]
  BY DEF MapType
<1>3. RenamedTo(Entry(0), fd, type) = e
  <2> DEFINE x == Entry(0)
  <2>1. x \in EntryType
    BY <1>1, <1>2 DEF Entry, EntryType
  <2> HIDE DEF x
  <2>2. RenamedTo(x, fd, type) = [fd |-> fd, type |-> type, data |-> x.data]
    BY <2>1, Renamed
  <2> QED
    BY <2>2 DEF x
<1>4. e \in E
  BY <1>1, <1>2 DEF Entry
<1>5. /\ n.len = vmap.len + 1
      /\ n.at = [s \in Slots |->
                   IF s = 0 THEN e
                   ELSE IF s <= vmap.len THEN Entry(s - 1) ELSE Entry(s)]
  BY <1>3 DEF OpenedFirst, RenamedTo
<1> HIDE DEF n, e, E
<1>6. n.at \in [Slots -> E]
  <2>1. \A s \in Slots : n.at[s] \in E
    <3> TAKE s \in Slots
    <3>1. CASE s = 0
      BY <1>4, <1>5, <3>1
    <3>2. CASE s # 0
      <4>1. s - 1 \in Slots
        BY <1>1, <3>2 DEF Slots
      <4> QED
        BY <1>2, <1>5, <3>2, <4>1 DEF Entry
    <3> QED
      BY <3>1, <3>2
  <2>2. n.at = [s \in Slots |-> n.at[s]]
    BY <1>5
  <2> QED
    BY <2>1, <2>2
<1>7. n.at[0] = e
  BY <1>1, <1>5
<1>8. \A s \in 0..(vmap.len - 1) : n.at[s + 1] = vmap.at[s]
  <2> TAKE s \in 0..(vmap.len - 1)
  <2>1. s + 1 \in Slots /\ s + 1 # 0 /\ s + 1 <= vmap.len /\ (s + 1) - 1 = s
    BY <1>1 DEF Slots
  <2> QED
    BY <1>5, <2>1 DEF Entry
<1>9. Inserted(vmap, n, 0, e)
  BY <1>1, <1>5, <1>7, <1>8 DEF Inserted
<1>10. \A s \in Open(n) : n.at[s].fd \in HostFds \cup VFds /\ n.at[s].type \in Types
  <2> TAKE s \in Open(n)
  <2>1. CASE s = 0
    BY <1>7, <2>1 DEF e
  <2>2. CASE s # 0
    <3>1. PICK t \in Open(vmap) : n.at[s] = vmap.at[t]
      BY <1>9, <2>2, Others
    <3> QED
      BY <3>1 DEF MapType
  <2> QED
    BY <2>1, <2>2
<1>11. n.len \in 0..Cap
  BY <1>1, <1>5
<1> QED
  BY <1>1, <1>6, <1>9, <1>10, <1>11 DEF MapType, n, e, E

-----------------------------------------------------------------------------
(* Ioring contexts. *)

PackedIn(rv) ==
  /\ rv.used \subseteq RingSlots /\ rv.count \in 0..NRings
  /\ \A c \in rv.used : c < rv.count
  /\ rv.count > 0 => rv.count - 1 \in rv.used

LEMMA FreePacked ==
  ASSUME NEW rv, PackedIn(rv), NEW c
  PROVE  PackedIn(RingFreed(rv, c)) /\ RingFreed(rv, c).used = rv.used \ {c}
<1> DEFINE left == rv.used \ {c}
           n == IF c = rv.count - 1 THEN IF left = {} THEN 0 ELSE Max(left) + 1 ELSE rv.count
           f == RingFreed(rv, c)
<1>1. f.used = left /\ f.count = n
  BY DEF RingFreed
<1>2. left \subseteq 0..(NRings - 1) /\ NRings \in Nat \ {0} /\ NRings - 1 \in Nat
      /\ rv.count \in 0..NRings
  BY Constants DEF PackedIn, RingSlots
<1>3. \A x \in left : x < rv.count /\ x \in Nat
  BY <1>2 DEF PackedIn
<1>4. CASE c = rv.count - 1 /\ left = {}
  BY <1>1, <1>2, <1>4 DEF PackedIn
<1>5. CASE c = rv.count - 1 /\ left # {}
  <2>1. Max(left) \in left /\ \A x \in left : x <= Max(left)
    <3> HIDE DEF left
    <3> QED
      BY <1>2, <1>5, LastIs
  <2>2. n = Max(left) + 1
    BY <1>5
  <2>3. Max(left) \in 0..(NRings - 1)
    BY <1>2, <2>1
  <2> HIDE DEF left, n, f
  <2>4. n \in 0..NRings /\ n - 1 = Max(left) /\ \A x \in left : x < n
    BY <1>2, <1>3, <2>1, <2>2, <2>3
  <2>5. left \subseteq RingSlots
    BY <1>2 DEF RingSlots
  <2>6. PackedIn(f)
    BY <1>1, <2>1, <2>4, <2>5 DEF PackedIn
  <2> QED
    BY <1>1, <2>6 DEF f, left
<1>6. CASE c # rv.count - 1
  <2>1. n = rv.count
    BY <1>6
  <2>2. rv.count > 0 => rv.count - 1 \in left
    BY <1>6 DEF PackedIn
  <2>3. left \subseteq RingSlots
    BY <1>2 DEF RingSlots
  <2> HIDE DEF left, n, f
  <2>4. PackedIn(f)
    BY <1>1, <1>2, <1>3, <2>1, <2>2, <2>3 DEF PackedIn
  <2> QED
    BY <1>1, <2>4 DEF f, left
<1> HIDE DEF left
<1>7. f.used = left
  BY <1>1
<1> QED
  BY <1>4, <1>5, <1>6, <1>7 DEF left

LEMMA AllocatedPacked ==
  ASSUME PackedIn(rings), rings.count < NRings
  PROVE  /\ PackedIn(RingAllocated) /\ RingAllocated.used = rings.used \cup {rings.count}
         /\ rings.count \notin rings.used /\ rings.count \in RingSlots
<1> DEFINE a == RingAllocated
<1>1. a.used = rings.used \cup {rings.count} /\ a.count = rings.count + 1
  BY DEF RingAllocated
<1>2. rings.count \in Nat /\ NRings \in Nat /\ rings.count \in RingSlots
  BY Constants DEF PackedIn, RingSlots
<1>3. rings.count \notin rings.used
  BY <1>2 DEF PackedIn
<1>4. \A c \in a.used : c < rings.count + 1
  <2> TAKE c \in a.used
  <2>1. CASE c \in rings.used
    <3>1. c < rings.count /\ c \in RingSlots
      BY <2>1 DEF PackedIn
    <3> QED
      BY <1>2, <3>1 DEF RingSlots
  <2>2. CASE c = rings.count
    BY <1>2, <2>2
  <2> QED
    BY <1>1, <2>1, <2>2
<1> HIDE DEF a
<1>5. a.used \subseteq RingSlots
  BY <1>1, <1>2 DEF PackedIn
<1>6. a.count \in 0..NRings /\ a.count - 1 = rings.count
  BY <1>1, <1>2
<1>7. PackedIn(a)
  BY <1>1, <1>4, <1>5, <1>6 DEF PackedIn
<1> QED
  BY <1>1, <1>2, <1>3, <1>7 DEF a

-----------------------------------------------------------------------------
(* The inductive invariant. *)

HostType == host \in [HostFds -> {"closed", "user", "pipe", "hidden"}]
HeapType == heap \in [Objs -> {"free", "dev", "surf"}]

SysInv ==
  /\ HostType /\ HeapType /\ ub \in BOOLEAN /\ failed \in BOOLEAN
  /\ MapType(vmap) /\ Backed(vmap, host)
  /\ PackedIn(rings)
  /\ ~failed => OwnedIn(vmap, heap, rings.used)

LEMMA SysInvImplies ==
  ASSUME SysInv
  PROVE  TablesInv /\ Owned
<1>1. OpenSlots = Open(vmap) /\ \A s : Entry(s) = vmap.at[s]
  BY DEF OpenSlots, Open, Entry
<1>2. TypeOK
  BY DEF SysInv, HostType, HeapType, MapType, PackedIn, TypeOK
<1>3. PipeBacked
  BY <1>1 DEF SysInv, Backed, PipeBacked
<1>4. RingsPacked
  BY DEF SysInv, PackedIn, RingsPacked
<1>5. \A s : Valid(Entry(s).type, Entry(s).data) <=> ValidIn(vmap.at[s], heap, rings.used)
  BY <1>1 DEF Valid, ValidIn
<1>6. Owned
  BY <1>1, <1>5 DEF SysInv, OwnedIn, Owned
<1> QED
  BY <1>2, <1>3, <1>4, <1>6 DEF TablesInv

LEMMA SysInit ==
  ASSUME Init
  PROVE  SysInv
<1>1. HostType /\ HeapType /\ ub \in BOOLEAN /\ failed \in BOOLEAN
  BY DEF Init, HostType, HeapType
<1>2. vmap.len = 0 /\ vmap.at = [s \in Slots |-> Unused] /\ Open(vmap) = {}
  BY DEF Init, Open
<1>3. MapType(vmap)
  <2>1. Null \in Data
    BY DEF Data
  <2>2. 0 \in 0..Cap
    BY Constants
  <2> QED
    BY <1>2, <2>1, <2>2 DEF MapType, Unused
<1>4. rings.used = {} /\ rings.count = 0 /\ heap = [o \in Objs |-> "free"]
  BY DEF Init
<1>5. PackedIn(rings)
  BY <1>4, Constants DEF PackedIn
<1>6. OwnedIn(vmap, heap, rings.used)
  BY <1>2, <1>4 DEF OwnedIn
<1> QED
  BY <1>1, <1>2, <1>3, <1>5, <1>6 DEF SysInv, Backed

LEMMA StayBacked ==
  ASSUME NEW m, MapType(m), NEW h, NEW h2, Backed(m, h),
         \A fd \in HostFds : h[fd] = "pipe" => h2[fd] = "pipe"
  PROVE  /\ Backed(m, h2)
         /\ \A s \in Open(m) : m.at[s].fd < FdMin => h2[m.at[s].fd] = h[m.at[s].fd]
<1> SUFFICES ASSUME NEW s \in Open(m), m.at[s].fd < FdMin
             PROVE  h[m.at[s].fd] = "pipe" /\ h2[m.at[s].fd] = "pipe"
  BY DEF Backed
<1>1. m.at[s].fd \in HostFds
  BY Constants DEF MapType
<1> QED
  BY <1>1 DEF Backed

(* The ends of a pipe are two descriptors that were closed. *)
LEMMA FirstFree ==
  ASSUME FreeFds # {}
  PROVE  Min(FreeFds) \in FreeFds
<1>1. FreeFds \subseteq 0..HostMax
  BY Constants DEF FreeFds, HostFds
<1> QED
  BY <1>1, FirstIs, Constants

LEMMA PipeEnds ==
  ASSUME PipeFits
  PROVE  PipeR \in FreeFds /\ PipeW \in FreeFds /\ PipeR # PipeW
<1> DEFINE F == FreeFds
<1>1. F \subseteq 3..HostMax /\ F \subseteq 0..HostMax /\ HostMax \in Nat
  BY Constants DEF FreeFds, HostFds
<1>2. IsFiniteSet(F) /\ Cardinality(F) >= 2
  <2>1. IsFiniteSet(3..HostMax)
    BY <1>1, FS_Interval
  <2> QED
    BY <1>1, <2>1, FS_Subset DEF PipeFits
<1> HIDE DEF F
<1>3. Cardinality(F) \in Nat
  BY <1>2, FS_CardinalityType
<1>4. F # {}
  BY <1>2, FS_EmptySet
<1>5. Min(F) \in F
  BY <1>1, <1>4, FirstIs
<1>6. F \ {Min(F)} # {}
  <2>1. Cardinality(F \ {Min(F)}) = Cardinality(F) - 1
    BY <1>2, <1>5, FS_RemoveElement
  <2> QED
    BY <1>2, <1>3, <2>1, FS_EmptySet
<1>7. Min(F \ {Min(F)}) \in F \ {Min(F)}
  BY <1>1, <1>6, FirstIs
<1> QED
  BY <1>5, <1>7 DEF PipeR, PipeW, F

LEMMA PipeHost ==
  ASSUME HostType, PipeFits,
         NEW a \in {"closed", "user", "pipe", "hidden"}, NEW b \in {"closed", "user", "pipe", "hidden"}
  PROVE  /\ PipeR \in HostFds
         /\ PipeOpened(a, b) \in [HostFds -> {"closed", "user", "pipe", "hidden"}]
         /\ PipeOpened(a, b)[PipeR] = a
         /\ \A fd \in HostFds : host[fd] = "pipe" => PipeOpened(a, b)[fd] = "pipe"
<1>1. /\ PipeR \in HostFds /\ PipeW \in HostFds /\ PipeR # PipeW
      /\ host[PipeR] = "closed" /\ host[PipeW] = "closed"
  BY PipeEnds DEF FreeFds
<1>2. PipeOpened(a, b) = [[host EXCEPT ![PipeR] = a] EXCEPT ![PipeW] = b]
  BY DEF PipeOpened
<1> HIDE DEF PipeR, PipeW
<1> QED
  BY <1>1, <1>2 DEF HostType

-----------------------------------------------------------------------------
(* One lemma for each call. *)

LEMMA OpenAtInv ==
  ASSUME SysInv, OpenAt
  PROVE  SysInv'
<1>0. UNCHANGED <<vmap, heap, rings, ub, failed>>
  BY DEF OpenAt
<1>1. CASE FreeFds = {}
  <2>1. UNCHANGED host
    BY <1>1 DEF OpenAt
  <2> QED
    BY <1>0, <2>1 DEF SysInv, HostType, HeapType
<1>2. CASE FreeFds # {}
  <2>1. Min(FreeFds) \in HostFds /\ host[Min(FreeFds)] = "closed"
    BY <1>2, FirstFree DEF FreeFds
  <2>2. host' = [host EXCEPT ![Min(FreeFds)] = "user"]
    BY <1>2 DEF OpenAt
  <2>3. HostType' /\ \A fd \in HostFds : host[fd] = "pipe" => host'[fd] = "pipe"
    BY <2>1, <2>2 DEF SysInv, HostType
  <2>4. Backed(vmap, host')
    BY <2>3, StayBacked DEF SysInv
  <2> QED
    BY <1>0, <2>3, <2>4 DEF SysInv, HeapType
<1> QED
  BY <1>1, <1>2

LEMMA PipeInv ==
  ASSUME SysInv, Pipe
  PROVE  SysInv'
<1>0. UNCHANGED <<vmap, heap, rings, ub, failed>>
  BY DEF Pipe
<1>1. CASE ~PipeFits
  <2>1. UNCHANGED host
    BY <1>1 DEF Pipe
  <2> QED
    BY <1>0, <2>1 DEF SysInv, HostType, HeapType
<1>2. CASE PipeFits
  <2>1. host' = PipeOpened("user", "user")
    BY <1>2 DEF Pipe
  <2>2. HostType' /\ \A fd \in HostFds : host[fd] = "pipe" => host'[fd] = "pipe"
    BY <1>2, <2>1, PipeHost DEF SysInv, HostType
  <2>3. Backed(vmap, host')
    BY <2>2, StayBacked DEF SysInv
  <2> QED
    BY <1>0, <2>2, <2>3 DEF SysInv, HeapType
<1> QED
  BY <1>1, <1>2

LEMMA GpuDevNoFileInv ==
  ASSUME SysInv, GpuDevNoFile
  PROVE  SysInv'
<1>0. UNCHANGED <<vmap, heap, rings, ub, failed>>
  BY DEF GpuDevNoFile
<1>1. CASE ~PipeFits
  <2>1. UNCHANGED host
    BY <1>1 DEF GpuDevNoFile
  <2> QED
    BY <1>0, <2>1 DEF SysInv, HostType, HeapType
<1>2. CASE PipeFits
  <2>1. host' = PipeOpened("closed", "hidden")
    BY <1>2 DEF GpuDevNoFile
  <2>2. HostType' /\ \A fd \in HostFds : host[fd] = "pipe" => host'[fd] = "pipe"
    BY <1>2, <2>1, PipeHost DEF SysInv, HostType
  <2>3. Backed(vmap, host')
    BY <2>2, StayBacked DEF SysInv
  <2> QED
    BY <1>0, <2>2, <2>3 DEF SysInv, HeapType
<1> QED
  BY <1>1, <1>2

(* An object at an address that was free is nobody's yet. *)
LEMMA FreshObject ==
  ASSUME SysInv, ~failed, NEW o \in Objs, heap[o] = "free"
  PROVE  \A s \in Open(vmap) : vmap.at[s].data # o
<1> SUFFICES ASSUME NEW s \in Open(vmap), vmap.at[s].data = o
             PROVE  FALSE
  OBVIOUS
<1>1. ValidIn(vmap.at[s], heap, rings.used) /\ vmap.at[s].type \in Types
  BY DEF SysInv, OwnedIn, MapType
<1>2. o \notin rings.used
  BY Constants DEF SysInv, PackedIn
<1> QED
  BY <1>1, <1>2 DEF ValidIn, Types

LEMMA GpuDevInv ==
  ASSUME SysInv, GpuDev
  PROVE  SysInv'
<1>0. UNCHANGED <<rings, ub, failed>> /\ PipeFits /\ HasSlot /\ host' = PipeOpened("pipe", "hidden")
  BY DEF GpuDev
<1>1. PICK o \in Objs :
        /\ heap[o] = "free" /\ heap' = [heap EXCEPT ![o] = "dev"]
        /\ vmap' = WithData(OpenedFirst(PipeR, "dev"), 0, o)
  BY DEF GpuDev
<1>2. /\ PipeR \in HostFds /\ HostType' /\ host'[PipeR] = "pipe"
      /\ \A fd \in HostFds : host[fd] = "pipe" => host'[fd] = "pipe"
  BY <1>0, PipeHost DEF SysInv, HostType
<1> DEFINE e == [fd |-> PipeR, type |-> "dev", data |-> o]
<1>3. MapType(vmap') /\ Inserted(vmap, vmap', 0, e)
  <2>1. "dev" \in Types /\ o \in Data
    BY Constants DEF Types
  <2>2. /\ 0 \in Slots /\ MapType(OpenedFirst(PipeR, "dev"))
        /\ Inserted(vmap, OpenedFirst(PipeR, "dev"), 0,
                    [fd |-> PipeR, type |-> "dev", data |-> Entry(0).data])
    BY <1>0, <1>2, <2>1, OpenFirst DEF SysInv
  <2> QED
    BY <1>1, <2>1, <2>2, SetData
<1>4. Backed(vmap', host')
  <2>1. \A s \in Open(vmap) : vmap.at[s].fd < FdMin => host'[vmap.at[s].fd] = host[vmap.at[s].fd]
    BY <1>2, StayBacked DEF SysInv
  <2> QED
    BY <1>2, <1>3, <2>1, InsertBacked DEF SysInv
<1>5. HeapType'
  BY <1>1 DEF SysInv, HeapType
<1>6. ~failed => OwnedIn(vmap', heap', rings.used)
  <2> SUFFICES ASSUME ~failed PROVE OwnedIn(vmap', heap', rings.used)
    OBVIOUS
  <2>1. ValidIn(e, heap', rings.used)
    BY <1>1 DEF SysInv, HeapType, ValidIn
  <2>2. \A s \in Open(vmap) : vmap.at[s].data # e.data
    BY <1>1, FreshObject
  <2>3. \A d \in Objs : d # e.data => heap'[d] = heap[d]
    BY <1>1 DEF SysInv, HeapType
  <2> HIDE DEF e
  <2>4. OwnedIn(vmap, heap, rings.used)
    BY DEF SysInv
  <2> QED
    BY <1>3, <2>1, <2>2, <2>3, <2>4, InsertOwned
<1> QED
  BY <1>0, <1>2, <1>3, <1>4, <1>5, <1>6 DEF SysInv

(* What the release of an entry that was opened and closed again leaves.    *)
LEMMA ReleaseTypes ==
  ASSUME SysInv, NEW type, NEW data, Release(type, data)
  PROVE  HeapType' /\ PackedIn(rings') /\ ub' \in BOOLEAN
<1>1. HeapType'
  BY DEF Release, SysInv, HeapType
<1>2. PackedIn(rings')
  <2>1. rings' = IF type = "ring" THEN RingFreed(rings, data) ELSE rings
    BY DEF Release
  <2> QED
    BY <2>1, FreePacked DEF SysInv
<1>3. ub' \in BOOLEAN
  BY DEF Release
<1> QED
  BY <1>1, <1>2, <1>3

LEMMA GpuDevFailsInv ==
  ASSUME SysInv, GpuDevFails
  PROVE  SysInv'
<1> DEFINE m == OpenedFirst(PipeR, "dev")
<1>0. /\ PipeFits /\ HasSlot /\ host' = PipeOpened("pipe", "hidden") /\ failed' = TRUE
      /\ Release("dev", m.at[0].data) /\ vmap' = Deleted(m, 0)
  BY DEF GpuDevFails
<1>1. /\ PipeR \in HostFds /\ HostType' /\ host'[PipeR] = "pipe"
      /\ \A fd \in HostFds : host[fd] = "pipe" => host'[fd] = "pipe"
  BY <1>0, PipeHost DEF SysInv, HostType
<1> DEFINE e == [fd |-> PipeR, type |-> "dev", data |-> Entry(0).data]
<1>2. MapType(m) /\ Inserted(vmap, m, 0, e)
  <2>1. "dev" \in Types
    BY DEF Types
  <2> QED
    BY <1>0, <1>1, <2>1, OpenFirst DEF SysInv
<1>3. Backed(m, host')
  <2>1. \A s \in Open(vmap) : vmap.at[s].fd < FdMin => host'[vmap.at[s].fd] = host[vmap.at[s].fd]
    BY <1>1, StayBacked DEF SysInv
  <2>2. e.fd < FdMin => host'[e.fd] = "pipe"
    BY <1>1
  <2>3. Backed(vmap, host)
    BY DEF SysInv
  <2> HIDE DEF m, e
  <2> QED
    BY <1>2, <2>1, <2>2, <2>3, InsertBacked
<1> HIDE DEF m, e
<1>4. 0 \in Open(m)
  BY <1>2, Others
<1>5. MapType(vmap') /\ Inserted(vmap', m, 0, m.at[0])
  BY <1>0, <1>2, <1>4, DeleteEntry
<1>6. Backed(vmap', host')
  BY <1>3, <1>5, RemoveBacked
<1>7. HeapType' /\ PackedIn(rings') /\ ub' \in BOOLEAN
  BY <1>0, ReleaseTypes
<1> QED
  BY <1>0, <1>1, <1>5, <1>6, <1>7 DEF SysInv

LEMMA MkSurfInv ==
  ASSUME SysInv, MkSurf
  PROVE  SysInv'
<1>0. UNCHANGED <<host, rings, failed>> /\ HasSlot /\ NextKey <= MaxFd
  BY DEF MkSurf
<1>1. PICK o \in Objs :
        /\ heap[o] = "free" /\ heap' = [heap EXCEPT ![o] = "surf"]
        /\ vmap' = WithData(OpenedLast("surf"), vmap.len, o) /\ ub' \in BOOLEAN
  BY DEF MkSurf
<1> DEFINE e == [fd |-> NextKey, type |-> "surf", data |-> o]
<1>2. MapType(vmap') /\ Inserted(vmap, vmap', vmap.len, e)
  <2>1. "surf" \in Types /\ o \in Data
    BY Constants DEF Types
  <2>2. /\ vmap.len \in Slots /\ MapType(OpenedLast("surf"))
        /\ Inserted(vmap, OpenedLast("surf"), vmap.len,
                    [fd |-> NextKey, type |-> "surf", data |-> Entry(vmap.len).data])
    BY <1>0, <2>1, OpenLast DEF SysInv
  <2> QED
    BY <1>1, <2>1, <2>2, SetData
<1>3. NextKey \in VFds
  BY <1>0, KeyIsVirtual DEF SysInv
<1>4. Backed(vmap', host)
  <2>1. ~(e.fd < FdMin)
    BY <1>3, Constants
  <2>2. Backed(vmap, host)
    BY DEF SysInv
  <2> HIDE DEF e
  <2> QED
    BY <1>2, <2>1, <2>2, InsertBacked
<1>5. HeapType'
  BY <1>1 DEF SysInv, HeapType
<1>6. ~failed => OwnedIn(vmap', heap', rings.used)
  <2> SUFFICES ASSUME ~failed PROVE OwnedIn(vmap', heap', rings.used)
    OBVIOUS
  <2>1. ValidIn(e, heap', rings.used)
    BY <1>1 DEF SysInv, HeapType, ValidIn
  <2>2. \A s \in Open(vmap) : vmap.at[s].data # e.data
    BY <1>1, FreshObject
  <2>3. \A d \in Objs : d # e.data => heap'[d] = heap[d]
    BY <1>1 DEF SysInv, HeapType
  <2> HIDE DEF e
  <2>4. OwnedIn(vmap, heap, rings.used)
    BY DEF SysInv
  <2> QED
    BY <1>2, <2>1, <2>2, <2>3, <2>4, InsertOwned
<1> QED
  BY <1>0, <1>1, <1>2, <1>4, <1>5, <1>6 DEF SysInv, HostType

LEMMA MkSurfFailsInv ==
  ASSUME SysInv, MkSurfFails
  PROVE  SysInv'
<1> DEFINE m == OpenedLast("surf")
           e == [fd |-> NextKey, type |-> "surf", data |-> Entry(vmap.len).data]
<1>0. /\ HasSlot /\ NextKey <= MaxFd /\ UNCHANGED host /\ failed' = TRUE
      /\ Release("surf", m.at[vmap.len].data) /\ vmap' = Deleted(m, vmap.len)
  BY DEF MkSurfFails
<1>1. MapType(m) /\ Inserted(vmap, m, vmap.len, e)
  <2>1. "surf" \in Types
    BY DEF Types
  <2> QED
    BY <1>0, <2>1, OpenLast DEF SysInv
<1>2. Backed(m, host)
  <2>1. ~(e.fd < FdMin)
    BY <1>0, KeyIsVirtual, Constants DEF SysInv
  <2>2. Backed(vmap, host)
    BY DEF SysInv
  <2> HIDE DEF m, e
  <2> QED
    BY <1>1, <2>1, <2>2, InsertBacked
<1> HIDE DEF m, e
<1>3. vmap.len \in Open(m)
  BY <1>1, Others
<1>4. MapType(vmap') /\ Inserted(vmap', m, vmap.len, m.at[vmap.len])
  BY <1>0, <1>1, <1>3, DeleteEntry
<1>5. Backed(vmap', host)
  BY <1>2, <1>4, RemoveBacked
<1>6. HeapType' /\ PackedIn(rings') /\ ub' \in BOOLEAN
  BY <1>0, ReleaseTypes
<1> QED
  BY <1>0, <1>4, <1>5, <1>6 DEF SysInv, HostType

LEMMA RingSetupFailsInv ==
  ASSUME SysInv, RingSetupFails
  PROVE  SysInv'
<1>0. UNCHANGED <<host, vmap, heap, ub, failed>>
  BY DEF RingSetupFails
<1>1. CASE UNCHANGED rings
  BY <1>0, <1>1 DEF SysInv, HostType, HeapType
<1>2. CASE rings.count < NRings /\ rings' = RingFreed(RingAllocated, rings.count)
  <2>1. PackedIn(RingAllocated) /\ RingAllocated.used = rings.used \cup {rings.count}
        /\ rings.count \notin rings.used
    BY <1>2, AllocatedPacked DEF SysInv
  <2>2. PackedIn(rings') /\ rings'.used = RingAllocated.used \ {rings.count}
    BY <1>2, <2>1, FreePacked
  <2>3. rings'.used = rings.used
    BY <2>1, <2>2
  <2> QED
    BY <1>0, <2>2, <2>3 DEF SysInv, HostType, HeapType
<1> QED
  BY <1>1, <1>2 DEF RingSetupFails

LEMMA RingSetupInv ==
  ASSUME SysInv, RingSetup
  PROVE  SysInv'
<1> DEFINE c == rings.count
           e == [fd |-> NextKey, type |-> "ring", data |-> c]
<1>0. /\ UNCHANGED <<host, heap, ub, failed>> /\ HasSlot /\ NextKey <= MaxFd
      /\ c < NRings /\ rings' = RingAllocated
      /\ vmap' = WithData(OpenedLast("ring"), vmap.len, c)
  BY DEF RingSetup
<1>1. /\ PackedIn(rings') /\ rings'.used = rings.used \cup {c}
      /\ c \notin rings.used /\ c \in RingSlots
  BY <1>0, AllocatedPacked DEF SysInv
<1>2. MapType(vmap') /\ Inserted(vmap, vmap', vmap.len, e)
  <2>1. "ring" \in Types /\ c \in Data
    BY <1>1, Constants DEF Types
  <2>2. /\ vmap.len \in Slots /\ MapType(OpenedLast("ring"))
        /\ Inserted(vmap, OpenedLast("ring"), vmap.len,
                    [fd |-> NextKey, type |-> "ring", data |-> Entry(vmap.len).data])
    BY <1>0, <2>1, OpenLast DEF SysInv
  <2> QED
    BY <1>0, <2>1, <2>2, SetData
<1>3. Backed(vmap', host)
  <2>1. ~(e.fd < FdMin)
    BY <1>0, KeyIsVirtual, Constants DEF SysInv
  <2>2. Backed(vmap, host)
    BY DEF SysInv
  <2> HIDE DEF e
  <2> QED
    BY <1>2, <2>1, <2>2, InsertBacked
<1>4. ~failed => OwnedIn(vmap', heap, rings'.used)
  <2> SUFFICES ASSUME ~failed PROVE OwnedIn(vmap', heap, rings'.used)
    OBVIOUS
  <2>1. ValidIn(e, heap, rings'.used) /\ e.data = c
    BY <1>1 DEF ValidIn
  <2>2. OwnedIn(vmap, heap, rings.used)
    BY DEF SysInv
  <2>3. \A s \in Open(vmap) : vmap.at[s].data # c
    <3> SUFFICES ASSUME NEW s \in Open(vmap), vmap.at[s].data = c
                 PROVE  FALSE
      OBVIOUS
    <3>1. ValidIn(vmap.at[s], heap, rings.used)
      BY <2>2 DEF OwnedIn
    <3> QED
      BY <1>1, <3>1, Constants DEF ValidIn
  <2> HIDE DEF e, c
  <2> QED
    BY <1>1, <1>2, <2>1, <2>2, <2>3, InsertOwned
<1> QED
  BY <1>0, <1>1, <1>2, <1>3, <1>4 DEF SysInv, HostType, HeapType

LEMMA CloseVFileInv ==
  ASSUME SysInv, CloseVFile
  PROVE  SysInv'
<1>0. UNCHANGED <<host, failed>>
  BY DEF CloseVFile
<1>1. PICK fd \in Named :
        /\ IsVFile(fd) /\ vmap' = Deleted(vmap, SlotOf(fd))
        /\ Release(Entry(SlotOf(fd)).type, Entry(SlotOf(fd)).data)
  BY DEF CloseVFile
<1> DEFINE s == SlotOf(fd)
           e == vmap.at[s]
<1>2. s \in Open(vmap)
  BY <1>1 DEF IsVFile, SlotOf, SlotsOf, OpenSlots, Open
<1>3. vmap' = Deleted(vmap, s) /\ Release(e.type, e.data)
  BY <1>1 DEF Entry
<1> HIDE DEF s
<1>4. MapType(vmap') /\ Inserted(vmap', vmap, s, e)
  BY <1>2, <1>3, DeleteEntry DEF SysInv
<1>5. Backed(vmap', host)
  BY <1>4, RemoveBacked DEF SysInv
<1>6. HeapType' /\ PackedIn(rings') /\ ub' \in BOOLEAN
  BY <1>3, ReleaseTypes
<1>7. ~failed => OwnedIn(vmap', heap', rings'.used)
  <2> SUFFICES ASSUME ~failed PROVE OwnedIn(vmap', heap', rings'.used)
    OBVIOUS
  <2>1. OwnedIn(vmap, heap, rings.used) /\ ValidIn(e, heap, rings.used)
    BY <1>2 DEF SysInv, OwnedIn
  <2>2. rings.used \subseteq RingSlots
    BY DEF SysInv, PackedIn
  <2>3. CASE e.type = "ring"
    <3>1. heap' = heap /\ rings' = RingFreed(rings, e.data)
      BY <1>3, <2>3 DEF Release
    <3>2. rings'.used = rings.used \ {e.data}
      BY <3>1, FreePacked DEF SysInv
    <3>3. e.data \notin Objs
      BY <2>1, <2>2, <2>3, Constants DEF ValidIn
    <3> HIDE DEF e
    <3> QED
      BY <1>4, <2>1, <3>1, <3>2, <3>3, RemoveOwned
  <2>4. CASE e.type # "ring"
    <3>1. e.data \in Objs
      BY <2>1, <2>4 DEF ValidIn
    <3>2. heap' = [heap EXCEPT ![e.data] = "free"] /\ rings' = rings
      BY <1>3, <2>4, <3>1 DEF Release
    <3>3. e.data \notin rings.used
      BY <2>2, <3>1, Constants
    <3>4. heap'[e.data] = "free" /\ e.data \notin rings'.used
      BY <3>1, <3>2, <3>3 DEF SysInv, HeapType
    <3>5. \A d : d # e.data => /\ d \in rings'.used <=> d \in rings.used
                               /\ d \in Objs => heap'[d] = heap[d]
      BY <3>1, <3>2 DEF SysInv, HeapType
    <3> HIDE DEF e
    <3> QED
      BY <1>4, <2>1, <3>4, <3>5, RemoveOwned
  <2> QED
    BY <2>3, <2>4
<1> QED
  BY <1>0, <1>4, <1>5, <1>6, <1>7 DEF SysInv, HostType

LEMMA CloseHostInv ==
  ASSUME SysInv, CloseHost
  PROVE  SysInv'
<1>0. UNCHANGED <<vmap, heap, rings, ub, failed>>
  BY DEF CloseHost
<1>1. PICK fd \in Named :
        /\ ForHost(fd)
        /\ \/ fd \in HostFds /\ host' = [host EXCEPT ![fd] = "closed"]
           \/ UNCHANGED host
  BY DEF CloseHost
<1>2. CASE UNCHANGED host
  BY <1>0, <1>2 DEF SysInv, HostType, HeapType
<1>3. CASE fd \in HostFds /\ host' = [host EXCEPT ![fd] = "closed"]
  <2>1. HostType'
    BY <1>3 DEF SysInv, HostType
  <2>2. \A s \in Open(vmap) : vmap.at[s].fd # fd
    BY <1>1 DEF ForHost, IsVFile, SlotsOf, OpenSlots, Open, Entry
  <2>3. Backed(vmap, host')
    <3> SUFFICES ASSUME NEW s \in Open(vmap), vmap.at[s].fd < FdMin
                 PROVE  host'[vmap.at[s].fd] = "pipe"
      BY DEF Backed
    <3>1. vmap.at[s].fd \in HostFds /\ host[vmap.at[s].fd] = "pipe"
      BY Constants DEF SysInv, MapType, Backed
    <3> QED
      BY <1>3, <2>2, <3>1 DEF SysInv, HostType
  <2> QED
    BY <1>0, <2>1, <2>3 DEF SysInv, HeapType
<1> QED
  BY <1>1, <1>2, <1>3

LEMMA UseInv ==
  ASSUME SysInv, Use
  PROVE  SysInv'
<1>1. UNCHANGED <<host, vmap, heap, rings, failed>> /\ ub' \in BOOLEAN
  BY DEF Use
<1> QED
  BY <1>1 DEF SysInv, HostType, HeapType

LEMMA SysStep ==
  ASSUME SysInv, [Next]_vars
  PROVE  SysInv'
<1>1. CASE MkSurfNoFile \/ UNCHANGED vars
  <2>1. UNCHANGED <<host, vmap, heap, rings, ub, failed>>
    BY <1>1 DEF MkSurfNoFile, vars
  <2> QED
    BY <2>1 DEF SysInv, HostType, HeapType
<1> QED
  BY <1>1, OpenAtInv, PipeInv, GpuDevNoFileInv, GpuDevInv, GpuDevFailsInv, MkSurfInv,
     MkSurfFailsInv, RingSetupFailsInv, RingSetupInv, CloseVFileInv, CloseHostInv, UseInv
     DEF Next

(* In every order of opens, closes and failures the layer's tables are well *)
(* typed, a virtual file under a host descriptor holds it open at the host, *)
(* and the ioring contexts in use end where the table ends.                 *)
THEOREM TablesAgree == Spec => []TablesInv
<1>1. Init => SysInv
  BY SysInit
<1>2. SysInv /\ [Next]_vars => SysInv'
  BY SysStep
<1>3. SysInv => TablesInv
  BY SysInvImplies
<1> QED
  BY <1>1, <1>2, <1>3, PTL DEF Spec

(* Until a device or a surface fails to open, every open virtual file has   *)
(* an object of its own, live and of its type, and every live object has    *)
(* its virtual file.                                                        *)
THEOREM EachOwnsItsObject == Spec => []Owned
<1>1. Init => SysInv
  BY SysInit
<1>2. SysInv /\ [Next]_vars => SysInv'
  BY SysStep
<1>3. SysInv => Owned
  BY SysInvImplies
<1> QED
  BY <1>1, <1>2, <1>3, PTL DEF Spec
=============================================================================
