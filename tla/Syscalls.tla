------------------------------ MODULE Syscalls ------------------------------
(***************************************************************************)
(* The system calls of the native backend that create and destroy things   *)
(* behind a file descriptor (backends/base/syscall.c): host files and      *)
(* pipes, and virtual files for GPU devices, GUI surfaces and iorings.     *)
(* What is followed is who owns what: the host's descriptor table, the     *)
(* entries of the virtual file map with their data pointers, the objects   *)
(* on the heap, and the static table of ioring contexts.                   *)
(*                                                                         *)
(* The map is used as VFileMap shows it to behave within SafeUse: at most  *)
(* one pipe file (one GPU device) is open at a time, and lookups are exact.*)
(* An entry that is opened keeps the data pointer its slot held before,    *)
(* because vfile_open does not clear it.                                   *)
(***************************************************************************)
EXTENDS Integers, FiniteSets, FiniteSetsExt

CONSTANTS
  HostMax,    \* host descriptors are 3..HostMax, 0..2 being the standard ones
  FdMin,      \* VFILE_FD_MIN
  MaxFd,      \* bound on the descriptors vfile_map_alloc hands out
  Cap,        \* entries the virtual file map can hold
  Objs,       \* heap addresses of devices and surfaces
  NRings,     \* ARRAY_LEN(g_ioringv)
  Null

ASSUME SyscallConstants ==
  /\ HostMax \in Nat /\ FdMin \in Nat /\ FdMin > HostMax
  /\ MaxFd \in Nat /\ MaxFd >= FdMin
  /\ Cap \in Nat \ {0} /\ NRings \in Nat \ {0}
  /\ Null \notin Objs \cup 0..(NRings - 1)
  /\ Objs \cap 0..(NRings - 1) = {}  \* contexts are in a static array

VARIABLES
  host,  \* the process's descriptor table, kept by the host
  vmap,  \* g_vfile_map: entries, the first len of them open
  heap,  \* what each heap address holds
  rings, \* g_ioringv and g_ioringc
  ub,    \* a call has used a pointer that is null, freed or of another type,
         \* after which nothing is said of the process
  failed,\* history: a device or a surface has failed to open
  ret    \* the last call, its descriptor argument and its result

vars == <<host, vmap, heap, rings, ub, failed, ret>>

HostFds == 3..HostMax
VFds == FdMin..MaxFd
Slots == 0..(Cap - 1)
RingSlots == 0..(NRings - 1)

p_err_invalid == -1
p_err_badfd == -3
p_err_not_supported == -8
p_err_nomem == -12

Ret(op, arg, res) == [op |-> op, arg |-> arg, res |-> res]

Unused == [fd |-> 0, type |-> "none", data |-> Null]

Init ==
  /\ host = [fd \in HostFds |-> "closed"]
  /\ vmap = [len |-> 0, at |-> [s \in Slots |-> Unused]]
  /\ heap = [o \in Objs |-> "free"]
  /\ rings = [used |-> {}, count |-> 0]
  /\ ub = FALSE /\ failed = FALSE
  /\ ret = Ret("none", -1, 0)

-----------------------------------------------------------------------------
(* The virtual file map. *)

OpenSlots == 0..(vmap.len - 1)
Entry(s) == vmap.at[s]
SlotsOf(fd) == {s \in OpenSlots : Entry(s).fd = fd}
IsVFile(fd) == SlotsOf(fd) # {}

SlotOf(fd) == CHOOSE s \in SlotsOf(fd) : TRUE

NextKey == IF vmap.len = 0 THEN FdMin
           ELSE Max({FdMin, Entry(vmap.len - 1).fd + 1})

HasSlot == vmap.len < Cap

(* vfile_map_alloc: the entry after the last one.                           *)
OpenedLast(type) ==
  [len |-> vmap.len + 1,
   at |-> [vmap.at EXCEPT ![vmap.len].fd = NextKey, ![vmap.len].type = type]]

(* vfile_map_set with a key below all others: the entry in front.           *)
OpenedFirst(fd, type) ==
  [len |-> vmap.len + 1,
   at |-> [s \in Slots |->
             IF s = 0 THEN [Entry(0) EXCEPT !.fd = fd, !.type = type]
             ELSE IF s <= vmap.len THEN Entry(s - 1) ELSE Entry(s)]]

(* Mutant: f->data = ... is forgotten. *)
WithDataForgotten(m, s, o) == m

WithData(m, s, o) == [m EXCEPT !.at[s].data = o]

(* vfile_map_del.  Past the new end a slot keeps its bytes, of which only   *)
(* the data pointer is ever read again.                                     *)
Deleted(m, d) ==
  [len |-> m.len - 1,
   at |-> [s \in Slots |->
             IF s = m.len - 1 THEN [Unused EXCEPT !.data = m.at[s].data]
             ELSE IF d <= s /\ s < m.len - 1 THEN m.at[s + 1] ELSE m.at[s]]]

-----------------------------------------------------------------------------
(* Iorings: the contexts of g_ioringv in use, and how far the array is.     *)

RingAllocated == [used |-> rings.used \cup {rings.count},
                  count |-> rings.count + 1]

(* ioringctx_free: the last context takes the free ones before it along.    *)
RingFreed(rv, c) ==
  LET left == rv.used \ {c}
  IN [used |-> left,
      count |-> IF c = rv.count - 1
                THEN IF left = {} THEN 0 ELSE Max(left) + 1
                ELSE rv.count]

-----------------------------------------------------------------------------
(* Data pointers. *)

Valid(type, data) ==
  IF type = "ring" THEN data \in rings.used
  ELSE data \in Objs /\ heap[data] = type

(* f->fops->release, the heap after it: delete of whatever data points to.  *)
Release(type, data) ==
  /\ heap' = IF type # "ring" /\ data \in Objs
             THEN [heap EXCEPT ![data] = "free"] ELSE heap
  /\ rings' = IF type = "ring" THEN RingFreed(rings, data) ELSE rings
  /\ ub' = ~Valid(type, data)

-----------------------------------------------------------------------------
(* Host files and pipes. *)

FreeFds == {fd \in HostFds : host[fd] = "closed"}

(* _psys_openat: the host takes the lowest descriptor that is free.         *)
OpenAt ==
  /\ ~ub
  /\ IF FreeFds = {}
     THEN /\ ret' = Ret("openat", -1, p_err_invalid)
          /\ UNCHANGED host
     ELSE /\ host' = [host EXCEPT ![Min(FreeFds)] = "user"]
          /\ ret' = Ret("openat", -1, Min(FreeFds))
  /\ UNCHANGED <<vmap, heap, rings, ub, failed>>

PipeFits == Cardinality(FreeFds) >= 2
PipeR == Min(FreeFds)
PipeW == Min(FreeFds \ {PipeR})

PipeOpened(reader, writer) ==
  [host EXCEPT ![PipeR] = reader, ![PipeW] = writer]

(* _psys_pipe, both ends for the program.                                   *)
Pipe ==
  /\ ~ub
  /\ IF PipeFits
     THEN /\ host' = PipeOpened("user", "user")
          /\ ret' = Ret("pipe", -1, PipeR)
     ELSE /\ ret' = Ret("pipe", -1, p_err_invalid)
          /\ UNCHANGED host
  /\ UNCHANGED <<vmap, heap, rings, ub, failed>>

-----------------------------------------------------------------------------
(* _psys_gpudev.  vfile_open keys the file by the pipe's read end and keeps *)
(* the write end to itself; neither is closed with the file.                *)

NoDevice == \A s \in OpenSlots : Entry(s).fd >= FdMin

GpuDevNoFile ==
  /\ ~ub
  /\ NoDevice
  /\ ~PipeFits \/ ~HasSlot
  /\ IF PipeFits
     THEN /\ host' = PipeOpened("closed", "hidden")
          /\ ret' = Ret("gpudev", -1, p_err_nomem)
     ELSE /\ ret' = Ret("gpudev", -1, p_err_invalid)
          /\ UNCHANGED host
  /\ UNCHANGED <<vmap, heap, rings, ub, failed>>

GpuDev ==
  /\ ~ub
  /\ NoDevice /\ PipeFits /\ HasSlot
  /\ host' = PipeOpened("pipe", "hidden")
  /\ \E o \in Objs :
       /\ heap[o] = "free"
       /\ heap' = [heap EXCEPT ![o] = "dev"]
       /\ vmap' = WithData(OpenedFirst(PipeR, "dev"), 0, o)
  /\ ret' = Ret("gpudev", -1, PipeR)
  /\ UNCHANGED <<rings, ub, failed>>

(* p_wgpu_dev_open fails: vfile_close of an entry whose data was never set. *)
GpuDevFails ==
  /\ ~ub
  /\ NoDevice /\ PipeFits /\ HasSlot
  /\ host' = PipeOpened("pipe", "hidden")
  /\ LET m == OpenedFirst(PipeR, "dev")
     IN Release("dev", m.at[0].data) /\ vmap' = Deleted(m, 0)
  /\ failed' = TRUE
  /\ ret' = Ret("gpudev", -1, p_err_not_supported)

-----------------------------------------------------------------------------
(* _psys_gui_mksurf, with a device to use or -1 to select one.              *)

(* lookup_dev: what the tag test lets through, for GPUDEV and GUI_SURF share *)
(* the bit it tests.  The map already holds the surface being made.         *)
DeviceData(m, fd) ==
  {m.at[s].data : s \in {s \in 0..(m.len - 1) :
                          m.at[s].fd = fd /\ m.at[s].type \in {"dev", "surf"}}}
  \ {Null}

LooksLikeDevice(m, fd) == DeviceData(m, fd) # {}

(* Whether there is a device to be read behind the entry's pointer.         *)
DeviceUsable(m, fd) == \A data \in DeviceData(m, fd) : Valid("dev", data)

MkSurfNoFile ==
  /\ ~ub
  /\ ~HasSlot
  /\ ret' = Ret("mksurf", -1, p_err_nomem)
  /\ UNCHANGED <<host, vmap, heap, rings, ub, failed>>

MkSurf ==
  /\ ~ub
  /\ HasSlot /\ NextKey <= MaxFd
  /\ LET m == OpenedLast("surf")
     IN \E device \in {-1} \cup HostFds \cup VFds, o \in Objs :
          /\ device = -1 \/ LooksLikeDevice(m, device)
          /\ heap[o] = "free"
          /\ heap' = [heap EXCEPT ![o] = "surf"]
          /\ vmap' = WithData(m, vmap.len, o)
          /\ ub' = (device # -1 /\ ~DeviceUsable(m, device))
          /\ ret' = Ret("mksurf", device, NextKey)
  /\ UNCHANGED <<host, rings, failed>>

(* p_gui_surf_open fails: no memory, no window, no surface, or a device     *)
(* descriptor that is not one.                                              *)
MkSurfFails ==
  /\ ~ub
  /\ HasSlot /\ NextKey <= MaxFd
  /\ LET m == OpenedLast("surf")
     IN /\ Release("surf", m.at[vmap.len].data)
        /\ vmap' = Deleted(m, vmap.len)
        /\ \E device \in {-1} \cup HostFds \cup VFds :
             ret' = Ret("mksurf", device,
                        IF device = -1 \/ LooksLikeDevice(m, device)
                        THEN p_err_not_supported ELSE p_err_badfd)
  /\ failed' = TRUE
  /\ UNCHANGED host

-----------------------------------------------------------------------------
(* _psys_ioring_setup: parameters refused, no context, no memory for the    *)
(* rings, or no room in the map; the last two give the context back.        *)

RingSetupFails ==
  /\ ~ub
  /\ \/ ret' = Ret("ioring", -1, p_err_invalid) /\ UNCHANGED rings
     \/ /\ rings.count = NRings
        /\ ret' = Ret("ioring", -1, p_err_nomem) /\ UNCHANGED rings
     \/ /\ rings.count < NRings
        /\ rings' = RingFreed(RingAllocated, rings.count)
        /\ ret' = Ret("ioring", -1, p_err_nomem)
  /\ UNCHANGED <<host, vmap, heap, ub, failed>>

RingSetup ==
  /\ ~ub
  /\ rings.count < NRings
  /\ HasSlot /\ NextKey <= MaxFd
  /\ rings' = RingAllocated
  /\ vmap' = WithData(OpenedLast("ring"), vmap.len, rings.count)
  /\ ret' = Ret("ioring", -1, NextKey)
  /\ UNCHANGED <<host, heap, ub, failed>>

-----------------------------------------------------------------------------
(* Calls on a descriptor.  A program passes any number but the write ends   *)
(* of device pipes, which it was never told.                                *)

Named == {fd \in HostFds : host[fd] # "hidden"} \cup VFds

CloseVFile ==
  \E fd \in Named :
    /\ ~ub
    /\ IsVFile(fd)
    /\ LET s == SlotOf(fd)
       IN Release(Entry(s).type, Entry(s).data) /\ vmap' = Deleted(vmap, s)
    /\ ret' = Ret("close", fd, 0)
    /\ UNCHANGED <<host, failed>>

(* Mutant: the host gets to see the descriptor first. *)
ForHostFirst(fd) == fd \in HostFds

(* _psys_close goes to the host for what is not a virtual file.             *)
ForHost(fd) == ~IsVFile(fd)

CloseHost ==
  \E fd \in Named :
    /\ ~ub
    /\ ForHost(fd)
    /\ IF fd \in HostFds /\ host[fd] # "closed"
       THEN /\ host' = [host EXCEPT ![fd] = "closed"]
            /\ ret' = Ret("close", fd, 0)
       ELSE /\ ret' = Ret("close", fd, p_err_invalid)
            /\ UNCHANGED host
    /\ UNCHANGED <<vmap, heap, rings, ub, failed>>

(* read and write of a surface, mmap of a ring: the calls that follow an    *)
(* entry's data pointer without changing who owns what.                     *)
Use ==
  \E s \in OpenSlots :
    /\ ~ub
    /\ Entry(s).type \in {"surf", "ring"}
    /\ ub' = ~Valid(Entry(s).type, Entry(s).data)
    /\ ret' = Ret("use", Entry(s).fd, 0)
    /\ UNCHANGED <<host, vmap, heap, rings, failed>>

Next == \/ OpenAt \/ Pipe
        \/ GpuDevNoFile \/ GpuDev \/ GpuDevFails
        \/ MkSurfNoFile \/ MkSurf \/ MkSurfFails
        \/ RingSetupFails \/ RingSetup
        \/ CloseVFile \/ CloseHost \/ Use

Spec == Init /\ [][Next]_vars

-----------------------------------------------------------------------------
Types == {"dev", "surf", "ring"}
Data == Objs \cup RingSlots \cup {Null}

TypeOK ==
  /\ host \in [HostFds -> {"closed", "user", "pipe", "hidden"}]
  /\ vmap.len \in 0..Cap
  /\ vmap.at \in [Slots -> [fd : {0} \cup HostFds \cup VFds,
                            type : Types \cup {"none"}, data : Data]]
  /\ heap \in [Objs -> {"free", "dev", "surf"}]
  /\ rings.used \subseteq RingSlots /\ rings.count \in 0..NRings
  /\ ub \in BOOLEAN /\ failed \in BOOLEAN

(* A virtual file that goes by a host descriptor holds that descriptor open *)
(* at the host, so that no later open is given its number and then has its  *)
(* reads, writes and close taken over by the virtual file.                  *)
PipeBacked ==
  \A s \in OpenSlots : Entry(s).fd < FdMin => host[Entry(s).fd] = "pipe"

(* Every open virtual file has an object of its own, live and of its type,  *)
(* and every live object has its virtual file: closing one file never frees *)
(* what another still uses, and nothing is freed twice or never.  This is   *)
(* so as long as no device or surface has failed to open, see below.        *)
Owned ==
  ~failed =>
  /\ \A s \in OpenSlots : Valid(Entry(s).type, Entry(s).data)
  /\ \A s, t \in OpenSlots : s # t => Entry(s).data # Entry(t).data
  /\ \A o \in Objs : heap[o] # "free" => \E s \in OpenSlots : Entry(s).data = o
  /\ \A c \in rings.used : \E s \in OpenSlots : Entry(s).data = c

(* ioringctx_alloc never returns a context in use, and takes the contexts   *)
(* at the end of g_ioringv back as soon as they are free.                   *)
RingsPacked ==
  /\ \A c \in rings.used : c < rings.count
  /\ rings.count > 0 => rings.count - 1 \in rings.used

(* The tables of the layer agree with the host and with each other in every *)
(* order of opens, closes and failures: numbers of virtual files are backed, *)
(* and contexts packed.                                                     *)
TablesInv == TypeOK /\ PipeBacked /\ RingsPacked

(* An object is released when its own virtual file is closed, and by no     *)
(* other call: "release // on close" (base.h:125).                          *)
ReleasedOnClose ==
  [][\A o \in Objs :
       heap[o] # "free" /\ heap'[o] = "free" =>
         /\ ret'.op = "close"
         /\ \E s \in SlotsOf(ret'.arg) : Entry(s).data = o]_vars

(* A surface is made with a device descriptor that names a GPU device, and  *)
(* anything else is an "invalid device file descriptor" (wgpu.cc:233).      *)
DeviceIsDevice ==
  [][ret'.op = "mksurf" /\ ret'.res >= 0 /\ ret'.arg >= 0 =>
       \E s \in SlotsOf(ret'.arg) : Entry(s).type = "dev"]_vars
=============================================================================
