# A TLA+ model of playsys

Playsys gives a program a small set of system calls (`spec.md`, `include/playsys.h`)
and implements them three times: natively over POSIX (`backends/base`), with windows
and GPU devices from GLFW and Dawn (`backends/wgpu`), and in a browser over
WebAssembly (`backends/js`). This directory holds TLA+ models of the parts that keep
state, the configurations that check them with TLC, and proofs checked by TLAPS.
Paths below are relative to the repository's root. Every definition that models code
is listed in `PROJECT.json` with the lines it stands for.

## 1. The system

| part | where | state | operations | called by |
|---|---|---|---|---|
| virtual file map | `backends/base/vfile.c` | `g_vfile_map`: two parallel arrays sorted by descriptor, in static storage (32 entries) and then on the heap | `vfile_open`, `vfile_lookup`, `vfile_close` over `vfile_map_get/set/alloc/del/grow` | system calls |
| system calls | `backends/base/syscall.c`, `syscall_posix.c` | the host's descriptor table; the data pointer of each virtual file | openat, pipe, close, read, write, mmap, gpudev, gui_mksurf | the program |
| iorings | `backends/base/ioring_base.c` | `g_ioringv[8]`, `g_ioringc`, mapped ring memory with its headers | setup, mmap of a ring, release | system calls |
| ring buffer | `backends/wgpu/src/ringbuf.c` | `r`, `w`, `len`, `cap` and the bytes | write, read, writex, readx, move | surfaces |
| GUI surfaces | `backends/wgpu/src/glfw.cc`, `wgpu.cc` | per surface a window, a ring buffer and a GPU surface | open, close, read, the size callback | virtual files, GLFW |
| GPU devices | `backends/wgpu/src/wgpu.cc` | a Dawn device per descriptor | open, close | virtual files, surfaces |
| JavaScript process | `backends/js/playsys.ts` | suspension flag and unwind area, `files`, `free_fds` | the calls, `suspend`, `resume`, `run` | the WebAssembly program, promises, timers |
| JavaScript files | `backends/js/playsys.ts` | the fake file's buffer and positions, a stream's left-over bytes, views of the program's memory | read, write, close | JavaScript process |
| Markdown parser | `tools/specgen/md4c.c` | open containers, the blocks so far, the marks of a paragraph | one line, the end, one pass over the marks | specgen |
| specgen | `tools/specgen/specgen.c`, `table.c` | the table being read, the tables read | the parser's callbacks | the build |
| tab writer | `tools/specgen/elastictab.c` | cells and lines not yet written out | write, flush | specgen |

**How they meet.** A system call with a descriptor asks the virtual file map first and
the host second. A virtual file carries function pointers and a data pointer; opening
one takes a slot of the map, then makes the object, then stores the pointer in the
slot. A GPU device is keyed by one end of a host pipe, so its number is a host
number; surfaces and iorings get numbers of their own from `VFILE_FD_MIN` up. A surface read
empties the surface's ring buffer and may then sit in `glfwWaitEvents`, inside which
GLFW calls back for *every* window, and those callbacks write to the ring buffers.

The build runs specgen over `spec.md`. The Markdown parser reads it line by line into a
list of blocks, then replays the blocks as callbacks, reading the spans of each paragraph
as it gets there. The callbacks collect tables in specgen, and specgen writes headers
from them through the tab writer.

**What is hard.**

* The insertion point of a new key comes from what an unsuccessful binary search
  leaves in two local variables. It depends on the order of opens and closes.
* Growth changes where the second array starts inside the block.
* A slot is reused with its old contents, and entries move between slots: a call that
  fails half-way acts on the leftovers.
* The ring buffer keeps four numbers in step across five operations with unsigned
  arithmetic that starts at 2^32 - 1.
* Events are processed inside reads, of whichever surface, and also destroy windows.
* A read waits for *an event*, a program waits for *a message*.
* In the browser one unwind area serves every suspended call, and completions arrive
  from promises and timers.
* The browser's files copy from and to memory that may be replaced under them, at once or
  long after the call has returned, and nobody hears of a write that fails.
* Text is decoded write by write, and a write may end within a character.
* Setting up a ring can fail after one block of memory, after two, or in the file map, and
  cleans up a context that keeps what an earlier ring left in it.
* The parser keeps three records of where it is in a document; it resolves spans in several
  passes, and a span found late may not cross one found early.
* The tab writer lets go of lines while later ones could still widen its columns.

**What makes each part correct.**

* *Virtual file map.* It is a table from descriptors to files: a lookup finds exactly
  what was opened and not closed under that number, an open and a close change one
  entry, and each search ends.
* *System calls.* Each virtual file owns one live object of its own type. The object is
  released by closing that file and by nothing else. A descriptor in use as a virtual
  file is never handed out again.
* *Iorings.* The memory of a ring in use stays mapped and its own. A context in use is not
  given to another ring, and freed ones at the end of the table come back.
* *Ring buffer.* A queue of bytes, through wrapping and moving.
* *Surfaces.* What a program reads is the messages posted to that surface, whole and
  in order, but for what the growth of its buffer loses; no callback or waiting read outlives
  its window; posted messages arrive.
* *JavaScript process.* Each suspended call is answered once, with its own result, and
  nothing resumes a program that is over; two open files never share a descriptor;
  what is written to a standard stream comes out in order and complete, each write decoded by
  itself.
* *JavaScript files.* A memory file is one file of bytes to all who have it open; reads of
  a stream give it whole and in order; a picked file is replaced by all that was written or
  not at all.
* *Markdown parser.* Callbacks nest and lose no text; spans are those of CommonMark; every
  loop ends.
* *specgen.* Its tables are those the document names; no callback writes outside of one.
* *Tab writer.* The output depends on the text and not on how it was cut into writes, and
  every column is as wide as its widest cell.

## 2. The modules

| module | models | its proofs and runs |
|---|---|---|
| `FdTable` | what the map promises (`base.h:140-143`) | refined by `VFileMap` |
| `VFileMap` | `vfile.c`, with its arrays and the search loop step by step | `MCVFileMap`, `VFileMapProofs` |
| `ByteQueue` | what the ring buffer promises (`ringbuf.h:12-29`) | refined by `RingBuf` |
| `RingBuf` | `ringbuf.c` | `MCRingBuf`, `RingBufProofs` |
| `Syscalls` | `syscall.c` over the host's descriptors, the map, heap objects and ioring contexts: the composition | `MCSyscalls`, `SyscallsProofs` |
| `GuiSurf` | surfaces, windows, events and reads | `MCGuiSurf`, `GuiSurfProofs` |
| `JsProcess` | the process of `playsys.ts`: suspension, descriptors, line writers | `MCJsProcess`, `JsProcessProofs` |
| `ByteFile` | what a memory file promises: bytes, a size, a position per handle | refined by `JsFiles` |
| `JsFiles` | `MemoryFile` and `WebFSFile` of `playsys.ts`, over memory that grows | `MCJsFiles`, `JsFilesProofs` |
| `IoRings` | `ioring_base.c`: sizes, pages, contexts | `MCIoRings`, `IoRingsProofs` |
| `ElasticTab` | `elastictab.c` | `MCElasticTab` |
| `MdText` | the scanning loops of `md4c.c` | used by the next three |
| `MdBlocks` | the block phase of `md4c.c` | `SpecDoc` |
| `SpecTables` | the callbacks of `specgen.c` with `table.c`, for every stream of callbacks | `MCSpecTables`, `SpecTablesProofs` |
| `SpecDoc` | `SpecTables` fed by the block phase: the composition | `MCSpecDoc` |
| `MdInlines` | the inline phase of `md4c.c` | `MCMdInlines` |

The proof that a module implements what it promises stands with its other proofs.

### VFileMap, FdTable

`cap`, `len`, `keys` and `vals` are `g_vfile_map`. `Begin*` starts a call of the layer
above. `Probe` is one turn of the loop that `vfile_map_get`, `vfile_map_set` and
`vfile_map_del` share, with its locals `low`, `high`, `i` (the last probe) and `d` (how
the comparison went). `Lookup*`, `Close*`, `Delete`, `Set` and `SetNoMem` are what
comes after the loop. `OpenAlloc` is `vfile_map_alloc`, which does not search. `file`
stands for an entry's flags, name, functions and data. The two memcpy calls of
`vfile_map_del`, which move overlapping bytes down, are taken to work as a move. The
keys' type, 32-bit signed, does not matter: differences are between small numbers.

`FdTable` has one step per answer and no arrays. The mapping sends the arrays to the
function they stand for (`Table`); a search is a stutter until the step that answers.

`SafeUse` bounds the uses for which this holds: at most one pipe file at a time and no
second growth. Outside it the code fails, which two runs show.

### RingBuf, ByteQueue

Each operation is one action with the code's own arithmetic, modulo `Word` = 2^32.
`p_ringbuf_move` copies the chunk between `r` and the old end to the new end with
memcpy; when they overlap the C standard leaves the outcome open, and the model has two
outcomes, those of copying upwards and of copying downwards (`FromBelow`, `FromAbove`).
`Growths` is the set of calls made of it: a doubling, or the smaller growth of `grow_rbuf`.
`ByteQueue`, which knows nothing of memory, says what a move has to keep: the number of bytes,
and of the bytes themselves the first `cap' - cap`, as many as the growth is large. All of them,
when the buffer grows to twice its size or holds no more than it grows by. A buffer in which nothing is stored must not be
moved unless it was never used (the copy would run over its end or the offsets would not
fit); `grow_rbuf`, its only caller, grows only a buffer that is too full for a message, so
`Move` asks for `len > 0`. `memcpy` itself is external.

### Syscalls

One action per outcome of a system call. `vmap` is the map reduced to what `VFileMap`
shows, the sequence of entries, but with every slot's *data pointer*, also past the
end, because `vfile_open` does not clear it. `heap` says what each address holds,
`rings` which contexts are in use and the value of `g_ioringc`, and `ub` becomes true
when a call follows a pointer that is null, freed or of another type; the behaviour
ends there, as C says nothing of what follows. `failed` is a history: that some open has
failed half-way. The map is used within `SafeUse`: one
device at a time. `"hidden"` marks the end of a device's pipe that the program is never
told. A program may pass any other number to close: host, virtual or neither. The
host's functions are external; it hands out the lowest free descriptor.

Objects and contexts are released in the same step in which their entry goes. Both happen in
one C function of a single-threaded process, and the order (release, then delete) does
not show outside.

### GuiSurf

`surf` holds each surface's window, close flag and ring buffer. The buffer is the queue that
`RingBuf` implements, in halves of messages: the sizes a window is given are numbered
(`sizes` counts them), and the message of the k-th is a header and a payload, written by
two calls. `WithRoom` is `grow_rbuf`: one message more or twice the size, if less, up to
`MaxCap`, and the allocator may always refuse; what does not fit is then not written
(`refused` remembers it). `events` are those the window system has not delivered; any event,
also one without a callback such as a mouse move, ends a wait. `reader` is the one read that
sits in `glfwWaitEvents`, if any.

A read that need not wait is one step. A read that waits is `ReadWaits`, then one step of
`WaitEvents` for each pending event, which is one callback (`SizePosted`, `SizeOfDeleted`,
`CloseNoted`) or none (`Ignored`), and `ReadEnds` when no event is left. While it waits only
the window system acts, for the process has one thread, and what the window system sends once
the first callback has run is left for the next wait. A read's length is a parameter
(`ReadSizes`), zero included. `posts`, `received` and `refused` are histories.

`OpenFails` is `p_gui_surf_open` on its error paths: the surface is deleted, and on those
that come after `glfwCreateWindow` the window is not, so that its callbacks run with a
pointer to freed memory. `wild` becomes true when one does, and the behaviour ends there.
Drawing, scaling and the GPU surface are left out.

`Grown` is what goes wrong inside `grow_rbuf`. It hands `p_ringbuf_move` the new block while
`b->ptr` is the old one. If realloc has moved the block, the bytes are copied out of memory that
was freed (`glfw.cc:24`); if it has not, the chunk that moves overlaps its destination, for the
growth is one message (`MCRingBufOverlap`, section 3). A growth may therefore replace any of the
buffered bytes (`Lost`), but leaves their number. `surf[s].grown` remembers the message for which
the buffer last grew.

### JsProcess

`prog` says where the program is: `running`, `unwinding` after `suspend`, `parked` once it
has left the stack, `rewinding` after `resume`, `over` when `run` has settled (`main`).
`state` is Asyncify's own state, which `callMain`, `suspend`, `resume` and
`resumeFinalize` change and assert; `pending` holds the promises and timers that will call
`resume`. JavaScript is not preempted, so a completion acts only while the program is
`parked` or `over`. A system call that suspends is `OpenWeb`, `ReadWeb` or `Sleep`; it ends
with `Succeeds` or `Fails` and `Rewound`.

`UnwindOverflows` is the program that does not fit `suspend_stack_size` while it unwinds
(the TODO of `playsys.ts:437-443`): `asyncify_stop_unwind` sets the state and traps, `run`
is rejected, and what the program waited for is still to come. When it comes, `resume`
calls `asyncify_start_rewind`, which traps again because the unwind area is still overfull,
and the exception leaves `resume` before the program is entered (`Entered`).

`OpenFake` is an open of the fake file system, which does not suspend. With the trunc flag
it always fails, because the file has no `truncate`, and with the append flag it raises a
ReferenceError, because `sys_seek_end` is local to another function; both are actions of
their own, with what they do to the descriptors. `WriteLine` and `Flushed` are the line
writers of the standard streams. A write is a sequence of pieces of text (`Pieces`): characters,
newlines, and the two parts of a character that the end of a write cuts. `Decoded` is
`proc.str`: `txt_dec` is not used as a stream, so the part of a character becomes a replacement
character before the line writer joins it to the rest. A character may have more bytes than two and be cut in more
parts; each is decoded like these. A byte order mark at the start of a write, which
`TextDecoder` drops, is assumed not to be written. Refused calls, and reads and writes of memory files, do
not change what is followed. The program's memory does not grow here: `JsFiles` is about that.

### JsFiles, ByteFile

A behaviour follows either the fake file system's one entry or one file the user picked
(`kind`): they share nothing but the program's memory. `attached` says whether the views
made at `playsys.ts:378` still show that memory; `Grow` detaches them for good. A call that
goes through a detached view throws, and where that leaves the file differs from call to
call: a write to a memory file has replaced its buffer by then (`WriteFakeDetached`), a read
of a stream fails after the chunk has been taken (`Chunk`), a write to a picked file makes
its promise fail unnoticed (`WriteDetached`).

*Memory files.* The entry, its buffer and its size belong to the page and outlive the
process (`Exit`, `Load`); positions belong to the handles. A write that does not fit gets a
larger buffer into which only what is *before its position* is copied (`Grown`). `ByteFile`
has no buffer. It holds the promise that is kept: bytes, a size, and a position per handle;
a process that ends in the middle of a write may leave other bytes behind the position that
write was at (`Gone`), for that is what the detached view does.

*Picked files.* Bytes of the stream are named by their place in it. `rbuf` is what a chunk
leaves over for the next read, `rd` the read in progress, during which the program is
suspended. `written` is a history of what the program wrote; `write` returns a promise that
nobody waits for, and to the program every write succeeds. `Lands` is the browser taking a view
that `write` handed out, and reads the program's memory only then; `Reuse` is the program using
that memory for something else. `LandFails` and `CommitFails` put the stream in error
(`failed`): a write that fails takes those queued behind it along and a close that waits, later
ones are rejected (`WriteRejected`, `AfterClose`), the file stays as it was, and write's catch (`playsys.ts:271`)
makes an error code of it that reaches nobody. `touched` is the set of the writes whose memory
changed, or was detached, before they landed.

`seek` is reached only through openat's append flag, which throws first, so no action calls
it, and that its three whence constants are the same number has no effect.

### IoRings

Addresses are pages, sizes are bytes. `MemAlloc` maps the size with the header of 64 bytes
and `MemFree` unmaps the size without it, as the code does; the header's size field is
`sizeAt`. `SetupNoRings`, `SetupNoSqes` and the two outcomes of `Setup` are the ways a setup
can end, each with `CtxFree` run over the context as it then is, *with the leftovers of the
ring before*. That `sq_entries` is reset is the model's (the code leaves a number nobody
reads). Nothing in this code submits or completes entries.

### ElasticTab

One action per call of `etab_write` or the final `etab_flush`; a call is a recursive function
over the characters, as in the code. A cell is its size in the buffer, its width and whether
a tab ended it. `Rendering` is a definition of the output from the whole text, without
cells that are still open, lines that are still kept, or flushes in between. Tab padding,
`ETAB_ALIGN_RIGHT`, `ETAB_DEBUG` and failing allocations are left out; specgen uses none of
the flags. A line with more than `ETAB_MAX_COLS` cells loses text (`elastictab.c:125`), and
`TableInv` and `Rendered` are about lines that fit.

### MdText, MdBlocks, SpecTables, SpecDoc

A document grows by a line per step, so every prefix of every document is a state. `Analysis`
is `md_analyze_line`: it matches the line against the open containers, classifies it and
opens and closes containers; `Process*` are the branches of `md_process_line`. `ctx.blocks`
stands for `block_bytes`; `Finish` closes what is open and replays the blocks as callbacks.
A text is a sequence of characters of a small alphabet. Of the seven kinds of raw HTML the model
has one for each way to end or interrupt; link definitions have no titles.

`SpecTables` is `mdp_t` and the tables of `doc_t`: one step per callback (`Report`, `Callback`). A
marker, an empty link whose title is the id of the next table, is written `@` with the id, as the
inline phase is not part of this model: any text that begins with `@` counts as one, also in code. `place` says where in a table the parser of the text is,
and so which callback may come next: those of the grammar in `md_on_enter_block` with the rows and
columns that the table's detail announced. `heard` is a history of the tables that have a name, by
the rows and cells entered, without counters. The callbacks are of any number, the tables of any
size, their names in any order: also one within a table, which names the next.

`SpecDoc` folds the callbacks of the block phase through `SpecTables`. That md4c reports tables in
the way `SpecTables` expects is a property here (`AsAnnounced`): each document's callbacks are steps of
`TablesSpec`. `NamedTables` says, from the blocks and not from the callbacks, which tables a document
names.

### MdInlines

Each mark is collected, each chain resolved and each turn of `md_process_inlines` taken by a
step of its own. `marks` is `ctx->marks`, `chains` the unresolved openers, `scan` what
`md_is_code_span` remembers of scans that failed. `CodeSpans` and `Emphasis` are CommonMark's
rules, written without marks. Where a mark stands in what follows a link's text, `[a](*b) c*`,
the code reports the end of an emphasis it never began (`md4c.c:4051` skips the marks it
passes and leaves them resolved); `SpansNested` is about texts without such marks.

## 3. The runs

Every run is complete within its bounds. Deadlock is checked, except where the
system really stops (`GuiSurf` when every surface is closed and no event is
allowed any more; `Syscalls` and `GuiSurf` after a wild pointer; `JsProcess` when the program
is over; `JsFiles` and `IoRings` when the bounds on their histories are reached; `ElasticTab`
and `SpecDoc` after the end of their input).

| run | asks | bounds and why they are enough | result |
|---|---|---|---|
| `vfile_map` | do the arrays implement the table? (`MapInv`, `SearchWindow`, `ImplementsFdTable`, `CallReturns`) | 2 slots grown to 4, 5 descriptors in all, 2 files, one pipe file. Both halves of a search, an insertion in front, the growth, the full map and its error all occur, and the search loop runs up to three turns | holds |
| `vfile_two_pipes` | do earlier keys survive an insertion? (test, `vfile.c:218-223`) | 4 slots, two pipe files | violated |
| `ringbuf` | is it a queue, and what does a move keep of it? (`BufferInv`, `ImplementsByteQueue`) | 4 bytes grown to 6 and to 8, at once or one after the other, two byte values, transfers of up to 2. All offsets, wrapped and straight, chunks that overlap, and both outcomes of memcpy occur | holds |
| `syscalls` | who owns what, failing opens included? (`TablesInv`, `Owned`) | 5 host descriptors, 3 slots, 2 heap addresses, 3 contexts: a device, its shadowed number, two surfaces and rings closed in every order, all tables at their limits. `Owned` is claimed until an open fails half-way, `TablesInv` always, both with one device open at a time | holds |
| `syscalls_release` | is an object released on its close only? (`base.h:125`) | as above | violated |
| `gui_surf` | messages in order and whole from the last growth on, windows owned, messages arrive (`WindowInv`, `StreamIntact`, `Delivered`) | 2 surfaces, buffers of one message that may grow twice, up to three, 2 sizes per window, 2 pending events, reads of 0 and 3 halves of messages. Growth that loses any bytes and growth that is refused, a message cut by a read, a callback for the surface that is not being read, and one for a window left by a failed open all occur. `StreamIntact` and `Delivered` are claimed of a surface until a growth of its buffer is refused | holds |
| `js_process` | is each call answered once and nothing run that is over; are descriptors apart; is text kept? (`ProcessInv`, `OneAnswer`, `FdsPartitioned`, `LinesKept`, `SettledStays`, `CallsReturn`) | 5 descriptors, 2 calls that suspend, 2 pieces of standard output, of which one may be half a character. A second call while nothing of the first may be left, reuse of two closed descriptors in either order, and a late completion after the end all occur | holds |
| `js_files` | is a memory file one file, a stream read whole, a picked file replaced whole or not at all? (`ReadInv`, `AllOrNothing`, `ImplementsByteFile`, `Answered`) | 2 handles, pages of 2 bytes, a file of up to 4 bytes in two values, calls of up to 2 bytes; a stream of 3 bytes in chunks of up to 2; 2 writes. Two growths of the buffer with the other handle on either side, views detached before, during and after each call, chunks cut by reads on both sides, a failing write with another behind it, after it or none, and a failing close all occur | holds |
| `io_rings` | is a ring's memory its own and given back, and are contexts reclaimed? (`MemoryInv`, `RingsMapped`, `ContextsReclaimed`, `Layout`) | 3 contexts, 8 pages, rings of 1, 64 and 128 entries, asked for by 1, 33 and 128; a request that is clamped, whose rings never fit. Every failure over every leftover, and blocks that leave a page behind and blocks that do not | holds |
| `elastic_tab` | is the output independent of the cuts, and aligned? (`TableInv`, `Rendered`) | 4 writes of one of 11 texts (each special character, lines and parts of lines), 3 columns, 3 configurations. Escapes, cells and lines cut anywhere, early flushes, columns that end and begin again | holds |
| `spec_doc` | do blocks nest and lose nothing, are tables reported as announced, and are those of specgen right? (`BlocksInv`, `Nested`, `NothingLost`, `AsAnnounced`, `WritesInTable`, `TablesHold`, `TablesMatch`) | 19 lines, one for each way to start, continue or end a block: every document of any 3 of them, of 4 of the 12 that make leaf blocks, of 5 of the 8 that open and close containers, and of 6 of the 5 that make tables | holds |
| `md_inlines` | are spans brackets, and CommonMark's? (`MarksInv`, `SpansNested`, `TextOnce`, `CodeSpansFound`, `EmphasisAsSpecified`, `Advances`) | all texts of up to 9 asterisks and letters, up to 8 back-ticks and letters, shorter ones with blanks, underscores and line ends, rows of up to 4 characters, and texts of up to 5 pieces of links, images, entities, HTML and emphasis. Runs split three times, each order of crossing spans, and rollback over several chains occur | holds |

The violated properties are what a comment, a test or the specification says;
`PROJECT.json` quotes the line and says what the code does instead. Each property of a
passing run has a mutant, a plausible bug in one definition, under which that run fails.

`Syscalls` is explored under a VIEW that leaves out `ret`: every call overwrites it, no
guard reads it, and the action properties only use its new value. `Objs` and `Files` are
interchangeable and taken as symmetry sets; the liveness property of `vfile_map` is
checked without symmetry.

**Further configurations.** Nine more configurations check one property each that the code does
not have, where a comment, a test, the specification or the use of the code suggests it does.
They are kept for whoever changes that code:

| configuration | property | what TLC shows |
|---|---|---|
| `MCVFileMapHeapGrow` | `EntryFdIsKey` (test, `vfile.c:201`) | the second growth moves the arrays with realloc and leaves the second one where the old capacity had it |
| `MCRingBufOverlap` | `MoveKeepsAll` | growing 4 to 6 to 8, one message at a time as `grow_rbuf` does, lets chunk and destination overlap, and bytes are lost |
| `MCSyscallsDevice` | `DeviceIsDevice` (`wgpu.cc:233`) | the tag test takes a surface for a device |
| `MCGuiSurfZero` | `ShortMeansGone` (`spec.md:361`) | a mouse event wakes a read, which returns 0 while the surface is there |
| `MCGuiSurfClose` | `TakenIsReturned` (`glfw.cc:52`) | a read that finds the window closed has already taken bytes and does not report them |
| `MCGuiSurfGrow` | `GrowthKeepsAll` | a buffer that grows for a message loses bytes of those before it (`glfw.cc:24`) |
| `MCJsProcessCut` | `CharactersKept` | a character written in two parts comes out as two replacement characters (`playsys.ts:489`) |
| `MCJsFilesReuse` | `CommitsWritten` | the program uses its memory again after `write` has returned 0, and the file gets what is there then (`playsys.ts:267`) |
| `MCSpecDocItem` | `EmptyItemEnds` (`md4c.c:5856`) | the last eight bytes of `block_bytes` are read as a block although they are a line, so a blank line ends an item that is not empty |

`MCSpecTables` checks `WritesInTable` and `TablesHold` over `SpecTables` alone, for every stream of
callbacks with tables of up to 2 columns and 2 rows, 2 named tables and 3 texts; both hold. It is the small
instance of what `SpecTablesProofs` proves.

**What the bounds leave out.** `ringbuf` cannot reach a capacity that does not divide
2^32 while `w` still holds its initial value, nor can the code: the first growth comes
after the first write. Buffers of realistic size differ from 8 bytes in nothing the
operations look at. A page of 2 bytes in `js_files` keeps the only thing rounding does: a
buffer may be longer than asked for, or not. Containers of `spec_doc` nest as deep as a document has
lines, or two more by a line that opens two. In `syscalls` descriptors of virtual files are bounded by `MaxFd`,
which limits how often closed numbers at the top are reused.

**Fairness.** `VFileMap` assumes only that a running C function takes its next step
(weak fairness of `Run`); no call need ever be made. `GuiSurf`'s `Spec` assumes that a
waiting read goes through its events and returns (weak fairness of `WaitEvents` and of
`ReadEnds`: once there is an event, `glfwWaitEvents` and the read are code that runs), and
that the program is in the loop of `spec.md:358-364` (strong
fairness of reading at least a byte of each surface: a single-threaded program that turns
to its surfaces in some order reads each one time and again when it can, although another
surface's read makes it impossible meanwhile). `LivelySpec` adds that the window system
keeps sending events, be it only the mouse's, which no code guarantees: without events a
read waits for ever (`glfw.cc:70`), and with it every other surface. `JsProcess` assumes
that JavaScript, once entered, goes on (weak fairness of unwinding and rewinding) and that
promises and timers complete (weak fairness of `Succeeds` and `Fails` together, since
which of them is not the program's choice). `JsFiles` assumes that the browser answers: a
stream that is waited for yields, ends or fails, a read that has its bytes returns, and a
writable stream takes what was written to it or fails, and commits when it is closed or fails
to (weak fairness of `Lands` and `LandFails` together, and of `Commit` and `CommitFails`). The other modules
state no fairness; that the loops of `MdInlines` end is shown by a measure (`Advances`).

## 4. The proofs

`VFileMapProofs` proves for every capacity, set of descriptors and set of files that
the map is correct as long as it is used within `SafeUse`:

    THEOREM MapCorrect  == SafeUse => (Spec => []MapInv)
    THEOREM SearchExact == SafeUse => (Spec => []SearchWindow)

Assumed are `MapConstants` (the parameters are natural numbers, host descriptors lie
below `FdMin`) and `SafeUse`. `KeysSorted` is not inductive: whether an insertion keeps
the order depends on the search that came before it. `SearchWindow` supplies what every
search knows (all below `low` is smaller, all from `high` on is larger). It is still not
enough for `Set`, which does not insert at `low` but where `i` and `d` say, and with
other pipe files open that is the wrong place. What makes it right within `SafeUse` is
`SetGoesFirst`: a new pipe descriptor is smaller than every key there is, so the search
only ever moves down, `high = i` after the first probe, and the last probe is slot 0.
The inductive invariant `IInv` is the four properties with `SetGoesFirst`. The lemmas
go action by action; `GrowthKeeps` says that growing leaves the used part of both
arrays alone (this needs the second half of `SafeUse`) and `NoPipeOpen` turns
`MaxPipes <= 1` with a free pipe place into "all keys are virtual".

That the arrays implement the table of descriptors is proved under the same assumptions:

    THEOREM MapImplements ==
      SafeUse => (Spec => ImplementsFdTable)

`TableInv` adds to `IInv` what a call carries: a descriptor that may be named and, between the
two parts of a close, the file of the entry that is about to go. For each call that changes the
map one lemma says what becomes of the arrays (`AllocArrays`, `SetArrays`, `DeleteArrays`) and
another reads this as one step of the table; `TableAt` and `TableUnique` turn facts about entries
into facts about the function, which needs that no key occurs twice. `FoundEntry` is
`SearchWindow` put to use: a search that ends without a hit has shown that the key is not open.

`JsProcessProofs` proves of the browser process, for every `MaxFd`,
`MaxCalls`, `MaxText`, set of followed streams and set of possible writes that satisfy
`JsConstants`:

    THEOREM CallsAnswered    == Spec => [](AssertsHold /\ OneAnswer)
    THEOREM SettledForGood   == Spec => SettledStays
    THEOREM DescriptorsApart == Spec => []FdsPartitioned
    THEOREM TextGoesOut      == Spec => []LinesKept
    THEOREM ProcessSound     == Spec => []ProcessInv

The first two rest on `ControlInv`. `OneAnswer` says what is pending while `run` has not
settled, but a completion acts in the same way afterwards, so the invariant also has to say
what a settled process may be (`OverIsOver`): `main` is settled exactly when `prog` is `over`.
A completion then finds `prog` over and leaves it over. `SettledForGood` says that after
`run`'s promise is settled nothing runs, prints or settles it again, also when the program was
killed while it was unwound.
`DescriptorsApart` rests on `FdInv`: the free list has no repetition, holds closed
descriptors up to `max_fd` only, and holds all of those. `NextFdFacts` says what `allocFd`
takes and leaves, `Pushed` what an append to the list does; an open that fails is one
after the other.

`TextGoesOut` rests on `TextInv` together with the two invariants above: `OverIsOver` says when
a writer must have let go of everything, and no descriptor becomes a line writer after the
start. `DecodedJoined` says that writes decoded one by one give what the pieces give one by one,
which holds because no piece depends on its neighbours, and is why a cut character stays cut. That
there is a last newline to cut at is `LastOf`, from the well-foundedness of <. `ProcessSound`
puts the three invariants together.

`JsFilesProofs` proves that a picked file is replaced by all that the program wrote or not at
all, for every number of regions and of writes, any failures and any end of the program:

    THEOREM WritesLand == Spec => []AllOrNothing

Only the writes that are `touched` may differ or be missing. The property is about what has
landed and what is committed; `OutputInv` adds what waits. `QueueInv` says that a view which waits
stands behind all that has landed and those before it, and that it still shows what was written
unless it is touched; `StreamInv` that a stream in error holds nothing and does not close, and that
a file which is committed changes no more. `MemoryChanges` is what the growth and the use of memory share,
`UnqueuedOutput` what the two writes that are not queued share: their number is missing from
what lands, which is allowed only because it is touched or the stream is in error.

It proves the refinement, for all bytes, handles, page sizes and lengths of calls:

    THEOREM FileImplemented == Spec => ImplementsByteFile

Assumed is `FilesConstants` (numbers are natural, there is a handle, zero is a byte). A
`ByteFile` has no buffer, only the bytes up to its size; the mapping cuts the buffer at
`size`. What has to be known for that is `FileInv`: the size is at most the buffer's length, the buffer
is a function on 0 .. length - 1, and no handle stands behind the size. `GrownHolds` says that
growing copies what was there, `AlignedUp` that rounding to pages gives at least what was
asked for. `FileWrite` and `FileRead` are the two steps that move something, `FileGone` the
programs that die with a file open or in the middle of a write.

And it proves that reads give a program its stream, for any chunks and lengths of reads:

    THEOREM ReadsGiveStream == Spec => []ReadInv

What was returned, what the read in progress has put into memory and what was left over from
the last chunk make one sequence, `Stream`. `InputInv` says of it that it is ordered, that
nothing in it is beyond what has arrived, and that nothing is missing until a read has failed.
None of this would last if a chunk could come while something is left over, for `rbuf` is then
overwritten: the invariant needs that a read which waits for a chunk has emptied `rbuf`.
`PlacedAndLeft` says how a chunk is cut between the memory and `rbuf`.

`IoRingsProofs` proves, for every table, address space and set of requests,

    THEOREM RingsStay        == Spec => []RingsMapped
    THEOREM ContextsComeBack == Spec => []ContextsReclaimed
    THEOREM MemoryComesBack  == Spec => []MemoryInv
    THEOREM RingsLaidOut     == Spec => []Layout

`RingsMapped` is not inductive: a clean-up unmaps as many pages as the header of the block
says, in a context that may have been used before. `RingsInv` adds that a header in use holds the
size of its block (`Holds`), that contexts without a ring hold no addresses, and that rings in
use lie below the count. `FreeKeeps` says that freeing a block leaves every other one: it unmaps
at most the block's own pages (`FreedIsMapped`), and so clears no other header. `CountFacts` says
that the count ends behind the last context in use.

`MemoryComesBack` needs an account of every page (`BooksInv`): what is mapped beyond the blocks
of open rings is at most one page for each big block that was freed. `OnePageMore` says that the
size without the header falls short of the block by one page at most, `FreeAccounted` and
`AllocAccounted` how the account changes; an unsuccessful setup returns to where it began.
`RingsLaidOut` is arithmetic, but only of the entries a context can hold, which `EntriesInv` of
`BooksInv` keeps. A request above 32768 entries that asks for clamping gets fewer than it asked for:
`Layout` compares with the clamped number (`EntriesFit`).

`RingBufProofs` proves, for every capacity, word size, set of growths and length of calls,

    THEOREM BufferSound == Spec => []BufferInv
    THEOREM RingIsQueue == Spec => ImplementsByteQueue

`RingInv` adds to `BufferInv` that the bytes between the offsets have been written, and that `w`
has its odd initial value, `Word` - 1, only in a buffer not written to. `At(k)` says where the
k-th buffered byte lies. `PutMem` and `TakeBytes` are the two memcpy calls of a write and a read that
wraps, `MoveFacts` the three cases of a move: the indices agree whichever way memcpy treats an
overlap. There is no hypothesis about growth. What the growth decides is how many bytes
survive a move, and that the first `cap' - cap` do is what has to be shown of a chunk that
overlaps its destination, copied upwards or downwards. A growth to at least twice the size keeps
all; the growth of `grow_rbuf`, one message to a buffer of 4096 bytes, does not
(`MCRingBufOverlap`).

`SyscallsProofs` proves, for every number of host descriptors, slots, addresses and contexts,

    THEOREM TablesAgree       == Spec => []TablesInv
    THEOREM EachOwnsItsObject == Spec => []Owned

`SysInv` states everything as a relation between a map, a host table, a heap and a set of
contexts (`Backed`, `OwnedIn`, `PackedIn`), because half of what is to be shown is about maps no
state holds: an open that fails has entered an entry, and taken it out again, within one step.
`Inserted(m, n, p, e)` says that `n` is `m` with one entry more, and so read backwards that `m` is
`n` with one entry less; `InsertOwned` and `RemoveOwned` are what opening and closing a file need
of it, and there is one lemma per call. `Owned` is about histories in which no open has
failed half-way, as after one the code releases an object that is not its own (`syscalls_release`).

`GuiSurfProofs` proves, for every number of windows, capacity and limit of it, number of sizes and
of pending events, and size of reads,

    THEOREM SurfacesOwned == Spec => []WindowInv
    THEOREM MessagesInPlace == Spec => []StreamIntact

`StreamIntact` says of what the reads returned, what the waiting read holds and what is buffered
that every header and payload is in its place, or a lost byte where it was, and that nothing is
lost of the message for which the buffer last grew and of those that follow it.
It is not inductive: that the next message to be posted is the next in order is
a fact about the events still pending. `SizesInOrder` of the inductive invariant `SurfInv` states
it: for each open window, the sizes on their way are those between the last posted and the last
given, in order (`UnderWay`). `BuffersFit` adds that a buffer which was not refused a growth
takes a whole message, and `Unopened` that nothing has come for a surface before it is
opened. `SizeQueued` and `SizeTaken` say what a new and a delivered event do to what is on its
way, `NextFrame` that one more message makes the next row of frames, `TakenAndLeft` that a read
cuts the queue in two without loss, wherever it cuts a message.

`SpecTablesProofs` proves, for every stream of callbacks, size of a table and order of names,

    THEOREM ColumnsInTable == TablesSpec => []WritesInTable
    THEOREM TablesComplete == TablesSpec => []TablesHold

Neither is inductive: `mdp_t` only has counters, which are stopped at the size of the table and
never compared with anything. `TablesInv` says that in a table with a name the counters are one behind the rows and
cells entered (`Numbered`), which never exceed what was announced (`PlaceFits`), that what was heard has
just these rows and cells (`Recorded`), and that every table, also a finished one, holds what was
heard of it (`AllHold`). `Agrees` states this of any parser, place and history, and there is one lemma per
callback, that `Agrees` survives it (`Kept`). A table without a name, or within one, changes nothing
(`NotInTable`); `LastChanged` is what rows, cells and text share: the last table and what was heard of it
change together. `CellHeld` is the one with the arithmetic: a text goes to the row `trow - nthrows` and
may make a column wider, of which some cell then is the widest (`Widest`).

Only model-checked:

* `ElasticTab`, `MdBlocks`, `SpecDoc` and `MdInlines`: they read text with RECURSIVE operators,
  which the prover does not support. That the callbacks of md4c are such as `SpecTables` expects
  (`AsAnnounced`) and that the tables are the document's (`TablesMatch`) stay with TLC;
* liveness (`CallReturns`, `Delivered`, `CallsReturn`, `Answered`), since the prover does not
  reason about fairness and ENABLED.

Every invariant and every refinement of the other modules' runs is proved.

## 5. Not modelled

* Dawn, GLFW, the host kernel, the browser and the WebAssembly engines appear only as what the
  code expects of them. The choice of a GPU adapter and the WebAssembly bridge of the wgpu library
  (`ctx_wasm.c`) are calls of theirs; nothing of what they do is decided in this repository.
* `exit`, `sleep`, `test`, `seek` and the not-implemented calls of the native layer keep no
  state; `openat`'s translation of flags and the mapping of host errors are left out. In
  the browser `seek` is called only by `openat`'s append flag, whose handling throws before
  it gets there (`JsProcess`).
* Of `md4c.c`: the extensions specgen does not turn on (wiki links, strike-through,
  LaTeX, underline), permissive autolinks, names of entities, Unicode classes and case folding, and
  link reference definitions that take several lines. The rules for letters are ASCII's.
* Of specgen: the templates it expands, its argument parser, and what it prints of types
  and calls.
* Of the backend helpers: checked arithmetic, copying and error strings.
* Headers, among them the vendored `webgpu.h`, hold types and constants. Examples and build
  scripts are not part of the system.

`PROJECT.json` lists every part with its reason.

## 6. Plan

1. *specgen*: the output of types and calls from the tables read, through the tab writer,
   which would compose `SpecDoc` with `ElasticTab`; then templates and arguments.
2. *md4c*: link reference definitions over several lines, and permissive autolinks.
3. *Proofs*: the chains of `MdInlines`, one mark per step and without reading text, so that
   the spans can be shown never to cross, for every sequence of marks.
