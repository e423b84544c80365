------------------------------ MODULE FdTable ------------------------------
(***************************************************************************)
(* What the virtual file layer (backends/base/vfile.c) promises to the     *)
(* syscalls above it: a table from file descriptors to open virtual files. *)
(* An open adds one fresh descriptor and touches nothing else, a close     *)
(* removes exactly the descriptor it is given, and a lookup answers with   *)
(* the file that was opened under that descriptor, or with none.           *)
(* VFileMap is the implementation, shown to refine this module.            *)
(***************************************************************************)
CONSTANTS Fds,     \* descriptors a caller may name
          Files,   \* identities of virtual files
          NoFd,    \* "no descriptor": the error answer
          NoFile   \* "no file": vfile_lookup's NULL

VARIABLES table,   \* the open files: a function from a subset of Fds to Files
          answer   \* what the last finished call reported

tvars == <<table, answer>>

Answer(op, fd, file) == [op |-> op, fd |-> fd, file |-> file]

At(fd) == IF fd \in DOMAIN table THEN table[fd] ELSE NoFile

Init == /\ table = [fd \in {} |-> NoFile]
        /\ answer = Answer("none", NoFd, NoFile)

Open(fd, file) ==
  /\ fd \notin DOMAIN table
  /\ table' = [x \in DOMAIN table \cup {fd} |->
                 IF x = fd THEN file ELSE table[x]]
  /\ answer' = Answer("open", fd, file)

OpenFails ==
  /\ answer' = Answer("open", NoFd, NoFile)
  /\ UNCHANGED table

Lookup(fd) ==
  /\ answer' = Answer("lookup", fd, At(fd))
  /\ UNCHANGED table

Close(fd) ==
  /\ table' = [x \in DOMAIN table \ {fd} |-> table[x]]
  /\ answer' = Answer("close", fd, At(fd))

Next == \/ \E fd \in Fds, file \in Files : Open(fd, file)
        \/ OpenFails
        \/ \E fd \in Fds : Lookup(fd) \/ Close(fd)

Spec == Init /\ [][Next]_tvars
=============================================================================
