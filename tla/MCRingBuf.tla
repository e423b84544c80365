----------------------------- MODULE MCRingBuf -----------------------------
(* Instances of RingBuf for TLC. *)
EXTENDS RingBuf

CONSTANTS b1, b2

MCBytes == {b1, b2}
(* The test doubles its buffers (ringbuf_test.c:26-27); grow_rbuf adds      *)
(* room for one message at a time (glfw.cc:20).                             *)
Doubling == {<<4, 8>>}
ByMessage == {<<4, 6>>, <<6, 8>>}
EitherWay == Doubling \cup ByMessage
=============================================================================
