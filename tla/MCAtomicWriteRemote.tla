-------------------------- MODULE MCAtomicWriteRemote --------------------------
(* Two invocations, as many temp names, files of one or two blocks. *)
EXTENDS AtomicWriteRemote
CONSTANTS w1, w2, t1, t2, old
TwoWriters == {w1, w2}
TwoNames   == {t1, t2}
==============================================================================
