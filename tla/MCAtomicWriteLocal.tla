-------------------------- MODULE MCAtomicWriteLocal --------------------------
(* Two invocations, which may draw the same temp name, files of two blocks. *)
EXTENDS AtomicWriteLocal
CONSTANTS w1, w2, t1, t2, old
TwoWriters == {w1, w2}
TwoNames   == {t1, t2}
==============================================================================
