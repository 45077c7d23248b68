-------------------------------- MODULE MCRelay --------------------------------
(* The longest request and one or two blocks of data; two blocks of answer. *)
EXTENDS Relay
FewBlocks == [s \in Sides |-> IF s = "stream" THEN 4 ELSE 2]
==============================================================================
