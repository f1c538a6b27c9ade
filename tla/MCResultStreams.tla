---------------------------- MODULE MCResultStreams ----------------------------
(***************************************************************************)
(* A stream whose producer may send a batch without items.                 *)
(***************************************************************************)
EXTENDS ResultStreams

MCBatches == {<<1, 2>>, <<>>}
================================================================================
