---------------------------- MODULE MCWriterLock ----------------------------
(* Small instances of WriterLock for TLC.                                  *)
EXTENDS WriterLock, TLC

CONSTANTS w1, w2, w3

Symmetry == Permutations(Writers)
=============================================================================
