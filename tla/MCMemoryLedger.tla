--------------------------- MODULE MCMemoryLedger ---------------------------
(***************************************************************************)
(* Instances of MemoryLedger for TLC.  Identifiers are interchangeable, as *)
(* the code makes them at random.                                          *)
(***************************************************************************)
EXTENDS MemoryLedger, TLC

IdSymmetry == Permutations(Ids)

=============================================================================
