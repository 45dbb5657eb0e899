-------------------------- MODULE MCSourceRefresh --------------------------
(***************************************************************************)
(* Instances of SourceRefresh for TLC.  Requests and document places are   *)
(* interchangeable.                                                        *)
(***************************************************************************)
EXTENDS SourceRefresh

Symmetry == Permutations(Handlers) \cup Permutations(Docs)

OneText == {<<"a">>}

=============================================================================
