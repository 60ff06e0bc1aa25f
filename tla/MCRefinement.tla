-------------------------- MODULE MCRefinement --------------------------
(***************************************************************************)
(* The instances of MCHandler for checking that Handler implements         *)
(* Exporter.                                                               *)
(***************************************************************************)
EXTENDS MCHandler, Refinement

\* Two events with one key.
RefinementEvents == {Completion, OtherPath}

=============================================================================
