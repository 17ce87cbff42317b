----------------------------- MODULE MCNearClones -----------------------------
(***************************************************************************)
(* FuzzyClones without limits, but for the predecessors of a window: five  *)
(* files of one window each, the first kind of which is near no other.     *)
(***************************************************************************)
EXTENDS FuzzyClones

Words == {<<4, 5>>, <<1, 2>>, <<1, 3>>}
MCNearSources == Words \X Words \X Words \X Words \X Words
===============================================================================
