------------------------- MODULE MCScreenshotService -------------------------
(* Three requests that any two of may have Chrome at a time, for two pages   *)
(* whose files have one name and one that has its own.  Requests are alike,  *)
(* and so are the first two pages.                                           *)
EXTENDS ScreenshotService, TLC

Symmetry == Permutations(Requests) \cup Permutations(Alike)
==============================================================================
