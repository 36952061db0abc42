------------------------- MODULE MCLegacyScreenshot -------------------------
(* Requests of one family; file names may be drawn in two seconds. *)
EXTENDS LegacyScreenshot
==============================================================================
