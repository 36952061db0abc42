------------------------- MODULE MCScreenshotBreaker -------------------------
(* One client that asks again and again while Chrome is out. *)
EXTENDS ScreenshotBreaker
==============================================================================
