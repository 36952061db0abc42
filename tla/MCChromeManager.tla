--------------------------- MODULE MCChromeManager ---------------------------
(* Two screenshots, one restart and one idle monitor around one Chrome. *)
EXTENDS ChromeManager
==============================================================================
