---------------------------- MODULE MCChromeUtil ----------------------------
(* Two callers, the start in the background and the idle timer. *)
EXTENDS ChromeUtil
=============================================================================
