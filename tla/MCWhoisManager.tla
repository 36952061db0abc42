--------------------------- MODULE MCWhoisManager ---------------------------
(* Two providers; a query, a direct query and a health check. *)
EXTENDS WhoisManager
==============================================================================
