---------------------------- MODULE MCAsyncRequest ----------------------------
(* One worker, so a queue of two, which three requests can overfill. *)
EXTENDS AsyncRequest
==============================================================================
