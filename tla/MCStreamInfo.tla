---------------------------- MODULE MCStreamInfo ---------------------------
(***************************************************************************)
(* Three streams, and one place on the heap more than they need.           *)
(***************************************************************************)
EXTENDS StreamInfo

MCDefault == [mode |-> "all", sep |-> ","]

=============================================================================
