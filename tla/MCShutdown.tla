----------------------------- MODULE MCShutdown -----------------------------
(* Both streams; the timeouts of the live command divided by the second. *)
EXTENDS Shutdown
CONSTANTS market, updates
BothStreams == {market, updates}
=============================================================================
