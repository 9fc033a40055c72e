----------------------------- MODULE MCWatchFeed -----------------------------
(* Instances of WatchFeed for TLC.  Two handlers let one connection be     *)
(* replaced while the server still keeps the other; two messages overflow  *)
(* a queue of one and are the two that a snapshot and a broadcast can      *)
(* disagree about.                                                         *)
EXTENDS WatchFeed
=============================================================================
