-------------------------- MODULE MCUpstreamClient --------------------------
(* Small instances of UpstreamClient: a second is four ticks, two of them   *)
(* between two firings of the ticker, and a backoff may end before, with or *)
(* after the next one.                                                      *)
EXTENDS UpstreamClient
=============================================================================
