--------------------------- MODULE MCUpstreamClient ---------------------------
(* UpstreamClient on small instances; the unit of time is thirty seconds, *)
(* with the deadline of the probe rounded up.                             *)
EXTENDS UpstreamClient
=============================================================================
