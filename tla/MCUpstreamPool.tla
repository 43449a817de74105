--------------------------- MODULE MCUpstreamPool ---------------------------
(* A small instance of UpstreamPool. The connections are interchangeable,  *)
(* but a liveness property is checked, so symmetry is not used.            *)
EXTENDS UpstreamPool
==============================================================================
