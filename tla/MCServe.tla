------------------------------ MODULE MCServe -------------------------------
(* Small instances of Serve. The connections are interchangeable, but a    *)
(* liveness property is checked, so symmetry is not used.                  *)
EXTENDS Serve
==============================================================================
