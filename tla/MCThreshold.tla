---------------------------- MODULE MCThreshold ----------------------------
(* Small instances of Threshold. *)
EXTENDS Threshold

\* With MaxPerRequest = 3 and MaxPerWindow = 2: requests that fit alone and
\* together, one that never fits the window, one too large, one not policed.
MCAction ==
  [operation : {"lock"}, blastRadius : 1..4]
    \cup {[operation |-> "delete", blastRadius |-> 1]}
==============================================================================
