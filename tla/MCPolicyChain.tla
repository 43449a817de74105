--------------------------- MODULE MCPolicyChain ---------------------------
(* A per-identity policy for every operation, before a stricter one for    *)
(* deletes that pools all identities. The first has room for one identity. *)
EXTENDS PolicyChain, TLC

ConnSymmetry == Permutations(Conn)

MCPolicies ==
  <<[scope |-> "PerIdentity", maxPerRequest |-> 2, maxPerWindow |-> 2, window |-> 1,
     maxTracked |-> 1, operations |-> {"lock", "delete"}],
    [scope |-> "Global", maxPerRequest |-> 2, maxPerWindow |-> 1, window |-> 1,
     maxTracked |-> 2, operations |-> {"delete"}]>>

MCAction == [operation : {"lock", "delete"}, blastRadius : {1}]
==============================================================================
