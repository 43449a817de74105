----------------------------- MODULE LdapProofs -----------------------------
(* What handle_client_frame takes for granted of the connector.            *)
EXTENDS Ldap, TLAPS

\* Whatever decode takes for an action, build_rejection can answer when it is
\* blocked, and with the response that the client expects of the request: the
\* bail! of build_rejection is never reached from handle_client_frame.
THEOREM EveryActionRejectable ==
  ASSUME NEW m, Decode(m) \notin {Absent, Undecodable}
  PROVE  BuildRejection(m) = ResponseOp(m) /\ BuildRejection(m) # Absent
<1>1. m.op \in {"ModifyRequest", "DelRequest", "AddRequest", "ModDnRequest", "ExtendedReq"}
  BY DEF Decode, Absent, Undecodable
<1>2. QED
  BY <1>1 DEF BuildRejection, ResponseOp, Absent

\* What bind_request stages a claim for is never an action: no frame both
\* claims an identity and is charged to one.
THEOREM ClaimsAreNoActions ==
  ASSUME NEW m, BindRequest(m) # Absent
  PROVE  Decode(m) = Absent
<1>1. m.op = "BindRequest"
  BY DEF BindRequest
<1>2. QED
  BY <1>1 DEF Decode, Absent
==============================================================================
