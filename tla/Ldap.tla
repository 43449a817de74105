-------------------------------- MODULE Ldap --------------------------------
(***************************************************************************)
(* connector/ldap.rs as the proxy uses it: what each method of             *)
(* LdapConnector makes of a message. A message is a record whose op names  *)
(* its ProtocolOp ("malformed" if BER decoding fails), with the fields     *)
(* the methods look at. A DN is spelled in some case; an attribute is the  *)
(* one its description names, by name or OID, without options; the value   *)
(* written to it is what classify_lock_write can read from its text.       *)
(*                                                                         *)
(* Bounding the length of a DN (cap_dn) is not modelled. Definitions whose *)
(* comment begins with "Faulty" are mistakes that properties of Connection *)
(* exclude.                                                                *)
(***************************************************************************)
EXTENDS Sequences

\* Option::None, and the Err of a message that cannot be decoded.
Absent == "absent"
Undecodable == "undecodable"

-----------------------------------------------------------------------------
(* Messages of a client *)

SimpleBind(dn, spelling, password) ==
  [op |-> "BindRequest", authentication |-> "simple",
   name |-> [dn |-> dn, spelling |-> spelling], password |-> password]
SaslBind(dn) ==
  [op |-> "BindRequest", authentication |-> "sasl",
   name |-> [dn |-> dn, spelling |-> "lower"], password |-> Absent]
Modify(changes) == [op |-> "ModifyRequest", changes |-> changes]
Extended(name, value) == [op |-> "ExtendedReq", requestName |-> name, requestValue |-> value]
Plain(op) == [op |-> op]

Change(operation, attribute, value) ==
  [operation |-> operation, attribute |-> attribute, value |-> value]

\* The op of the response RFC 4511 has for a request.
ResponseOp(message) ==
  CASE message.op = "BindRequest" -> "BindResponse"
    [] message.op = "ModifyRequest" -> "ModifyResponse"
    [] message.op = "DelRequest" -> "DelResponse"
    [] message.op = "AddRequest" -> "AddResponse"
    [] message.op = "ModDnRequest" -> "ModDnResponse"
    [] message.op = "ExtendedReq" -> "ExtendedResp"
    [] OTHER -> "SearchResultDone"

-----------------------------------------------------------------------------
(* What LdapConnector makes of them *)

LockAttributes ==
  {"pwdAccountLockedTime", "userAccountControl", "nsAccountLock", "shadowExpire"}

\* Two schemas say in the value whether it locks; for the others, and for a
\* value that cannot be read, the write is taken for a lock.
ClassifyLockWrite(change) ==
  IF change.attribute \in {"userAccountControl", "nsAccountLock"} /\ change.value = "unlocks"
    THEN "AccountUnlock" ELSE "AccountLock"

\* The changes to a lock attribute by one of these operations, in order.
LockChanges(changes, operations) ==
  SelectSeq(changes, LAMBDA c : c.operation \in operations /\ c.attribute \in LockAttributes)

\* decode of a Modify goes by the first write of a lock attribute, or else by
\* whether one is deleted.
ModifyOperation(changes) ==
  LET writes == LockChanges(changes, {"Add", "Replace"})
  IN  IF writes # <<>> THEN ClassifyLockWrite(Head(writes))
      ELSE IF LockChanges(changes, {"Delete"}) # <<>> THEN "AccountUnlock"
      ELSE Absent

\* The OperationKind of the Action, if the message is one.
Decode(m) ==
  CASE m.op = "ModifyRequest" -> ModifyOperation(m.changes)
    [] m.op = "DelRequest" -> "Delete"
    [] m.op = "AddRequest" -> "Create"
    [] m.op = "ModDnRequest" -> "Rename"
    [] m.op = "ExtendedReq" ->
         IF m.requestName # "PasswordModify" THEN Absent
         ELSE IF m.requestValue = "malformed" THEN Undecodable ELSE "PasswordReset"
    [] m.op = "malformed" -> Undecodable
    [] OTHER -> Absent

\* Every spelling of a DN is one identity.
NormalizeBindDn(name) == name.dn

\* Faulty: any bind claims its DN, one without a password too.
ClaimAnyBind(m) ==
  IF m.op = "BindRequest" THEN NormalizeBindDn(m.name) ELSE Absent

\* bind_request: the DN a bind claims with a password. (Directories accept
\* binds without one, which proves nothing.)
BindRequest(m) ==
  IF /\ m.op = "BindRequest"
     /\ m.authentication = "simple"
     /\ m.name.dn # "" /\ m.password # ""
    THEN NormalizeBindDn(m.name) ELSE Absent

\* upgrade_request recognises a StartTLS request.
UpgradeRequest(m) == m.op = "ExtendedReq" /\ m.requestName = "StartTLS"

\* Faulty: every rejection is the one of a Modify.
RejectAsModify(m) == "ModifyResponse"

\* The op of the response build_rejection builds, if it can build one.
BuildRejection(m) ==
  CASE m.op = "ModifyRequest" -> "ModifyResponse"
    [] m.op = "DelRequest" -> "DelResponse"
    [] m.op = "AddRequest" -> "AddResponse"
    [] m.op = "ModDnRequest" -> "ModDnResponse"
    [] m.op = "ExtendedReq" -> "ExtendedResp"
    [] OTHER -> Absent

\* bind_response: the verdict of a bind's response, of whatever kind of bind.
BindResponse(response) ==
  IF response.op # "BindResponse" THEN Absent
  ELSE IF response.success THEN "accepted" ELSE "refused"
==============================================================================
