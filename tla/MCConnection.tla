---------------------------- MODULE MCConnection ----------------------------
(* Small instances of Connection. The DNs are interchangeable.             *)
EXTENDS Connection, TLC

DnSymmetry == Permutations(Dn)

Lock == Modify(<<Change("Replace", "description", "other"),
                 Change("Replace", "userAccountControl", "locks")>>)

\* Binds with a password, in an odd spelling; binds the directory may accept
\* without checking one; an action.
BindMessages ==
  {SimpleBind(dn, "upper", "secret") : dn \in Dn}
    \cup {SimpleBind(dn, "lower", "") : dn \in Dn} \cup {SaslBind("")}
    \cup {Lock}

\* An action, what is none, StartTLS, and frames that cannot be decoded: as a
\* message, and as a password modification.
RelayMessages ==
  {Plain("DelRequest"), Plain("SearchRequest"), Extended("StartTLS", Absent),
   Plain("malformed"), Extended("PasswordModify", "malformed")}
==============================================================================
