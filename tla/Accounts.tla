------------------------------ MODULE Accounts ------------------------------
(***************************************************************************)
(* The account of a user: its sessions, the changes of its password that   *)
(* end them, and the second step of signing in.  They meet in little more  *)
(* than sessionVersion, so a behaviour shows one of them at work (bound):  *)
(* tabs that refresh, a mail that is answered, or codes that are checked.  *)
(* To the tabs a change of the password is one step.                       *)
(***************************************************************************)
EXTENDS PasswordChange, Mfa

VARIABLE scene   \* which of them is at work

vars == <<sessionVars, changeVars, mfaVars, scene>>

TypeOK == SessionsTypeOK /\ ChangeTypeOK /\ MfaTypeOK /\ scene \in {"tabs", "mail", "codes"}

Init == SessionsInit /\ ChangeInit /\ MfaInit /\ scene \in {"tabs", "mail", "codes"}

Tabs ==
  \/ Tick \/ (\E c \in Call : CallStep(c))
  \/ BeginRevokeAll \/ RevokeAll \/ AbortRevokeAll \/ BumpVersion
  \/ \E s \in Session : BeginSignIn(s) \/ SignIn(s) \/ Revoke(s)

Next ==
  /\ UNCHANGED scene
  /\ \/ scene = "tabs" /\ Tabs /\ UNCHANGED <<changeVars, mfaVars>>
     \/ scene = "mail" /\ ChangeStep /\ UNCHANGED mfaVars
     \/ scene = "codes" /\ MfaStep /\ UNCHANGED <<sessionVars, changeVars>>

Spec == Init /\ [][Next]_vars

\* The invariant of all three.
AccountInv == TypeOK /\ RotationInv /\ ChangeInv /\ AttemptInv
=============================================================================
