--------------------------- MODULE LaravelAccounts ---------------------------
(***************************************************************************)
(* The account of one user in the Laravel backend: AuthService,            *)
(* SessionService, AccountCodeService, PasswordChangeService, MfaService.  *)
(*                                                                         *)
(* A transaction that locks what it reads is one action.  Other requests   *)
(* look at the user, check what they were sent, and write what they have   *)
(* seen plus one.  What the clock or the count of wrong answers ends may   *)
(* end at any time.                                                        *)
(***************************************************************************)
EXTENDS Naturals

CONSTANTS
  Caller,         \* requests at work
  AuthSession,    \* sessions
  Letter,         \* changes of the password sent by mail
  MaxPasswords,   \* bound: replacements of the password
  MaxVersion,     \* bound: replacements, and times signed out everywhere
  MaxTokens       \* bound: tokens of a session

VARIABLES
  user,          \* the User row
  authSession,   \* AuthSession rows with their tokens; under: the password when
                 \* its sign-in began
  mails,         \* PasswordChangeRequest rows; "CLOSED": confirmed, rejected, cancelled
                 \* or expired, which nothing tells apart any more
  code,          \* the codes (AccountCode) mailed, not used and still asked for, by purpose
  factors,       \* the recovery code and the challenge that stand
  caller,        \* what each request is for, and what it has seen
  overtaken      \* history: versions a replacement counted over because it had not seen
                 \* them, with the passwords there were by then

accountVars == <<user, authSession, mails, code, factors, caller, overtaken>>

UserRow    == [version: Nat, password: Nat, verified: BOOLEAN, mfa: BOOLEAN]
SessionRow == [status: {"NONE", "LIVE", "REVOKED"}, version: Nat, under: Nat, tokens: Nat]
Seen       == [version: Nat, password: Nat]
Purpose    == {"VERIFY_EMAIL", "RESET_PASSWORD"}
CallerRow  == [at: {"IDLE", "SIGNING", "VERIFYING", "ENDING", "PROVING", "SPENDING", "REPLACING",
                    "PLUCKED", "CANCELLING", "ASKING", "DECIDING"},
               of: {"NONE", "RESET", "CHANGE"} \cup Letter, seen: Seen, ids: SUBSET AuthSession]

NewUser   == [version |-> 0, password |-> 0, verified |-> FALSE, mfa |-> FALSE]
NoSession == [status |-> "NONE", version |-> 0, under |-> 0, tokens |-> 0]
NoCaller  == [at |-> "IDLE", of |-> "NONE", seen |-> [version |-> 0, password |-> 0], ids |-> {}]

AccountsTypeOK ==
  /\ user \in UserRow /\ authSession \in [AuthSession -> SessionRow] /\ code \subseteq Purpose
  /\ mails \in [Letter -> {"NONE", "PENDING", "CLOSED"}]
  /\ factors \subseteq {"RECOVERY_CODE", "CHALLENGE"} /\ overtaken \subseteq Nat \X Nat
  /\ caller \in [Caller -> CallerRow]

\* register: the account waits for its mailed code.
AccountsInit ==
  /\ user = NewUser /\ overtaken = {}
  /\ authSession = [s \in AuthSession |-> NoSession]
  /\ mails = [m \in Letter |-> "NONE"]
  /\ code = {"VERIFY_EMAIL"} /\ factors = {}
  /\ caller = [c \in Caller |-> NoCaller]

-----------------------------------------------------------------------------
At(c, stage)   == caller[c].at = stage
Goto(c, stage) == caller' = [caller EXCEPT ![c].at = stage]
Return(c)      == caller' = [caller EXCEPT ![c] = NoCaller]

\* What a request has seen of the user, whom it does not look at again.
SeenOf(u) == [version |-> u.version, password |-> u.password]

Look(c, stage, of) ==
  /\ At(c, "IDLE")
  /\ caller' = [caller EXCEPT ![c] = [at |-> stage, of |-> of, seen |-> SeenOf(user), ids |-> {}]]

\* A request that replaces the password: of what it saw it uses the version.
LookAtVersion(c, stage, of) ==
  /\ At(c, "IDLE")
  /\ caller' = [caller EXCEPT ![c] = [NoCaller EXCEPT !.at = stage, !.of = of, !.seen.version = user.version]]

\* A request that will not use what it saw of the user.
Begin(c, stage, of) ==
  At(c, "IDLE") /\ caller' = [caller EXCEPT ![c] = [NoCaller EXCEPT !.at = stage, !.of = of]]

OnlyCaller  == UNCHANGED <<user, authSession, mails, code, factors, overtaken>>
OnlyFactors == UNCHANGED <<authSession, mails, code, overtaken>>

Live == {s \in AuthSession : authSession[s].status = "LIVE"}

\* revokeFamily.  Of a session that is revoked nothing is asked any more.
Revoke(ids) ==
  authSession' = [s \in AuthSession |-> IF s \in ids \cap Live THEN [NoSession EXCEPT !.status = "REVOKED"]
                                   ELSE authSession[s]]

\* What AuthenticateAccessToken and refresh ask of a session.
Accepted(s) == authSession[s].status = "LIVE" /\ authSession[s].version = user.version

-----------------------------------------------------------------------------
(* AccountCodeService *)

IssueCode(p) ==
  /\ p = "VERIFY_EMAIL" <=> ~user.verified
  /\ code' = code \cup {p}
  /\ UNCHANGED <<user, authSession, mails, factors, caller, overtaken>>

\* validate: the code may have expired, or been guessed at too often.
CodeStands(p) == p \in code

-----------------------------------------------------------------------------
(* Sign in *)

\* A verified account signs in without another code.
CheckEmailCode(c) ==
  /\ \/ user.verified /\ Look(c, "SIGNING", "NONE")
     \/ ~user.verified /\ CodeStands("VERIFY_EMAIL") /\ Begin(c, "VERIFYING", "NONE")
  /\ OnlyCaller

VerifyEmail(c) ==
  /\ At(c, "VERIFYING")
  /\ code' = code \ {"VERIFY_EMAIL"} /\ user' = [user EXCEPT !.verified = TRUE]
  /\ caller' = [caller EXCEPT ![c].at = "SIGNING", ![c].seen = SeenOf(user)]
  /\ UNCHANGED <<authSession, mails, factors, overtaken>>

\* With the password; a user with a second factor gets a challenge instead.
LogIn(c) ==
  /\ user.verified
  /\ \/ ~user.mfa /\ Look(c, "SIGNING", "NONE") /\ UNCHANGED factors
     \/ user.mfa /\ factors' = factors \cup {"CHALLENGE"} /\ UNCHANGED caller
  /\ UNCHANGED <<user, authSession, mails, code, overtaken>>

\* With Google, which proves the address of an account that waits for its code; that
\* code is asked for no more.
SocialLogin(c) ==
  /\ ~user.verified /\ user' = [user EXCEPT !.verified = TRUE]
  /\ code' = code \ {"VERIFY_EMAIL"}
  /\ At(c, "IDLE") /\ caller' = [caller EXCEPT ![c].at = "SIGNING", ![c].seen = SeenOf(user)]
  /\ UNCHANGED <<authSession, mails, factors, overtaken>>

\* Slip: the session takes the version the user has by now.
OpenCurrent(c, s) ==
  /\ At(c, "SIGNING") /\ authSession[s].status = "NONE" /\ Return(c)
  /\ authSession' = [authSession EXCEPT ![s] = [status |-> "LIVE", version |-> user.version,
                                        under |-> caller[c].seen.password, tokens |-> 1]]
  /\ UNCHANGED <<user, mails, code, factors, overtaken>>

OpenSession(c, s) ==
  /\ At(c, "SIGNING") /\ authSession[s].status = "NONE" /\ Return(c)
  /\ authSession' = [authSession EXCEPT ![s] = [status |-> "LIVE", version |-> caller[c].seen.version,
                                        under |-> caller[c].seen.password, tokens |-> 1]]
  /\ UNCHANGED <<user, mails, code, factors, overtaken>>

\* refresh: the newest token is replaced; one used a short while ago is answered
\* with its successor; any other one ends the session.
Refresh(s, token, recent) ==
  /\ authSession[s].status = "LIVE" /\ token \in 1 .. authSession[s].tokens
  /\ \/ ~Accepted(s) /\ Revoke({s})
     \/ /\ Accepted(s) /\ token = authSession[s].tokens /\ token < MaxTokens
        /\ authSession' = [authSession EXCEPT ![s].tokens = @ + 1]
     \/ Accepted(s) /\ token < authSession[s].tokens /\ recent /\ UNCHANGED authSession
     \/ Accepted(s) /\ token < authSession[s].tokens /\ ~recent /\ Revoke({s})
  /\ UNCHANGED <<user, mails, code, factors, caller, overtaken>>

\* revoke, revokeByToken
RevokeOne(s) ==
  s \in Live /\ Revoke({s}) /\ UNCHANGED <<user, mails, code, factors, caller, overtaken>>

\* revokeAll looks the sessions up before it locks the user by counting on.
BeginRevokeAll(c) ==
  /\ At(c, "IDLE") /\ user.version < MaxVersion
  /\ caller' = [caller EXCEPT ![c].at = "ENDING", ![c].ids = Live]
  /\ OnlyCaller

RevokeAll(c) ==
  /\ At(c, "ENDING") /\ user.version < MaxVersion /\ Revoke(caller[c].ids) /\ Return(c)
  /\ user' = [user EXCEPT !.version = @ + 1]
  /\ UNCHANGED <<mails, code, factors, overtaken>>

-----------------------------------------------------------------------------
(* MfaService.  Whether a code of the authenticator is right and new is left open. *)

\* confirmSetup
ConfirmSetup ==
  /\ user.verified /\ user' = [user EXCEPT !.mfa = TRUE]
  /\ factors' = factors \cup {"RECOVERY_CODE"}
  /\ OnlyFactors /\ UNCHANGED caller

\* disable and regenerateRecoveryCodes, each after a code.
DisableMfa ==
  /\ user.mfa /\ user' = [user EXCEPT !.mfa = FALSE] /\ factors' = {}
  /\ OnlyFactors /\ UNCHANGED caller

RegenerateRecoveryCodes ==
  /\ user.mfa /\ factors' = factors \cup {"RECOVERY_CODE"}
  /\ OnlyFactors /\ UNCHANGED <<user, caller>>

\* verifyChallenge: after five wrong answers, or five minutes, it is gone.
VerifyChallenge(c) ==
  /\ "CHALLENGE" \in factors /\ Look(c, "SIGNING", "NONE")
  /\ \/ factors' = factors \ {"CHALLENGE"}
     \/ "RECOVERY_CODE" \in factors /\ factors' = {}
  /\ OnlyFactors /\ UNCHANGED user

\* verifyCurrentFactor: outside a transaction a recovery code is looked for in one
\* statement and marked in another.
ProveByCode(c)       == At(c, "PROVING") /\ user.mfa /\ Goto(c, "REPLACING") /\ OnlyCaller
FindRecoveryCode(c)  == At(c, "PROVING") /\ "RECOVERY_CODE" \in factors /\ Goto(c, "SPENDING") /\ OnlyCaller
SpendRecoveryCode(c) ==
  /\ At(c, "SPENDING") /\ factors' = factors \ {"RECOVERY_CODE"} /\ Goto(c, "REPLACING")
  /\ OnlyFactors /\ UNCHANGED user

-----------------------------------------------------------------------------
(* A new password *)

ResetPassword(c) ==
  /\ user.verified /\ CodeStands("RESET_PASSWORD")
  /\ LookAtVersion(c, IF user.mfa THEN "PROVING" ELSE "REPLACING", "RESET") /\ OnlyCaller

\* By a signed-in user who knows the password: at once with a second factor, by
\* mail without one, if no other mail waits for its answer.
RequestChange(c) ==
  /\ \E s \in AuthSession : Accepted(s)
  /\ \/ user.mfa /\ LookAtVersion(c, "PROVING", "CHANGE")
     \/ ~user.mfa /\ (\A m \in Letter : mails[m] # "PENDING") /\ Begin(c, "ASKING", "CHANGE")
  /\ OnlyCaller

\* replacePasswordAndRevokeSessions: the sessions are looked up before the user is
\* written, with the version that was seen first.
PluckSessions(c) ==
  At(c, "REPLACING") /\ caller' = [caller EXCEPT ![c].at = "PLUCKED", ![c].ids = Live] /\ OnlyCaller

ReplacePassword(c) ==
  LET seen == caller[c].seen
      reset == caller[c].of = "RESET" IN
  /\ At(c, "PLUCKED") /\ seen.version < MaxVersion /\ user.password < MaxPasswords
  /\ user' = [user EXCEPT !.version = seen.version + 1, !.password = @ + 1]
  /\ Revoke(caller[c].ids)
  /\ overtaken' = overtaken \cup ((seen.version + 1 .. user.version) \X (0 .. user.password))
  /\ code' = IF reset THEN code \ {"RESET_PASSWORD"} ELSE code
  /\ IF reset THEN Return(c)
     ELSE caller' = [caller EXCEPT ![c] = [NoCaller EXCEPT !.at = "CANCELLING"]]
  /\ UNCHANGED <<mails, factors>>

SetChange(m, status) ==
  mails' = [mails EXCEPT ![m] = status] /\ UNCHANGED <<user, authSession, code, factors, overtaken>>

CancelPending(c) ==
  /\ At(c, "CANCELLING") /\ Return(c)
  /\ mails' = [m \in Letter |-> IF mails[m] = "PENDING" THEN "CLOSED" ELSE mails[m]]
  /\ UNCHANGED <<user, authSession, code, factors, overtaken>>

-----------------------------------------------------------------------------
(* PasswordChangeService, by mail *)

SendMail(c, m)    == At(c, "ASKING") /\ mails[m] = "NONE" /\ SetChange(m, "PENDING") /\ Return(c)
\* cancel, expireOld
EndChange(m)      == mails[m] = "PENDING" /\ SetChange(m, "CLOSED") /\ UNCHANGED caller
ActiveToken(c, m) == mails[m] = "PENDING" /\ Begin(c, "DECIDING", m) /\ OnlyCaller

\* Confirmed, the change is applied to the user as it is; it may have been handled.
Confirm(c, m) ==
  /\ At(c, "DECIDING") /\ caller[c].of = m /\ Return(c)
  /\ \/ mails[m] # "PENDING" /\ OnlyCaller
     \/ /\ mails[m] = "PENDING" /\ user.version < MaxVersion /\ user.password < MaxPasswords
        /\ mails' = [mails EXCEPT ![m] = "CLOSED"]
        /\ user' = [user EXCEPT !.version = @ + 1, !.password = @ + 1]
        /\ Revoke(Live) /\ UNCHANGED <<code, factors, overtaken>>

\* Rejected whatever has become of it.
Reject(c, m) == At(c, "DECIDING") /\ caller[c].of = m /\ SetChange(m, "CLOSED") /\ Return(c)

Abandon(c) == ~At(c, "IDLE") /\ Return(c) /\ OnlyCaller

-----------------------------------------------------------------------------
AccountsNext ==
  \/ \E p \in Purpose : IssueCode(p)
  \/ ConfirmSetup \/ DisableMfa \/ RegenerateRecoveryCodes
  \/ \E s \in AuthSession :
       RevokeOne(s) \/ \E token \in 1 .. MaxTokens, recent \in BOOLEAN : Refresh(s, token, recent)
  \/ \E m \in Letter : EndChange(m)
  \/ \E c \in Caller :
       \/ CheckEmailCode(c) \/ VerifyEmail(c) \/ LogIn(c) \/ SocialLogin(c) \/ VerifyChallenge(c)
       \/ BeginRevokeAll(c) \/ RevokeAll(c) \/ ResetPassword(c) \/ RequestChange(c)
       \/ ProveByCode(c) \/ FindRecoveryCode(c) \/ SpendRecoveryCode(c)
       \/ PluckSessions(c) \/ ReplacePassword(c) \/ CancelPending(c) \/ Abandon(c)
       \/ \E s \in AuthSession : OpenSession(c, s)
       \/ \E m \in Letter : SendMail(c, m) \/ ActiveToken(c, m) \/ Confirm(c, m) \/ Reject(c, m)

-----------------------------------------------------------------------------
\* A new password ends what was begun under the old one: every session that is let
\* in was signed in with the password of now, though sign-ins, mails, resets and
\* requests to sign out everywhere overlap and no lock keeps them apart.  Only a
\* replacement that looks at the user, and writes after another replacement, a mailed
\* change or a sign-out everywhere has counted the version on, gives that version out
\* again: those who signed in with it in between are the ones it may let in.
NewPasswordEndsSessions ==
  \A s \in AuthSession :
    Accepted(s) /\ <<authSession[s].version, authSession[s].under>> \notin overtaken =>
      authSession[s].under = user.password

-----------------------------------------------------------------------------
\* What makes it inductive.

\* The user was like this, or is, or has been counted over: every other new password
\* came with a new version.
WasOrIs(version, password) ==
  /\ password <= user.password
  /\ \/ <<version, password>> \in overtaken
     \/ version <= user.version /\ (version = user.version => password = user.password)

SeenRight ==
  /\ \A s \in Live : WasOrIs(authSession[s].version, authSession[s].under)
  /\ \A c \in Caller : At(c, "SIGNING") => WasOrIs(caller[c].seen.version, caller[c].seen.password)

AccountsInv == AccountsTypeOK /\ SeenRight
=============================================================================
