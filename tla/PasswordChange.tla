--------------------------- MODULE PasswordChange ---------------------------
(***************************************************************************)
(* PasswordChangeService and AuthService.resetPassword: a new password is  *)
(* set at once by an account with an authenticator, by a code that was     *)
(* mailed, or when a mailed link is confirmed, which may also be rejected, *)
(* cancelled, left to expire or opened twice.  Every change ends the       *)
(* sessions.                                                               *)
(***************************************************************************)
EXTENDS Sessions, FiniteSets

CONSTANTS
  Change,    \* bound: requests for a change by mail
  Asker,     \* tabs that ask for one
  Decider    \* pages opened from the mail

ASSUME NoneIsNoChange == {"idle", "asking", "none"} \cap Change = {}

VARIABLES
  change,    \* PasswordChangeRequest.status, "NONE" before and "GONE" after
  late,      \* those that are past their time
  times,     \* how often each has changed the password
  asker,     \* which request each tab is creating
  decider    \* what each page has found and is about to do

changeVars == <<change, late, times, asker, decider>>

ChangeStatus == {"NONE", "PENDING", "CONFIRMED", "REJECTED", "CANCELLED", "EXPIRED", "GONE"}
NoPage == [of |-> "none", answer |-> "none"]

ChangeTypeOK ==
  /\ change \in [Change -> ChangeStatus] /\ late \subseteq Change
  /\ times \in [Change -> Nat]
  /\ asker \in [Asker -> {"idle", "asking"} \cup Change]
  /\ decider \in [Decider -> [of : Change \cup {"none"}, answer : {"none", "confirm", "reject"}]]

ChangeInit ==
  /\ change = [r \in Change |-> "NONE"] /\ late = {}
  /\ times = [r \in Change |-> 0]
  /\ asker = [a \in Asker |-> "idle"]
  /\ decider = [d \in Decider |-> NoPage]

Open(r) == change[r] = "PENDING" /\ r \notin late
Become(R, s) == change' = [r \in Change |-> IF r \in R THEN s ELSE change[r]]
Pending == {r \in Change : change[r] = "PENDING"}

\* request of an account without an authenticator: old requests expire, and no
\* other may be waiting.
Ask(a) ==
  /\ asker[a] = "idle" /\ ~\E r \in Change : Open(r)
  /\ Become(Pending \cap late, "EXPIRED")
  /\ asker' = [asker EXCEPT ![a] = "asking"]
  /\ UNCHANGED <<late, times, decider, sessionVars>>

Record(a, r) ==
  /\ asker[a] = "asking" /\ change[r] = "NONE"
  /\ Become({r}, "PENDING")
  /\ asker' = [asker EXCEPT ![a] = r]
  /\ UNCHANGED <<late, times, decider, sessionVars>>

\* Without its mail the request is deleted; if the process stops, it is not.
Mail(a) ==
  /\ asker[a] \in Change
  /\ UNCHANGED change \/ Become({asker[a]}, "GONE")
  /\ asker' = [asker EXCEPT ![a] = "idle"]
  /\ UNCHANGED <<late, times, decider, sessionVars>>

Lapse(r) ==
  /\ Open(r) /\ late' = late \cup {r}
  /\ UNCHANGED <<change, times, asker, decider, sessionVars>>

Cancel(r) ==
  /\ change[r] = "PENDING" /\ Become({r}, "CANCELLED")
  /\ UNCHANGED <<late, times, asker, decider, sessionVars>>

\* decide: the request is looked up ...
OpenPage(d, r, answer) ==
  /\ decider[d] = NoPage /\ Open(r) /\ \A a \in Asker : asker[a] # r
  /\ decider' = [decider EXCEPT ![d] = [of |-> r, answer |-> answer]]
  /\ UNCHANGED <<change, late, times, asker, sessionVars>>

\* Slip: what was looked up is taken for granted.
ConfirmFound(d) ==
  LET r == decider[d].of IN
  /\ decider[d].answer = "confirm"
  /\ Become({r}, "CONFIRMED") /\ times' = [times EXCEPT ![r] = @ + 1]
  /\ Bump
  /\ decider' = [decider EXCEPT ![d] = NoPage]
  /\ UNCHANGED <<late, asker, clock, tokenVars, cookie, call, everywhere>>

\* ... and confirmed only if it is still open, or rejected in any case.
Confirm(d) ==
  LET r == decider[d].of IN
  /\ decider[d].answer = "confirm"
  /\ IF Open(r)
     THEN Become({r}, "CONFIRMED") /\ times' = [times EXCEPT ![r] = @ + 1] /\ Bump
     ELSE UNCHANGED <<change, times, version>>
  /\ decider' = [decider EXCEPT ![d] = NoPage]
  /\ UNCHANGED <<late, asker, clock, tokenVars, cookie, call, everywhere>>

Reject(d) ==
  /\ decider[d].answer = "reject"
  /\ Become({decider[d].of}, "REJECTED")
  /\ decider' = [decider EXCEPT ![d] = NoPage]
  /\ UNCHANGED <<late, times, asker, sessionVars>>

\* An authenticator or recovery code changes the password at once.
ChangeWithFactor ==
  /\ Bump
  /\ Become(Pending, "CANCELLED")
  /\ UNCHANGED <<late, times, asker, decider, clock, tokenVars, cookie, call, everywhere>>

ResetPassword == BumpVersion /\ UNCHANGED changeVars

ChangeStep ==
  \/ \E a \in Asker : Ask(a) \/ Mail(a) \/ \E r \in Change : Record(a, r)
  \/ \E r \in Change : Lapse(r) \/ Cancel(r)
  \/ \E d \in Decider :
       \/ Confirm(d) \/ Reject(d)
       \/ \E r \in Change, answer \in {"confirm", "reject"} : OpenPage(d, r, answer)
  \/ ChangeWithFactor \/ ResetPassword

-----------------------------------------------------------------------------
(* Properties *)

\* A request changes the password once, however often its mail is answered, and
\* not at all once it was cancelled or has expired.
ConfirmedOnce ==
  \A r \in Change : /\ times[r] <= 1
                    /\ change[r] \in {"CANCELLED", "EXPIRED", "GONE"} => times[r] = 0
                    /\ change[r] = "CONFIRMED" => times[r] = 1

\* What makes it inductive: no change before the confirmation, and no answer
\* before the mail is sent.
NotYet == \A r \in Change : change[r] \in {"NONE", "PENDING"} => times[r] = 0

PagesKnown ==
  \A d \in Decider : IF decider[d].answer = "none" THEN decider[d].of = "none"
                     ELSE decider[d].of \in Change /\ change[decider[d].of] # "NONE"

MailedBefore ==
  \A a \in Asker, r \in Change : asker[a] = r =>
    /\ change[r] # "NONE" /\ times[r] = 0
    /\ \A d \in Decider : decider[d].of # r

ChangeInv == ConfirmedOnce /\ NotYet /\ PagesKnown /\ MailedBefore

\* "Password change rejected.  Your existing password is unchanged."
RejectedUnchanged == \A r \in Change : change[r] = "REJECTED" => times[r] = 0
=============================================================================
