------------------------------ MODULE Sessions ------------------------------
(***************************************************************************)
(* AuthSessionService: the sessions of one user, each a family of refresh  *)
(* tokens of which every use makes the next one.  The tabs of a browser    *)
(* share the cookie and refresh at the same time; answers get lost or come *)
(* late; the sessions end in the middle of it.                             *)
(*                                                                         *)
(* A refresh is a transaction at read committed isolation.  Its update of  *)
(* the token's row makes every other writer of the family wait until it    *)
(* ends: "lock" is who they wait for.  Signing in is no transaction, and   *)
(* signing out everywhere one of several statements: a session may be      *)
(* stored between them.                                                    *)
(***************************************************************************)
EXTENDS Naturals, Sequences

CONSTANTS
  Session,      \* the user's sessions, each in a browser of its own
  Call,         \* refresh requests in flight at a time
  Grace,        \* REFRESH_TOKEN_REPLAY_GRACE_SECONDS
  IdleTime,     \* REFRESH_TOKEN_IDLE_DAYS
  AbsoluteTime, \* REFRESH_TOKEN_ABSOLUTE_DAYS
  MaxTime,      \* bound: the last moment looked at
  MaxTokens,    \* bound: tokens of a session
  MaxVersion    \* bound: times all sessions are ended at once

ASSUME LimitsAreNat == Grace \in Nat /\ IdleTime \in Nat /\ AbsoluteTime \in Nat
ASSUME NoneIsNoCall == "none" \notin Call
ASSUME BoundsAreNat == MaxTime \in Nat /\ MaxTokens \in Nat \ {0} /\ MaxVersion \in Nat

VARIABLES
  clock,
  version,  \* User.sessionVersion
  session,  \* AuthSession
  token,    \* RefreshToken of each session, the oldest first
  cookie,   \* which of them the browser holds
  call,     \* the refresh requests
  lock,     \* the request whose uncommitted update of a token others wait for
  everywhere \* the transaction that signs out everywhere, and the sessions it found

tokenVars   == <<session, token, lock>>
sessionVars == <<clock, version, tokenVars, cookie, call, everywhere>>

Time  == 0 .. MaxTime
Never == MaxTime + 1
Reasons == {"out", "reused", "invalid"}
\* "missed": signing out everywhere ended it and had not found it.
Ended == Reasons \cup {"missed"}
Starting == {"none", "signing"}
NotRunning == [running |-> FALSE, found |-> {}]
NoCall == [stage |-> "idle", session |-> "none", token |-> 0, at |-> 0]

SessionsTypeOK ==
  /\ clock \in Time /\ version \in 0 .. MaxVersion
  /\ session \in [Session -> [state : Starting \cup {"live"} \cup Ended,
                              version : 0 .. MaxVersion, expires : Nat]]
  /\ token \in [Session -> Seq([usedAt : Time \cup {Never}, revoked : BOOLEAN, expires : Nat])]
  /\ cookie \in [Session -> 0 .. MaxTokens]
  /\ \A s \in Session : Len(token[s]) <= MaxTokens /\ cookie[s] <= Len(token[s])
  /\ call \in [Call -> [stage : {"idle", "sent", "began", "read", "locked", "rotated", "refused"},
                        session : Session \cup {"none"}, token : 0 .. MaxTokens, at : Time]]
  /\ lock \in [Session -> Call \cup {"none"}]
  /\ everywhere \in [running : BOOLEAN, found : SUBSET Session]

SessionsInit ==
  /\ clock = 0 /\ version = 0
  /\ session = [s \in Session |-> [state |-> "none", version |-> 0, expires |-> 0]]
  /\ token = [s \in Session |-> <<>>]
  /\ cookie = [s \in Session |-> 0]
  /\ call = [c \in Call |-> NoCall]
  /\ lock = [s \in Session |-> "none"]
  /\ everywhere = NotRunning

Least(a, b) == IF a < b THEN a ELSE b
Fresh(now, expires) == [usedAt |-> Never, revoked |-> FALSE, expires |-> Least(now + IdleTime, expires)]

\* What the guard, the gateway and a refresh require of a session.
Valid(s, now) ==
  session[s].state = "live" /\ session[s].expires > now /\ session[s].version = version

-----------------------------------------------------------------------------
Tick == clock < MaxTime /\ clock' = clock + 1 /\ UNCHANGED <<version, tokenVars, cookie, call, everywhere>>

\* create, after any of the ways to sign in: the version is read ...
BeginSignIn(s) ==
  /\ session[s].state = "none"
  /\ session' = [session EXCEPT ![s].state = "signing", ![s].version = version]
  /\ UNCHANGED <<clock, version, token, lock, cookie, call, everywhere>>

\* ... and the session stored, whatever the version has become.
SignIn(s) ==
  /\ session[s].state = "signing"
  /\ session' = [session EXCEPT ![s].state = "live", ![s].expires = clock + AbsoluteTime]
  /\ token' = [token EXCEPT ![s] = <<Fresh(clock, clock + AbsoluteTime)>>]
  /\ cookie' = [cookie EXCEPT ![s] = 1]
  /\ UNCHANGED <<clock, version, call, lock, everywhere>>

\* A tab refreshes with the cookie it finds ...
Send(c, s) ==
  /\ call[c] = NoCall /\ cookie[s] > 0
  /\ call' = [call EXCEPT ![c] = [NoCall EXCEPT !.stage = "sent", !.session = s, !.token = cookie[s]]]
  /\ UNCHANGED <<clock, version, tokenVars, cookie, everywhere>>

\* ... and the service notes the time before its transaction.
Arrive(c) ==
  /\ call[c].stage = "sent"
  /\ call' = [call EXCEPT ![c].stage = "began", ![c].at = clock]
  /\ UNCHANGED <<clock, version, tokenVars, cookie, everywhere>>

Free(s) == lock[s] = "none"

\* revokeFamily, revoke
RevokeFamily(s, why) ==
  /\ Free(s)
  /\ session' = IF session[s].state = "live" THEN [session EXCEPT ![s].state = why] ELSE session
  /\ token' = [token EXCEPT ![s] = [i \in DOMAIN @ |-> [@[i] EXCEPT !.revoked = TRUE]]]
  /\ UNCHANGED lock

Stage(c, s) == call' = [call EXCEPT ![c].stage = s]

\* A token used a moment ago is answered with its successor once more.
Replayable(c, s, i) ==
  /\ call[c].at >= token[s][i].usedAt /\ call[c].at <= token[s][i].usedAt + Grace
  /\ i < Len(token[s]) /\ ~token[s][i + 1].revoked /\ token[s][i + 1].expires > call[c].at

ReplayOrRevoke(c, s, i) ==
  IF Replayable(c, s, i) THEN Stage(c, "rotated") /\ UNCHANGED tokenVars
  ELSE RevokeFamily(s, "reused") /\ Stage(c, "refused")

\* refresh, up to the update that consumes the token
Read(c) ==
  LET s == call[c].session
      i == call[c].token
      t == token[s][i] IN
  /\ call[c].stage = "began"
  /\ IF t.revoked THEN RevokeFamily(s, "reused") /\ Stage(c, "refused")
     ELSE IF t.expires <= call[c].at \/ ~Valid(s, call[c].at)
     THEN RevokeFamily(s, "invalid") /\ Stage(c, "refused")
     ELSE IF t.usedAt # Never THEN ReplayOrRevoke(c, s, i)
     ELSE Stage(c, "read") /\ UNCHANGED tokenVars
  /\ UNCHANGED <<clock, version, cookie, everywhere>>

\* The update finds the token unused, or the request lost against another one.
Consume(c) ==
  LET s == call[c].session
      i == call[c].token IN
  /\ call[c].stage = "read" /\ Free(s)
  /\ IF token[s][i].usedAt = Never /\ ~token[s][i].revoked
     THEN lock' = [lock EXCEPT ![s] = c] /\ Stage(c, "locked") /\ UNCHANGED <<session, token>>
     ELSE IF ~token[s][i].revoked THEN ReplayOrRevoke(c, s, i)
     ELSE RevokeFamily(s, "reused") /\ Stage(c, "refused")
  /\ UNCHANGED <<clock, version, cookie, everywhere>>

\* The token is marked, its successor stored, and both are committed.
Store(c) ==
  LET s == call[c].session IN
  /\ call[c].stage = "locked" /\ Len(token[s]) < MaxTokens
  /\ token' = [token EXCEPT ![s] = Append([@ EXCEPT ![call[c].token].usedAt = call[c].at],
                                          Fresh(call[c].at, session[s].expires))]
  /\ lock' = [lock EXCEPT ![s] = "none"]
  /\ Stage(c, "rotated")
  /\ UNCHANGED <<clock, version, session, cookie, everywhere>>

\* The transaction is rolled back: a deadlock with a revocation, or a crash.
Abort(c) ==
  /\ call[c].stage \in {"sent", "began", "read", "locked"}
  /\ lock' = [s \in Session |-> IF lock[s] = c THEN "none" ELSE lock[s]]
  /\ call' = [call EXCEPT ![c] = NoCall]
  /\ UNCHANGED <<clock, version, session, token, cookie, everywhere>>

\* The answer sets the cookie, or is lost.
Answer(c) ==
  /\ call[c].stage \in {"rotated", "refused"}
  /\ \/ UNCHANGED cookie
     \/ call[c].stage = "rotated" /\ cookie' = [cookie EXCEPT ![call[c].session] = call[c].token + 1]
  /\ call' = [call EXCEPT ![c] = NoCall]
  /\ UNCHANGED <<clock, version, tokenVars, everywhere>>

-----------------------------------------------------------------------------
\* Slip: the tokens of a session that is ended are left as they are.
RevokeSessionOnly(s) ==
  /\ session[s].state = "live" /\ Free(s)
  /\ session' = [session EXCEPT ![s].state = "out"]
  /\ UNCHANGED <<token, lock>>
  /\ UNCHANGED <<clock, version, cookie, call, everywhere>>

\* Logging out, or ending a session from the list of them.
Revoke(s) ==
  /\ session[s].state = "live"
  /\ RevokeFamily(s, "out")
  /\ UNCHANGED <<clock, version, cookie, call, everywhere>>

Live == {s \in Session : session[s].state = "live"}

\* revokeAll counts the version on, which nobody sees before it ends and for which
\* others who count wait, and looks the sessions up.
BeginRevokeAll ==
  /\ ~everywhere.running /\ version < MaxVersion
  /\ everywhere' = [running |-> TRUE, found |-> Live]
  /\ UNCHANGED <<clock, version, tokenVars, cookie, call>>

\* It ends those that live by now, but takes the tokens of those it has found.
RevokeAll ==
  /\ everywhere.running /\ version < MaxVersion /\ version' = version + 1
  /\ \A s \in everywhere.found : Free(s)
  /\ session' = [s \in Session |->
       IF s \in Live THEN [session[s] EXCEPT !.state = IF s \in everywhere.found THEN "out" ELSE "missed"]
       ELSE session[s]]
  /\ token' = [s \in Session |->
       IF s \in everywhere.found THEN [i \in DOMAIN token[s] |-> [token[s][i] EXCEPT !.revoked = TRUE]]
       ELSE token[s]]
  /\ everywhere' = NotRunning
  /\ UNCHANGED <<clock, lock, cookie, call>>

\* A deadlock with a rotation, or a crash.
AbortRevokeAll ==
  /\ everywhere.running /\ everywhere' = NotRunning
  /\ UNCHANGED <<clock, version, tokenVars, cookie, call>>

Bump == ~everywhere.running /\ version < MaxVersion /\ version' = version + 1

\* What a change of the password does to the sessions.
BumpVersion == Bump /\ UNCHANGED <<clock, tokenVars, cookie, call, everywhere>>

CallStep(c) ==
  \/ \E s \in Session : Send(c, s)
  \/ Arrive(c) \/ Read(c) \/ Consume(c) \/ Store(c) \/ Abort(c) \/ Answer(c)

-----------------------------------------------------------------------------
(* Properties *)

\* A session that has ended has no token left to go on with, whichever rotation or
\* sign-in its end ran into.  A session stored while all are being ended may keep its
\* tokens: these have the version of before, and no refresh with them begins.
EndedFamily ==
  \A s \in Session : session[s].state \in Ended =>
    \/ \A i \in DOMAIN token[s] : token[s][i].revoked
    \/ session[s].state = "missed" /\ session[s].version < version

\* Rotations never fork: of a session's tokens only the last can be unused, and
\* every token before it was used.
OneHead ==
  \A s \in Session : \A i \in DOMAIN token[s] : (token[s][i].usedAt = Never) = (i = Len(token[s]))

\* What makes the two inductive: a session has a version the user had, an older one if
\* it was missed, and a rotation that holds the row of a token is of a session that lives
\* or was missed, and of its last token.
RotationInv ==
  /\ EndedFamily /\ OneHead
  /\ \A s \in Session :
       /\ session[s].version <= version
       /\ session[s].state = "missed" => session[s].version < version
       /\ session[s].state \in Starting => token[s] = <<>>
       /\ ~Free(s) => call[lock[s]].stage = "locked" /\ call[lock[s]].session = s
  /\ \A c \in Call : call[c].stage # "idle" =>
       LET s == call[c].session IN
       /\ s \in Session /\ call[c].token \in DOMAIN token[s]
       /\ call[c].stage = "locked" =>
            lock[s] = c /\ session[s].state \in {"live", "missed"} /\ call[c].token = Len(token[s])
       /\ call[c].stage = "rotated" => call[c].token < Len(token[s])

\* "A recent duplicate refresh replays the same successor without revoking the
\* session": of two tabs that refresh with the same token within the grace period,
\* neither ends the session.
RecentDuplicateReplays ==
  [][\A s \in Session :
       session[s].state = "live" /\ session'[s].state = "reused" =>
         \E c \in Call : /\ call[c].session = s
                         /\ clock > token[s][call[c].token].usedAt + Grace]_sessionVars
=============================================================================
