---------------------------- MODULE AccountsProofs ----------------------------
(***************************************************************************)
(* The invariants of an account, for any number of sessions, tabs, pages,  *)
(* requests and answers, and any limits: no session that is over goes on,  *)
(* rotations never fork, a mailed change happens once, and the attempts of *)
(* a challenge are counted; and in the Laravel backend a new password ends *)
(* what was begun under an older one.                                      *)
(***************************************************************************)
EXTENDS AccountBackends, FiniteSetTheorems, TLAPS

TokenRow == [usedAt : Time \cup {Never}, revoked : BOOLEAN, expires : Nat]

RowState  == [state : Starting \cup {"live"} \cup Ended, version : 0 .. MaxVersion, expires : Nat]
CallState == [stage : {"idle", "sent", "began", "read", "locked", "rotated", "refused"},
              session : Session \cup {"none"}, token : 0 .. MaxTokens, at : Time]

SessionsInv == SessionsTypeOK /\ RotationInv

-----------------------------------------------------------------------------
(* Sessions *)

LEMMA SessionsInitHolds == SessionsInit => SessionsInv
<1> SUFFICES ASSUME SessionsInit PROVE SessionsInv
  OBVIOUS
<1>1. SessionsTypeOK
  BY BoundsAreNat DEF SessionsInit, SessionsTypeOK, NoCall, NotRunning, Time, Starting
<1>2. RotationInv
  BY DEF SessionsInit, RotationInv, EndedFamily, OneHead, Free, NoCall, Starting, Ended, Reasons
<1> QED BY <1>1, <1>2 DEF SessionsInv

LEMMA FreshIsRow ==
  ASSUME NEW now \in Nat, NEW expires \in Nat
  PROVE  Fresh(now, expires) \in TokenRow /\ ~Fresh(now, expires).revoked /\ Fresh(now, expires).usedAt = Never
<1>1. now + IdleTime \in Nat /\ Least(now + IdleTime, expires) \in Nat
  BY LimitsAreNat DEF Least
<1> QED BY <1>1 DEF Fresh, TokenRow

\* A family is ended as a whole, and only when nobody rotates it.
LEMMA FamilyRevoked ==
  ASSUME SessionsInv, NEW s \in Session, NEW why \in Reasons, RevokeFamily(s, why)
  PROVE  /\ session' \in [Session -> RowState] /\ token' \in [Session -> Seq(TokenRow)]
         /\ \A x \in Session : /\ Len(token'[x]) = Len(token[x])
                               /\ \A i \in DOMAIN token[x] : token'[x][i].usedAt = token[x][i].usedAt
                               /\ x # s => session'[x] = session[x] /\ token'[x] = token[x]
                               /\ session'[x].state \in Starting <=> session[x].state \in Starting
                               /\ session'[x].version = session[x].version
                               /\ session'[x].state = "missed" => session[x].state = "missed"
         /\ \A i \in DOMAIN token[s] : token'[s][i].revoked
         /\ Free(s) /\ UNCHANGED lock
<1>1. /\ session \in [Session -> RowState] /\ token \in [Session -> Seq(TokenRow)]
  BY DEF SessionsInv, SessionsTypeOK, RowState, TokenRow
<1>2. session' = IF session[s].state = "live" THEN [session EXCEPT ![s].state = why] ELSE session
  BY DEF RevokeFamily
<1>3. /\ session' \in [Session -> RowState]
      /\ \A x \in Session : /\ x # s => session'[x] = session[x]
                            /\ session'[x].state \in Starting <=> session[x].state \in Starting
                            /\ session'[x].version = session[x].version
                            /\ session'[x].state = "missed" => session[x].state = "missed"
  BY <1>1, <1>2 DEF RowState, Ended, Reasons, Starting
<1>4. /\ token' = [token EXCEPT ![s] = [i \in DOMAIN token[s] |-> [token[s][i] EXCEPT !.revoked = TRUE]]]
      /\ Free(s) /\ UNCHANGED lock
  BY DEF RevokeFamily
<1>5. /\ token[s] \in Seq(TokenRow) /\ DOMAIN token[s] = 1 .. Len(token[s]) /\ Len(token[s]) \in Nat
  BY <1>1
<1> DEFINE new == [i \in 1 .. Len(token[s]) |-> [token[s][i] EXCEPT !.revoked = TRUE]]
<1>6. \A i \in 1 .. Len(token[s]) : token[s][i] \in TokenRow
  BY <1>5
<1>7. \A i \in 1 .. Len(token[s]) :
        /\ [token[s][i] EXCEPT !.revoked = TRUE] \in TokenRow
        /\ [token[s][i] EXCEPT !.revoked = TRUE].revoked
        /\ [token[s][i] EXCEPT !.revoked = TRUE].usedAt = token[s][i].usedAt
  BY <1>6 DEF TokenRow
<1>8. new \in Seq(TokenRow) /\ Len(new) = Len(token[s])
  BY <1>5, <1>7
<1>9. \A i \in 1 .. Len(token[s]) : new[i].revoked /\ new[i].usedAt = token[s][i].usedAt
  BY <1>7
<1>10. token' = [token EXCEPT ![s] = new]
  BY <1>4, <1>5
<1> HIDE DEF new
<1>11. token'[s] = new /\ \A x \in Session \ {s} : token'[x] = token[x]
  BY <1>1, <1>10
<1>12. token' \in [Session -> Seq(TokenRow)]
  BY <1>1, <1>8, <1>10
<1>13. \A x \in Session : /\ Len(token'[x]) = Len(token[x])
                          /\ \A i \in DOMAIN token[x] : token'[x][i].usedAt = token[x][i].usedAt
  BY <1>5, <1>8, <1>9, <1>11
<1> QED BY <1>3, <1>4, <1>5, <1>9, <1>11, <1>12, <1>13

\* No family gets a token, and those that end lose all of theirs, or are left with
\* tokens of a version that is over.
Narrows ==
  /\ session' \in [Session -> RowState] /\ token' \in [Session -> Seq(TokenRow)] /\ UNCHANGED lock
  /\ \A x \in Session : /\ Len(token'[x]) = Len(token[x])
                        /\ \A i \in DOMAIN token[x] : token'[x][i].usedAt = token[x][i].usedAt
                        /\ session'[x].state \in Starting <=> session[x].state \in Starting
                        /\ session'[x].version <= version'
                        /\ session[x].state \in {"live", "missed"} =>
                             session'[x].state \in {"live", "missed"} \/ Free(x)
                        /\ session'[x].state = "missed" => session'[x].version < version'
                        /\ session'[x].state \in Reasons => \A i \in DOMAIN token[x] : token'[x][i].revoked

\* The version is only counted on.
LEMMA StaysBelow ==
  ASSUME SessionsInv, version' \in Nat, version' >= version
  PROVE  \A x \in Session : /\ session[x].version <= version'
                            /\ session[x].state = "missed" => session[x].version < version'
<1>1. version \in 0 .. MaxVersion /\ \A x \in Session : session[x].version \in 0 .. MaxVersion
  BY DEF SessionsInv, SessionsTypeOK
<1>2. \A x \in Session : /\ session[x].version <= version
                         /\ session[x].state = "missed" => session[x].version < version
  BY DEF SessionsInv, RotationInv
<1> QED BY <1>1, <1>2, BoundsAreNat

LEMMA UnchangedNarrows ==
  ASSUME SessionsInv, UNCHANGED tokenVars, version' \in Nat, version' >= version
  PROVE  Narrows
<1>1. session' = session /\ token' = token /\ lock' = lock
  BY DEF tokenVars
<1>2. session \in [Session -> RowState] /\ token \in [Session -> Seq(TokenRow)]
  BY DEF SessionsInv, SessionsTypeOK, RowState, TokenRow
<1>3. \A x \in Session : session[x].state \in Reasons => \A i \in DOMAIN token[x] : token[x][i].revoked
  BY DEF SessionsInv, RotationInv, EndedFamily, Ended, Reasons
<1> QED BY <1>1, <1>2, <1>3, StaysBelow DEF Narrows

LEMMA RevokeNarrows ==
  ASSUME SessionsInv, NEW s \in Session, NEW why \in Reasons, RevokeFamily(s, why), UNCHANGED version
  PROVE  Narrows
<1>1. \A x \in Session \ {s} : session'[x] = session[x] /\ token'[x] = token[x]
  BY FamilyRevoked
<1>2. \A x \in Session \ {s} : session'[x].state \in Reasons => \A i \in DOMAIN token[x] : token'[x][i].revoked
  BY <1>1 DEF SessionsInv, RotationInv, EndedFamily, Ended, Reasons
<1>3. \A x \in Session : /\ session'[x].version <= version
                         /\ session'[x].state = "missed" => session'[x].version < version
  BY FamilyRevoked DEF SessionsInv, RotationInv
<1>4. \A x \in Session : /\ session'[x].state \in Starting <=> session[x].state \in Starting
                         /\ session[x].state \in {"live", "missed"} =>
                               session'[x].state \in {"live", "missed"} \/ Free(x)
  BY <1>1, FamilyRevoked
<1> QED BY <1>1, <1>2, <1>3, <1>4, FamilyRevoked DEF Narrows

\* The requests come, go on and are answered while families stay as they are or end.
LEMMA RevokingStep ==
  ASSUME SessionsInv, Narrows, clock' \in Time, version' \in 0 .. MaxVersion,
         cookie' \in [Session -> 0 .. MaxTokens], \A x \in Session : cookie'[x] <= Len(token[x]),
         call' \in [Call -> CallState], everywhere' \in [running : BOOLEAN, found : SUBSET Session],
         \A c \in Call : \/ call'[c] = call[c]
                         \/ call[c].stage # "locked" /\ call'[c] = NoCall
                         \/ /\ call'[c].stage = "sent" /\ call[c].stage # "locked" /\ call'[c].session \in Session
                            /\ call'[c].token \in DOMAIN token[call'[c].session]
                         \/ /\ call[c].stage \notin {"idle", "locked"} /\ call'[c].stage # "locked"
                            /\ call'[c].session = call[c].session /\ call'[c].token = call[c].token
                            /\ call'[c].stage = "rotated" => call[c].token < Len(token[call[c].session])
  PROVE  SessionsInv'
<1>1. Narrows
  OBVIOUS
<1>2. \A x \in Session : /\ token[x] \in Seq(TokenRow) /\ token'[x] \in Seq(TokenRow)
                         /\ DOMAIN token'[x] = DOMAIN token[x] /\ Len(token[x]) \in Nat
                         /\ DOMAIN token[x] = 1 .. Len(token[x])
  <2>1. token \in [Session -> Seq(TokenRow)]
    BY DEF SessionsInv, SessionsTypeOK, TokenRow
  <2> QED BY <1>1, <2>1 DEF Narrows
<1>3. SessionsTypeOK'
  <2>1. lock' \in [Session -> Call \cup {"none"}]
    BY <1>1 DEF Narrows, SessionsInv, SessionsTypeOK
  <2>2. \A x \in Session : Len(token'[x]) <= MaxTokens /\ cookie'[x] <= Len(token'[x])
    BY <1>1 DEF Narrows, SessionsInv, SessionsTypeOK
  <2>3. session' \in [Session -> RowState] /\ token' \in [Session -> Seq(TokenRow)]
    BY <1>1 DEF Narrows
  <2> QED BY <2>1, <2>2, <2>3 DEF SessionsTypeOK, RowState, TokenRow, CallState
<1>4. EndedFamily' /\ OneHead'
  <2>1. EndedFamily'
    BY <1>1, <1>2 DEF Narrows, EndedFamily, Ended
  <2>2. OneHead'
    <3> SUFFICES ASSUME NEW x \in Session, NEW i \in DOMAIN token[x]
                 PROVE  (token'[x][i].usedAt = Never) = (i = Len(token'[x]))
      BY <1>2 DEF OneHead, Never
    <3>1. (token[x][i].usedAt = Never) = (i = Len(token[x]))
      BY DEF SessionsInv, RotationInv, OneHead
    <3> QED BY <1>1, <3>1 DEF Narrows
  <2> QED BY <2>1, <2>2
<1>5. ASSUME NEW x \in Session
      PROVE  /\ session'[x].version <= version'
             /\ session'[x].state = "missed" => session'[x].version < version'
             /\ session'[x].state \in Starting => token'[x] = <<>>
             /\ ~Free(x)' => call'[lock'[x]].stage = "locked" /\ call'[lock'[x]].session = x
  <2>1. /\ session'[x].version <= version' /\ (session'[x].state \in Starting => token'[x] = <<>>)
        /\ session'[x].state = "missed" => session'[x].version < version'
    BY <1>1, <1>2 DEF Narrows, SessionsInv, RotationInv
  <2>2. ~Free(x)' => lock[x] \in Call /\ call[lock[x]].stage = "locked" /\ call[lock[x]].session = x
    BY <1>1 DEF Narrows, SessionsInv, RotationInv, SessionsTypeOK, Free
  <2>3. \A c \in Call : call[c].stage = "locked" => call'[c] = call[c]
    OBVIOUS
  <2> QED BY <1>1, <2>1, <2>2, <2>3 DEF Narrows
<1>6. ASSUME NEW c \in Call, call'[c].stage # "idle"
      PROVE  /\ call'[c].session \in Session /\ call'[c].token \in DOMAIN token'[call'[c].session]
             /\ call'[c].stage = "locked" =>
                  /\ lock'[call'[c].session] = c /\ session'[call'[c].session].state \in {"live", "missed"}
                  /\ call'[c].token = Len(token'[call'[c].session])
             /\ call'[c].stage = "rotated" => call'[c].token < Len(token'[call'[c].session])
  <2>1. call'[c] # NoCall /\ c # "none"
    BY <1>6, NoneIsNoCall DEF NoCall
  <2>2. call[c].stage # "idle" =>
          /\ call[c].session \in Session /\ call[c].token \in DOMAIN token[call[c].session]
          /\ call[c].stage = "locked" =>
               /\ lock[call[c].session] = c /\ session[call[c].session].state \in {"live", "missed"}
               /\ call[c].token = Len(token[call[c].session])
          /\ call[c].stage = "rotated" => call[c].token < Len(token[call[c].session])
    BY DEF SessionsInv, RotationInv
  <2>3. CASE call'[c] = call[c]
    BY <1>1, <1>2, <1>6, <2>1, <2>2, <2>3 DEF Narrows, Free
  <2>4. CASE call'[c].stage = "sent" /\ call'[c].session \in Session
             /\ call'[c].token \in DOMAIN token[call'[c].session]
    BY <1>2, <2>4
  <2>5. CASE /\ call[c].stage \notin {"idle", "locked"} /\ call'[c].stage # "locked"
             /\ call'[c].session = call[c].session /\ call'[c].token = call[c].token
             /\ call'[c].stage = "rotated" => call[c].token < Len(token[call[c].session])
    BY <1>1, <1>2, <2>2, <2>5 DEF Narrows
  <2> QED BY <2>1, <2>3, <2>4, <2>5
<1>7. RotationInv'
  BY <1>4, <1>5, <1>6 DEF RotationInv
<1> QED BY <1>3, <1>7 DEF SessionsInv
\* A request that moves on keeps its session and its token.
LEMMA Staged ==
  ASSUME SessionsInv, NEW c \in Call, NEW x \in {"began", "read", "locked", "rotated", "refused"}, Stage(c, x)
  PROVE  /\ call' \in [Call -> CallState]
         /\ call'[c].stage = x /\ call'[c].session = call[c].session /\ call'[c].token = call[c].token
         /\ \A d \in Call \ {c} : call'[d] = call[d]
BY DEF Stage, SessionsInv, SessionsTypeOK, CallState

LEMMA ReadHolds ==
  ASSUME SessionsInv, NEW c \in Call, Read(c) \/ (Consume(c) /\ ~Stage(c, "locked"))
  PROVE  SessionsInv'
<1> DEFINE s == call[c].session
           i == call[c].token
<1>1. call[c].stage \in {"began", "read"} /\ UNCHANGED <<clock, version, cookie, everywhere>>
  BY DEF Read, Consume
<1>2. s \in Session /\ i \in DOMAIN token[s]
  BY <1>1 DEF SessionsInv, RotationInv
<1>3. \/ UNCHANGED tokenVars /\ Stage(c, "read")
      \/ UNCHANGED tokenVars /\ Stage(c, "rotated") /\ i < Len(token[s])
      \/ RevokeFamily(s, "reused") /\ Stage(c, "refused")
      \/ RevokeFamily(s, "invalid") /\ Stage(c, "refused")
  BY DEF Read, Consume, ReplayOrRevoke, Replayable
<1>4. Narrows
  <2>1. version \in 0 .. MaxVersion
    BY DEF SessionsInv, SessionsTypeOK
  <2>2. version' = version /\ version' \in Nat /\ version' >= version
    BY <1>1, <2>1, BoundsAreNat
  <2> QED BY <1>2, <1>3, <2>2, UnchangedNarrows, RevokeNarrows DEF Reasons
<1>5. /\ clock' \in Time /\ version' \in 0 .. MaxVersion /\ cookie' \in [Session -> 0 .. MaxTokens]
      /\ everywhere' \in [running : BOOLEAN, found : SUBSET Session]
      /\ \A x \in Session : cookie'[x] <= Len(token[x])
  BY <1>1 DEF SessionsInv, SessionsTypeOK
<1>6. PICK x \in {"read", "rotated", "refused"} : Stage(c, x) /\ (x = "rotated" => i < Len(token[s]))
  BY <1>3
<1> QED BY <1>1, <1>4, <1>5, <1>6, Staged, RevokingStep

LEMMA ConsumeHolds ==
  ASSUME SessionsInv, NEW c \in Call, Consume(c), Stage(c, "locked")
  PROVE  SessionsInv'
<1> DEFINE s == call[c].session
           i == call[c].token
<1>1. /\ call[c].stage = "read" /\ Free(s) /\ UNCHANGED <<clock, version, cookie, everywhere>>
      /\ s \in Session /\ i \in DOMAIN token[s]
  BY DEF Consume, SessionsInv, RotationInv
<1>2. call'[c].stage = "locked" /\ call[c] \in CallState
  BY Staged DEF SessionsInv, SessionsTypeOK, CallState
<1>3. ~Stage(c, "rotated") /\ ~Stage(c, "refused")
  BY <1>2 DEF Stage, SessionsInv, SessionsTypeOK, CallState
<1>4. /\ token[s][i].usedAt = Never /\ ~token[s][i].revoked
      /\ lock' = [lock EXCEPT ![s] = c] /\ UNCHANGED <<session, token>>
  BY <1>3 DEF Consume, ReplayOrRevoke
<1>5. session[s].state \in {"live", "missed"} /\ i = Len(token[s])
  <2>1. session[s].state \in Starting \cup {"live"} \cup Ended /\ token[s] # <<>>
    BY <1>1 DEF SessionsInv, SessionsTypeOK
  <2>2. session[s].state \notin Reasons /\ session[s].state \notin Starting
    BY <1>1, <1>4, <2>1 DEF SessionsInv, RotationInv, EndedFamily, Ended, Reasons
  <2>3. i = Len(token[s])
    BY <1>1, <1>4 DEF SessionsInv, RotationInv, OneHead
  <2> QED BY <2>1, <2>2, <2>3 DEF Ended
<1> HIDE DEF s, i
<1>6. /\ call' \in [Call -> CallState]
      /\ call'[c].stage = "locked" /\ call'[c].session = s /\ call'[c].token = i
      /\ \A d \in Call \ {c} : call'[d] = call[d]
  BY Staged DEF s, i
<1>7. lock \in [Session -> Call \cup {"none"}]
  BY DEF SessionsInv, SessionsTypeOK
<1>8. SessionsTypeOK'
  BY <1>1, <1>4, <1>6, <1>7 DEF SessionsInv, SessionsTypeOK, CallState
<1>9. EndedFamily' /\ OneHead'
  BY <1>1, <1>4 DEF SessionsInv, RotationInv, EndedFamily, OneHead, Never
<1>10. ASSUME NEW x \in Session
       PROVE  /\ session'[x].version <= version'
              /\ session'[x].state = "missed" => session'[x].version < version'
              /\ session'[x].state \in Starting => token'[x] = <<>>
              /\ ~Free(x)' => call'[lock'[x]].stage = "locked" /\ call'[lock'[x]].session = x
  <2>3. session'[x].version <= version' /\ (session'[x].state = "missed" => session'[x].version < version')
    BY <1>1, <1>4 DEF SessionsInv, RotationInv
  <2>1. CASE x = s
    BY <1>4, <1>5, <1>6, <1>7, <2>1, <2>3 DEF Starting
  <2>2. CASE x # s
    <3>1. lock'[x] = lock[x]
      BY <1>4, <1>7, <2>2
    <3>2. /\ session[x].state \in Starting => token[x] = <<>>
          /\ lock[x] # "none" => lock[x] \in Call \ {c} /\ call[lock[x]].stage = "locked" /\ call[lock[x]].session = x
      BY <1>1, <1>7, <2>2 DEF SessionsInv, RotationInv, Free, s
    <3> QED BY <1>4, <1>6, <2>3, <3>1, <3>2 DEF Free
  <2> QED BY <2>1, <2>2
<1>11. ASSUME NEW d \in Call, call'[d].stage # "idle"
       PROVE  /\ call'[d].session \in Session /\ call'[d].token \in DOMAIN token'[call'[d].session]
              /\ call'[d].stage = "locked" =>
                   /\ lock'[call'[d].session] = d /\ session'[call'[d].session].state \in {"live", "missed"}
                   /\ call'[d].token = Len(token'[call'[d].session])
              /\ call'[d].stage = "rotated" => call'[d].token < Len(token'[call'[d].session])
  <2>1. CASE d = c
    BY <1>1, <1>4, <1>5, <1>6, <1>7, <2>1
  <2>2. CASE d # c
    <3>1. call'[d] = call[d]
      BY <1>6, <2>2
    <3>2. call[d].stage = "locked" => lock[call[d].session] = d /\ d # "none"
      BY <1>11, <3>1, NoneIsNoCall DEF SessionsInv, RotationInv
    <3>3. call[d].stage = "locked" => call[d].session # s
      BY <1>1, <3>2 DEF Free
    <3> QED BY <1>4, <1>7, <1>11, <3>1, <3>2, <3>3 DEF SessionsInv, RotationInv
  <2> QED BY <2>1, <2>2
<1> QED BY <1>8, <1>9, <1>10, <1>11 DEF SessionsInv, RotationInv

LEMMA StoreHolds ==
  ASSUME SessionsInv, NEW c \in Call, Store(c)
  PROVE  SessionsInv'
<1> DEFINE s == call[c].session
           i == call[c].token
           at == call[c].at
           row == Fresh(at, session[s].expires)
           used == [token[s] EXCEPT ![i].usedAt = at]
<1>1. /\ call[c].stage = "locked" /\ Len(token[s]) < MaxTokens /\ Stage(c, "rotated")
      /\ token' = [token EXCEPT ![s] = Append(used, row)] /\ lock' = [lock EXCEPT ![s] = "none"]
      /\ UNCHANGED <<clock, version, session, cookie, everywhere>>
  BY DEF Store
<1>2. s \in Session /\ i = Len(token[s]) /\ lock[s] = c /\ session[s].state \in {"live", "missed"} /\ i \in DOMAIN token[s]
  BY <1>1 DEF SessionsInv, RotationInv
<1>3. token[s] \in Seq(TokenRow) /\ token \in [Session -> Seq(TokenRow)]
  BY <1>2 DEF SessionsInv, SessionsTypeOK, TokenRow
<1>4. at \in Time /\ session[s].expires \in Nat
  BY <1>2 DEF SessionsInv, SessionsTypeOK
<1>5. row \in TokenRow /\ ~row.revoked /\ row.usedAt = Never
  BY <1>4, FreshIsRow DEF Time
<1>6. at # Never
  BY <1>4, BoundsAreNat DEF Time, Never
<1>7. Len(token[s]) \in Nat /\ DOMAIN token[s] = 1 .. Len(token[s]) /\ i \in 1 .. Len(token[s])
  BY <1>2, <1>3
<1>8. /\ used \in Seq(TokenRow) /\ Len(used) = Len(token[s])
      /\ used[i].usedAt = at /\ \A j \in 1 .. Len(token[s]) : j # i => used[j] = token[s][j]
  <2>1. token[s][i] \in TokenRow
    BY <1>3, <1>7
  <2>2. [token[s][i] EXCEPT !.usedAt = at] \in TokenRow /\ [token[s][i] EXCEPT !.usedAt = at].usedAt = at
    BY <1>4, <2>1 DEF TokenRow
  <2>3. used = [token[s] EXCEPT ![i] = [token[s][i] EXCEPT !.usedAt = at]]
    OBVIOUS
  <2> HIDE DEF used
  <2> QED BY <1>3, <1>7, <2>2, <2>3
<1> HIDE DEF s, i, at, row, used
<1>9. /\ Append(used, row) \in Seq(TokenRow) /\ Len(Append(used, row)) = Len(token[s]) + 1
      /\ \A j \in 1 .. Len(token[s]) : Append(used, row)[j] = used[j]
      /\ Append(used, row)[Len(token[s]) + 1] = row
  BY <1>5, <1>7, <1>8
<1>10. /\ token' \in [Session -> Seq(TokenRow)] /\ \A x \in Session \ {s} : token'[x] = token[x]
       /\ Len(token'[s]) = Len(token[s]) + 1 /\ DOMAIN token'[s] = 1 .. (Len(token[s]) + 1)
       /\ \A j \in 1 .. Len(token[s]) : token'[s][j] = used[j]
       /\ token'[s][Len(token[s]) + 1] = row
  <2>1. token'[s] = Append(used, row)
    BY <1>1, <1>2, <1>3
  <2>2. DOMAIN Append(used, row) = 1 .. (Len(token[s]) + 1)
    BY <1>7, <1>9
  <2> QED BY <1>1, <1>3, <1>9, <2>1, <2>2
<1>11. /\ call' \in [Call -> CallState]
       /\ call'[c].stage = "rotated" /\ call'[c].session = s /\ call'[c].token = i
       /\ \A d \in Call \ {c} : call'[d] = call[d]
  BY <1>1, Staged DEF s, i
<1>12. /\ lock \in [Session -> Call \cup {"none"}] /\ lock' \in [Session -> Call \cup {"none"}]
       /\ lock'[s] = "none" /\ \A x \in Session \ {s} : lock'[x] = lock[x]
  BY <1>1, <1>2 DEF SessionsInv, SessionsTypeOK
<1>13. SessionsTypeOK'
  <2>1. \A x \in Session : Len(token'[x]) <= MaxTokens /\ cookie'[x] <= Len(token'[x])
    <3>1. \A x \in Session : Len(token[x]) <= MaxTokens /\ cookie[x] <= Len(token[x]) /\ cookie[x] \in 0 .. MaxTokens
      BY DEF SessionsInv, SessionsTypeOK
    <3>2. Len(token[s]) < MaxTokens
      BY <1>1 DEF s
    <3> QED BY <1>1, <1>2, <1>7, <1>10, <3>1, <3>2, BoundsAreNat
  <2> QED BY <1>1, <1>10, <1>11, <1>12, <2>1 DEF SessionsInv, SessionsTypeOK, TokenRow, CallState
<1>14. EndedFamily'
  <2> SUFFICES ASSUME NEW x \in Session, session[x].state \in Ended
               PROVE  \/ \A j \in DOMAIN token'[x] : token'[x][j].revoked
                      \/ session[x].state = "missed" /\ session[x].version < version
    BY <1>1 DEF EndedFamily
  <2>1. \/ \A j \in DOMAIN token[x] : token[x][j].revoked
        \/ session[x].state = "missed" /\ session[x].version < version
    BY DEF SessionsInv, RotationInv, EndedFamily
  <2>2. CASE x # s
    BY <1>10, <2>1, <2>2
  <2>3. CASE x = s
    BY <1>2, <2>3 DEF SessionsInv, RotationInv, Ended, Reasons
  <2> QED BY <2>2, <2>3
<1>15. OneHead'
  <2> SUFFICES ASSUME NEW x \in Session, NEW j \in DOMAIN token'[x]
               PROVE  (token'[x][j].usedAt = Never) = (j = Len(token'[x]))
    BY DEF OneHead, Never
  <2>1. CASE x # s
    BY <1>10, <2>1 DEF SessionsInv, RotationInv, OneHead
  <2>2. CASE x = s /\ j = Len(token[s]) + 1
    BY <1>5, <1>10, <2>2
  <2>3. CASE x = s /\ j = i
    BY <1>2, <1>6, <1>7, <1>8, <1>10, <2>3
  <2>4. CASE x = s /\ j # i /\ j # Len(token[s]) + 1
    <3>1. j \in 1 .. Len(token[s])
      BY <1>7, <1>10, <2>4
    <3>2. token'[s][j] = token[s][j] /\ token[s][j].usedAt # Never
      BY <1>2, <1>7, <1>8, <1>10, <2>4, <3>1 DEF SessionsInv, RotationInv, OneHead
    <3> QED BY <1>10, <2>4, <3>2
  <2> QED BY <2>1, <2>2, <2>3, <2>4
<1>16. ASSUME NEW x \in Session
       PROVE  /\ session'[x].version <= version'
              /\ session'[x].state = "missed" => session'[x].version < version'
              /\ session'[x].state \in Starting => token'[x] = <<>>
              /\ ~Free(x)' => call'[lock'[x]].stage = "locked" /\ call'[lock'[x]].session = x
  <2>3. session'[x].version <= version' /\ (session'[x].state = "missed" => session'[x].version < version')
    BY <1>1 DEF SessionsInv, RotationInv
  <2>1. CASE x = s
    BY <1>1, <1>2, <1>12, <2>1, <2>3 DEF Free, Starting
  <2>2. CASE x # s
    <3>1. /\ session[x].state \in Starting => token[x] = <<>>
          /\ lock[x] # "none" => lock[x] \in Call \ {c} /\ call[lock[x]].stage = "locked" /\ call[lock[x]].session = x
      BY <1>2, <1>12, <2>2 DEF SessionsInv, RotationInv, Free, s
    <3> QED BY <1>1, <1>10, <1>11, <1>12, <2>2, <2>3, <3>1 DEF Free
  <2> QED BY <2>1, <2>2
<1>17. ASSUME NEW d \in Call, call'[d].stage # "idle"
       PROVE  /\ call'[d].session \in Session /\ call'[d].token \in DOMAIN token'[call'[d].session]
              /\ call'[d].stage = "locked" =>
                   /\ lock'[call'[d].session] = d /\ session'[call'[d].session].state \in {"live", "missed"}
                   /\ call'[d].token = Len(token'[call'[d].session])
              /\ call'[d].stage = "rotated" => call'[d].token < Len(token'[call'[d].session])
  <2>1. CASE d = c
    BY <1>2, <1>7, <1>10, <1>11, <2>1
  <2>2. CASE d # c
    <3>1. call'[d] = call[d] /\ call[d].stage # "idle"
      BY <1>11, <1>17, <2>2
    <3>2. /\ call[d].session \in Session /\ call[d].token \in DOMAIN token[call[d].session]
          /\ call[d].stage = "locked" =>
               /\ lock[call[d].session] = d /\ session[call[d].session].state \in {"live", "missed"}
               /\ call[d].token = Len(token[call[d].session])
          /\ call[d].stage = "rotated" => call[d].token < Len(token[call[d].session])
      BY <3>1 DEF SessionsInv, RotationInv
    <3>3. CASE call[d].session # s
      BY <1>1, <1>10, <1>12, <3>1, <3>2, <3>3
    <3>4. CASE call[d].session = s
      <4>1. call[d].stage # "locked"
        BY <1>2, <2>2, <3>2, <3>4
      <4> QED BY <1>7, <1>10, <3>1, <3>2, <3>4, <4>1
    <3> QED BY <3>3, <3>4
  <2> QED BY <2>1, <2>2
<1> QED BY <1>13, <1>14, <1>15, <1>16, <1>17 DEF SessionsInv, RotationInv

LEMMA SignInHolds ==
  ASSUME SessionsInv, NEW s \in Session, SignIn(s)
  PROVE  SessionsInv'
<1> DEFINE row == Fresh(clock, clock + AbsoluteTime)
<1>1. /\ session[s].state = "signing"
      /\ session' = [session EXCEPT ![s] = [session[s] EXCEPT !.state = "live", !.expires = clock + AbsoluteTime]]
      /\ token' = [token EXCEPT ![s] = <<row>>] /\ cookie' = [cookie EXCEPT ![s] = 1]
      /\ UNCHANGED <<clock, version, call, lock, everywhere>>
  <2>1. session \in [Session -> RowState]
    BY DEF SessionsInv, SessionsTypeOK, RowState
  <2> QED BY <2>1 DEF SignIn, RowState
<1>2. /\ clock \in Nat /\ clock + AbsoluteTime \in Nat /\ version \in 0 .. MaxVersion
      /\ session \in [Session -> RowState] /\ token \in [Session -> Seq(TokenRow)]
      /\ cookie \in [Session -> 0 .. MaxTokens]
  <2>1. clock \in 0 .. MaxTime
    BY DEF SessionsInv, SessionsTypeOK, Time
  <2>2. clock \in Nat /\ clock + AbsoluteTime \in Nat
    BY <2>1, LimitsAreNat, BoundsAreNat
  <2> QED BY <2>2 DEF SessionsInv, SessionsTypeOK, RowState, TokenRow
<1>3. row \in TokenRow /\ row.usedAt = Never
  <2> DEFINE end == clock + AbsoluteTime
  <2>1. clock \in Nat /\ end \in Nat
    BY <1>2
  <2> HIDE DEF end
  <2>2. Fresh(clock, end) \in TokenRow /\ Fresh(clock, end).usedAt = Never
    BY <2>1, FreshIsRow
  <2> QED BY <2>2 DEF end
<1> HIDE DEF row
<1>4. /\ token'[s] = <<row>> /\ Len(token'[s]) = 1 /\ DOMAIN token'[s] = 1 .. 1 /\ token'[s][1] = row
      /\ token' \in [Session -> Seq(TokenRow)] /\ \A x \in Session \ {s} : token'[x] = token[x]
  <2>1. <<row>> \in Seq(TokenRow) /\ Len(<<row>>) = 1 /\ <<row>>[1] = row
    BY <1>3
  <2>2. token'[s] = <<row>> /\ \A x \in Session \ {s} : token'[x] = token[x]
    BY <1>1, <1>2
  <2>3. token' \in [Session -> Seq(TokenRow)]
    BY <1>1, <1>2, <2>1
  <2>4. DOMAIN <<row>> = 1 .. 1
    BY <2>1
  <2> QED BY <2>1, <2>2, <2>3, <2>4
<1>5. /\ session' \in [Session -> RowState] /\ session'[s].state = "live"
      /\ session'[s].version = session[s].version
      /\ \A x \in Session \ {s} : session'[x] = session[x]
  BY <1>1, <1>2 DEF RowState
<1>6. SessionsTypeOK'
  <2>1. ASSUME NEW x \in Session
        PROVE  cookie'[x] \in 0 .. MaxTokens /\ Len(token'[x]) <= MaxTokens /\ cookie'[x] <= Len(token'[x])
    BY <1>1, <1>2, <1>4, BoundsAreNat DEF SessionsInv, SessionsTypeOK
  <2>2. cookie' \in [Session -> 0 .. MaxTokens]
    BY <1>1, <1>2, BoundsAreNat
  <2> QED BY <1>1, <1>2, <1>4, <1>5, <2>1, <2>2 DEF SessionsInv, SessionsTypeOK, RowState, TokenRow
<1>7. EndedFamily'
  BY <1>1, <1>4, <1>5 DEF SessionsInv, RotationInv, EndedFamily, Ended, Reasons
<1>8. OneHead'
  <2> SUFFICES ASSUME NEW x \in Session, NEW j \in DOMAIN token'[x]
               PROVE  (token'[x][j].usedAt = Never) = (j = Len(token'[x]))
    BY DEF OneHead, Never
  <2>1. CASE x # s
    BY <1>4, <2>1 DEF SessionsInv, RotationInv, OneHead
  <2>2. CASE x = s
    <3>1. token'[x] = <<row>> /\ DOMAIN token'[x] = 1 .. 1 /\ Len(token'[x]) = 1 /\ token'[x][1] = row
      BY <1>4, <2>2
    <3>2. j \in 1 .. 1
      BY <3>1
    <3>3. j = 1
      BY <3>2
    <3> QED BY <1>3, <3>1, <3>3
  <2> QED BY <2>1, <2>2
<1>9. token[s] = <<>> /\ lock[s] = "none"
  <2>1. token[s] = <<>>
    BY <1>1 DEF SessionsInv, RotationInv, Starting
  <2>2. lock[s] # "none" => lock[s] \in Call /\ call[lock[s]].stage = "locked" /\ call[lock[s]].session = s
    BY DEF SessionsInv, RotationInv, SessionsTypeOK, Free
  <2>3. lock[s] = "none"
    BY <1>1, <2>2 DEF SessionsInv, RotationInv
  <2> QED BY <2>1, <2>3
<1>10. ASSUME NEW x \in Session
       PROVE  /\ session'[x].version <= version'
              /\ session'[x].state = "missed" => session'[x].version < version'
              /\ session'[x].state \in Starting => token'[x] = <<>>
              /\ ~Free(x)' => call'[lock'[x]].stage = "locked" /\ call'[lock'[x]].session = x
  <2>1. CASE x # s
    BY <1>1, <1>4, <1>5, <2>1 DEF SessionsInv, RotationInv, Free
  <2>2. CASE x = s
    <3>1. session'[x].version <= version' /\ session'[x].state = "live"
      BY <1>1, <1>5, <2>2 DEF SessionsInv, RotationInv
    <3> QED BY <1>1, <1>9, <2>2, <3>1 DEF Free, Starting
  <2> QED BY <2>1, <2>2
<1>11. ASSUME NEW d \in Call, call'[d].stage # "idle"
       PROVE  /\ call'[d].session \in Session /\ call'[d].token \in DOMAIN token'[call'[d].session]
              /\ call'[d].stage = "locked" =>
                   /\ lock'[call'[d].session] = d /\ session'[call'[d].session].state \in {"live", "missed"}
                   /\ call'[d].token = Len(token'[call'[d].session])
              /\ call'[d].stage = "rotated" => call'[d].token < Len(token'[call'[d].session])
  <2>1. /\ call[d].session \in Session /\ call[d].token \in DOMAIN token[call[d].session]
        /\ call[d].stage = "locked" =>
             /\ lock[call[d].session] = d /\ session[call[d].session].state \in {"live", "missed"}
             /\ call[d].token = Len(token[call[d].session])
        /\ call[d].stage = "rotated" => call[d].token < Len(token[call[d].session])
    BY <1>1, <1>11 DEF SessionsInv, RotationInv
  <2>2. call[d].session # s
    BY <1>9, <2>1
  <2> QED BY <1>1, <1>4, <1>5, <2>1, <2>2
<1> QED BY <1>6, <1>7, <1>8, <1>10, <1>11 DEF SessionsInv, RotationInv

LEMMA BeginSignInHolds ==
  ASSUME SessionsInv, NEW s \in Session, BeginSignIn(s)
  PROVE  SessionsInv'
<1> DEFINE new == [session[s] EXCEPT !.state = "signing", !.version = version]
<1>1. /\ session[s].state = "none" /\ UNCHANGED <<clock, version, token, lock, cookie, call, everywhere>>
      /\ session \in [Session -> RowState] /\ token \in [Session -> Seq(TokenRow)]
      /\ version \in 0 .. MaxVersion
  BY DEF BeginSignIn, SessionsInv, SessionsTypeOK, RowState, TokenRow
<1>2. new \in RowState /\ new.state = "signing" /\ new.version = version
  BY <1>1 DEF RowState, Starting
<1>3. session' = [session EXCEPT ![s] = new]
  BY <1>1 DEF BeginSignIn, RowState
<1> HIDE DEF new
<1>4. session' \in [Session -> RowState] /\ session'[s] = new /\ \A x \in Session \ {s} : session'[x] = session[x]
  BY <1>1, <1>2, <1>3
<1>5. token[s] = <<>>
  BY <1>1 DEF SessionsInv, RotationInv, Starting
<1>6. ASSUME NEW x \in Session
      PROVE  /\ session'[x].state \in Starting <=> session[x].state \in Starting
             /\ session'[x].version <= version
             /\ session[x].state \in {"live", "missed"} => session'[x].state \in {"live", "missed"}
             /\ session'[x].state = "missed" => session'[x].version < version
             /\ session'[x].state \in Reasons => \A i \in DOMAIN token[x] : token[x][i].revoked
  <2>1. CASE x = s
    BY <1>1, <1>2, <1>4, <2>1, BoundsAreNat DEF Starting, Reasons
  <2>2. CASE x # s
    BY <1>4, <2>2 DEF SessionsInv, RotationInv, EndedFamily, Ended, Reasons
  <2> QED BY <2>1, <2>2
<1>7. Narrows
  BY <1>1, <1>4, <1>6 DEF Narrows
<1>8. /\ clock' \in Time /\ cookie' \in [Session -> 0 .. MaxTokens] /\ call' \in [Call -> CallState]
      /\ everywhere' \in [running : BOOLEAN, found : SUBSET Session]
      /\ \A x \in Session : cookie'[x] <= Len(token[x])
  BY <1>1 DEF SessionsInv, SessionsTypeOK, CallState
<1> QED BY <1>1, <1>7, <1>8, RevokingStep

LEMMA AbortHolds ==
  ASSUME SessionsInv, NEW c \in Call, Abort(c)
  PROVE  SessionsInv'
<1>1. /\ call[c].stage # "idle"
      /\ lock' = [s \in Session |-> IF lock[s] = c THEN "none" ELSE lock[s]]
      /\ call' = [call EXCEPT ![c] = NoCall]
      /\ UNCHANGED <<clock, version, session, token, cookie, everywhere>>
  BY DEF Abort
<1>2. call \in [Call -> CallState] /\ lock \in [Session -> Call \cup {"none"}] /\ NoCall \in CallState
  BY BoundsAreNat DEF SessionsInv, SessionsTypeOK, CallState, NoCall, Time
<1>3. /\ call' \in [Call -> CallState] /\ call'[c].stage = "idle" /\ \A d \in Call \ {c} : call'[d] = call[d]
      /\ lock' \in [Session -> Call \cup {"none"}]
  BY <1>1, <1>2 DEF NoCall
<1>4. SessionsTypeOK'
  BY <1>1, <1>3 DEF SessionsInv, SessionsTypeOK, CallState
<1>5. EndedFamily' /\ OneHead'
  BY <1>1 DEF SessionsInv, RotationInv, EndedFamily, OneHead, Never
<1>6. ASSUME NEW x \in Session
      PROVE  /\ session'[x].version <= version'
             /\ session'[x].state = "missed" => session'[x].version < version'
             /\ session'[x].state \in Starting => token'[x] = <<>>
             /\ ~Free(x)' => call'[lock'[x]].stage = "locked" /\ call'[lock'[x]].session = x
  <2>1. /\ session[x].version <= version /\ (session[x].state = "missed" => session[x].version < version)
        /\ session[x].state \in Starting => token[x] = <<>>
        /\ lock[x] # "none" => lock[x] \in Call /\ call[lock[x]].stage = "locked" /\ call[lock[x]].session = x
    BY <1>2 DEF SessionsInv, RotationInv, Free
  <2>2. lock'[x] # "none" => lock'[x] = lock[x] /\ lock[x] # c
    BY <1>1
  <2> QED BY <1>1, <1>3, <2>1, <2>2 DEF Free
<1>7. ASSUME NEW d \in Call, call'[d].stage # "idle"
      PROVE  /\ call'[d].session \in Session /\ call'[d].token \in DOMAIN token'[call'[d].session]
             /\ call'[d].stage = "locked" =>
                  /\ lock'[call'[d].session] = d /\ session'[call'[d].session].state \in {"live", "missed"}
                  /\ call'[d].token = Len(token'[call'[d].session])
             /\ call'[d].stage = "rotated" => call'[d].token < Len(token'[call'[d].session])
  <2>1. d # c /\ call'[d] = call[d]
    BY <1>3, <1>7
  <2>2. /\ call[d].session \in Session /\ call[d].token \in DOMAIN token[call[d].session]
        /\ call[d].stage = "locked" =>
             /\ lock[call[d].session] = d /\ session[call[d].session].state \in {"live", "missed"}
             /\ call[d].token = Len(token[call[d].session])
        /\ call[d].stage = "rotated" => call[d].token < Len(token[call[d].session])
    BY <1>7, <2>1 DEF SessionsInv, RotationInv
  <2> QED BY <1>1, <2>1, <2>2
<1> QED BY <1>4, <1>5, <1>6, <1>7 DEF SessionsInv, RotationInv

\* The rest of what a request does, and all that happens around it.
LEMMA RequestHolds ==
  ASSUME SessionsInv, NEW c \in Call, (\E s \in Session : Send(c, s)) \/ Arrive(c) \/ Answer(c)
  PROVE  SessionsInv'
<1>1. UNCHANGED <<clock, version, tokenVars, everywhere>> /\ Narrows
  <2>1. UNCHANGED <<clock, version, tokenVars, everywhere>>
    BY DEF Send, Arrive, Answer
  <2>2. version \in 0 .. MaxVersion
    BY DEF SessionsInv, SessionsTypeOK
  <2>3. version' \in Nat /\ version' >= version
    BY <2>1, <2>2, BoundsAreNat
  <2> QED BY <2>1, <2>3, UnchangedNarrows
<1>2. /\ clock' \in Time /\ version' \in 0 .. MaxVersion /\ call \in [Call -> CallState]
      /\ cookie \in [Session -> 0 .. MaxTokens] /\ token \in [Session -> Seq(TokenRow)]
      /\ \A x \in Session : cookie[x] <= Len(token[x]) /\ Len(token[x]) <= MaxTokens
      /\ NoCall \in CallState /\ everywhere' \in [running : BOOLEAN, found : SUBSET Session]
  <2>1. NoCall \in CallState
    BY BoundsAreNat DEF CallState, NoCall, Time
  <2> QED BY <1>1, <2>1 DEF SessionsInv, SessionsTypeOK, CallState, TokenRow
<1>3. ASSUME NEW s \in Session, Send(c, s) PROVE SessionsInv'
  <2>1. /\ call' = [call EXCEPT ![c] = [NoCall EXCEPT !.stage = "sent", !.session = s, !.token = cookie[s]]]
        /\ call[c] = NoCall /\ UNCHANGED cookie /\ cookie[s] > 0
    BY <1>3 DEF Send
  <2>2. cookie[s] \in 0 .. MaxTokens /\ cookie[s] \in DOMAIN token[s]
    BY <1>2, <2>1
  <2>3. /\ call' \in [Call -> CallState] /\ \A d \in Call \ {c} : call'[d] = call[d]
        /\ call'[c].stage = "sent" /\ call'[c].session = s /\ call'[c].token = cookie[s]
    BY <1>2, <2>1, <2>2 DEF CallState, NoCall
  <2>4. call[c].stage = "idle"
    BY <2>1 DEF NoCall
  <2> QED BY <1>1, <1>2, <2>1, <2>2, <2>3, <2>4, RevokingStep
<1>4. ASSUME Arrive(c) PROVE SessionsInv'
  <2>1. /\ call' \in [Call -> CallState] /\ \A d \in Call \ {c} : call'[d] = call[d]
        /\ call'[c].stage = "began" /\ call'[c].session = call[c].session /\ call'[c].token = call[c].token
        /\ call[c].stage = "sent" /\ UNCHANGED cookie
    BY <1>2, <1>4 DEF Arrive, CallState, SessionsInv, SessionsTypeOK
  <2> QED BY <1>1, <1>2, <2>1, RevokingStep
<1>5. ASSUME Answer(c) PROVE SessionsInv'
  <2> DEFINE s == call[c].session
             i == call[c].token
  <2>1. /\ call[c].stage \in {"rotated", "refused"} /\ call' = [call EXCEPT ![c] = NoCall]
        /\ UNCHANGED cookie \/ (call[c].stage = "rotated" /\ cookie' = [cookie EXCEPT ![s] = i + 1])
    BY <1>5 DEF Answer
  <2>2. call' \in [Call -> CallState] /\ call'[c] = NoCall /\ \A d \in Call \ {c} : call'[d] = call[d]
    BY <1>2, <2>1
  <2>3. s \in Session /\ i \in Nat /\ (call[c].stage = "rotated" => i < Len(token[s])) /\ Len(token[s]) \in Nat
    <3>1. s \in Session /\ i \in DOMAIN token[s] /\ (call[c].stage = "rotated" => i < Len(token[s]))
      BY <2>1 DEF SessionsInv, RotationInv
    <3> QED BY <1>2, <3>1
  <2> HIDE DEF s, i
  <2>4. cookie' \in [Session -> 0 .. MaxTokens] /\ \A x \in Session : cookie'[x] <= Len(token[x])
    <3>1. CASE UNCHANGED cookie
      BY <1>2, <3>1
    <3>2. CASE call[c].stage = "rotated" /\ cookie' = [cookie EXCEPT ![s] = i + 1]
      <4>1. i + 1 <= Len(token[s]) /\ i + 1 \in 0 .. MaxTokens
        BY <1>2, <2>3, <3>2, BoundsAreNat
      <4> QED BY <1>2, <3>2, <4>1
    <3> QED BY <2>1, <3>1, <3>2
  <2> QED BY <1>1, <1>2, <2>1, <2>2, <2>4, RevokingStep
<1> QED BY <1>3, <1>4, <1>5

\* All sessions are ended at once: those found with their tokens, the others by the version.
LEMMA AllNarrows ==
  ASSUME SessionsInv, RevokeAll
  PROVE  Narrows
<1> DEFINE new(s) == [i \in DOMAIN token[s] |-> [token[s][i] EXCEPT !.revoked = TRUE]]
           found == everywhere.found
           row(s) == [session[s] EXCEPT !.state = IF s \in found THEN "out" ELSE "missed"]
<1>1. /\ session' = [s \in Session |-> IF session[s].state = "live" THEN row(s) ELSE session[s]]
      /\ token' = [s \in Session |-> IF s \in found THEN new(s) ELSE token[s]]
      /\ UNCHANGED lock /\ (\A s \in found : Free(s)) /\ version' = version + 1
  BY DEF RevokeAll, Live
<1>2. /\ session \in [Session -> RowState] /\ token \in [Session -> Seq(TokenRow)]
      /\ found \subseteq Session /\ version \in 0 .. MaxVersion
  BY DEF SessionsInv, SessionsTypeOK, RowState, TokenRow
<1>3. \A s \in Session : /\ row(s) \in RowState /\ row(s).version = session[s].version
                         /\ row(s).state = IF s \in found THEN "out" ELSE "missed"
  BY <1>2 DEF RowState, Ended, Reasons
<1>4. ASSUME NEW x \in Session
      PROVE  /\ new(x) \in Seq(TokenRow) /\ Len(new(x)) = Len(token[x])
             /\ \A i \in DOMAIN token[x] : new(x)[i].revoked /\ new(x)[i].usedAt = token[x][i].usedAt
  <2>1. token[x] \in Seq(TokenRow) /\ DOMAIN token[x] = 1 .. Len(token[x]) /\ Len(token[x]) \in Nat
    BY <1>2
  <2>2. \A i \in 1 .. Len(token[x]) : token[x][i] \in TokenRow
    BY <2>1
  <2>3. \A i \in 1 .. Len(token[x]) :
          /\ [token[x][i] EXCEPT !.revoked = TRUE] \in TokenRow
          /\ [token[x][i] EXCEPT !.revoked = TRUE].revoked
          /\ [token[x][i] EXCEPT !.revoked = TRUE].usedAt = token[x][i].usedAt
    BY <2>2 DEF TokenRow
  <2> QED BY <2>1, <2>3
<1> HIDE DEF new, row, found
<1>5. /\ session' \in [Session -> RowState] /\ token' \in [Session -> Seq(TokenRow)]
      /\ \A x \in Session : /\ Len(token'[x]) = Len(token[x])
                            /\ \A i \in DOMAIN token[x] : token'[x][i].usedAt = token[x][i].usedAt
  BY <1>1, <1>2, <1>3, <1>4
<1>6. ASSUME NEW x \in Session
      PROVE  /\ session'[x].state \in Starting <=> session[x].state \in Starting
             /\ session'[x].version <= version'
             /\ session[x].state \in {"live", "missed"} => session'[x].state \in {"live", "missed"} \/ Free(x)
             /\ session'[x].state = "missed" => session'[x].version < version'
             /\ session'[x].state \in Reasons => \A i \in DOMAIN token[x] : token'[x][i].revoked
  <2>1. session'[x] = (IF session[x].state = "live" THEN row(x) ELSE session[x]) /\ version' > version /\ version' \in Nat
    BY <1>1, <1>2, BoundsAreNat
  <2>2. session[x].version <= version /\ session[x].version \in 0 .. MaxVersion
    BY <1>2 DEF SessionsInv, RotationInv, RowState
  <2>3. /\ session'[x].version = session[x].version /\ session'[x].version < version'
        /\ session'[x].version <= version'
    BY <1>2, <1>3, <2>1, <2>2, BoundsAreNat
  <2>4. CASE session[x].state = "live"
    <3>1. session'[x].state = IF x \in found THEN "out" ELSE "missed"
      BY <1>3, <2>1, <2>4
    <3>2. CASE x \in found
      BY <1>1, <1>4, <2>3, <2>4, <3>1, <3>2 DEF Starting, Reasons
    <3>3. CASE x \notin found
      BY <2>3, <2>4, <3>1, <3>3 DEF Starting, Reasons
    <3> QED BY <3>2, <3>3
  <2>5. CASE session[x].state # "live"
    <3>1. session[x].state \in Reasons => \A i \in DOMAIN token[x] : token[x][i].revoked
      BY DEF SessionsInv, RotationInv, EndedFamily, Ended, Reasons
    <3>2. session[x].state \in Reasons => \A i \in DOMAIN token[x] : token'[x][i].revoked
      BY <1>1, <1>4, <3>1
    <3>3. session'[x] = session[x]
      BY <2>1, <2>5
    <3> QED BY <2>3, <2>5, <3>2, <3>3
  <2> QED BY <2>4, <2>5
<1> QED BY <1>1, <1>5, <1>6 DEF Narrows

LEMMA EndingHolds ==
  ASSUME SessionsInv,
         \/ UNCHANGED sessionVars \/ Tick \/ BumpVersion \/ \E s \in Session : Revoke(s)
         \/ BeginRevokeAll \/ RevokeAll \/ AbortRevokeAll
         \/ UNCHANGED <<clock, tokenVars, cookie, call, everywhere>> /\ Bump
  PROVE  SessionsInv'
<1>1. version \in 0 .. MaxVersion /\ clock \in Time
  BY DEF SessionsInv, SessionsTypeOK
<1>2. UNCHANGED <<cookie, call>> /\ clock' \in Time
  BY <1>1, BoundsAreNat DEF sessionVars, Tick, BumpVersion, RevokeAll, BeginRevokeAll, AbortRevokeAll, Revoke, Time
<1>3. version' \in 0 .. MaxVersion /\ version' \in Nat /\ version' >= version
  BY <1>1, BoundsAreNat DEF sessionVars, Tick, Bump, BumpVersion, RevokeAll, BeginRevokeAll, AbortRevokeAll, Revoke
<1>4. everywhere' \in [running : BOOLEAN, found : SUBSET Session]
  <2>1. everywhere \in [running : BOOLEAN, found : SUBSET Session]
    BY DEF SessionsInv, SessionsTypeOK
  <2>2. \/ UNCHANGED everywhere \/ everywhere' = NotRunning
        \/ everywhere' = [running |-> TRUE, found |-> Live]
    <3>1. CASE BeginRevokeAll \/ RevokeAll \/ AbortRevokeAll
      <4>1. CASE BeginRevokeAll
        BY <4>1 DEF BeginRevokeAll
      <4>2. CASE RevokeAll
        BY <4>2 DEF RevokeAll
      <4>3. CASE AbortRevokeAll
        BY <4>3 DEF AbortRevokeAll
      <4> QED BY <3>1, <4>1, <4>2, <4>3
    <3>2. CASE UNCHANGED sessionVars \/ Tick \/ BumpVersion \/ \E s \in Session : Revoke(s)
      BY <3>2 DEF sessionVars, Tick, BumpVersion, Revoke
    <3>3. CASE UNCHANGED <<clock, tokenVars, cookie, call, everywhere>> /\ Bump
      BY <3>3
    <3> QED BY <3>1, <3>2, <3>3
  <2>3. Live \in SUBSET Session
    BY DEF Live
  <2>4. NotRunning \in [running : BOOLEAN, found : SUBSET Session]
    BY DEF NotRunning
  <2>5. [running |-> TRUE, found |-> Live] \in [running : BOOLEAN, found : SUBSET Session]
    BY <2>3
  <2> QED BY <2>1, <2>2, <2>4, <2>5
<1>5. Narrows
  <2>1. CASE UNCHANGED tokenVars
    BY <1>3, <2>1, UnchangedNarrows
  <2>2. CASE \E s \in Session : Revoke(s)
    BY <2>2, RevokeNarrows DEF Revoke, Reasons
  <2>3. CASE RevokeAll
    BY <2>3, AllNarrows
  <2> QED BY <2>1, <2>2, <2>3 DEF sessionVars, tokenVars, Tick, BumpVersion, BeginRevokeAll, AbortRevokeAll
<1>6. /\ cookie' \in [Session -> 0 .. MaxTokens] /\ \A x \in Session : cookie'[x] <= Len(token[x])
      /\ call' \in [Call -> CallState]
  BY <1>2 DEF SessionsInv, SessionsTypeOK, CallState
<1> QED BY <1>2, <1>3, <1>4, <1>5, <1>6, RevokingStep

LEMMA TabsHold ==
  ASSUME SessionsInv, Tabs
  PROVE  SessionsInv'
<1>1. ASSUME NEW c \in Call, CallStep(c) PROVE SessionsInv'
  BY <1>1, RequestHolds, ReadHolds, ConsumeHolds, StoreHolds, AbortHolds DEF CallStep
<1> QED BY <1>1, BeginSignInHolds, SignInHolds, EndingHolds DEF Tabs
-----------------------------------------------------------------------------
(* The changes of the password *)

PageState == [of : Change \cup {"none"}, answer : {"none", "confirm", "reject"}]

MailInv == ChangeTypeOK /\ ChangeInv

LEMMA ChangeInitHolds == ChangeInit => MailInv
BY NoneIsNoChange DEF ChangeInit, MailInv, ChangeTypeOK, ChangeInv, ConfirmedOnce, NotYet, PagesKnown, MailedBefore, ChangeStatus, NoPage

LEMMA Becomes ==
  ASSUME MailInv, NEW R, NEW x \in ChangeStatus, Become(R, x)
  PROVE  /\ change' \in [Change -> ChangeStatus]
         /\ \A r \in Change : change'[r] = IF r \in R THEN x ELSE change[r]
BY DEF MailInv, ChangeTypeOK, Become

LEMMA AskHolds ==
  ASSUME MailInv, NEW a \in Asker, Ask(a)
  PROVE  MailInv'
<1>1. /\ UNCHANGED <<late, times, decider>> /\ asker' = [asker EXCEPT ![a] = "asking"]
      /\ change' \in [Change -> ChangeStatus]
      /\ \A r \in Change : change'[r] = IF r \in Pending \cap late THEN "EXPIRED" ELSE change[r]
  BY Becomes DEF Ask, ChangeStatus
<1>2. ChangeTypeOK'
  BY <1>1 DEF MailInv, ChangeTypeOK, PageState
<1>3. ConfirmedOnce' /\ NotYet'
  BY <1>1 DEF MailInv, ChangeInv, ConfirmedOnce, NotYet, Pending
<1>4. PagesKnown'
  BY <1>1 DEF MailInv, ChangeInv, PagesKnown
<1>5. MailedBefore'
  BY <1>1, NoneIsNoChange DEF MailInv, ChangeInv, ChangeTypeOK, MailedBefore
<1> QED BY <1>2, <1>3, <1>4, <1>5 DEF MailInv, ChangeInv

LEMMA RecordHolds ==
  ASSUME MailInv, NEW a \in Asker, NEW q \in Change, Record(a, q)
  PROVE  MailInv'
<1>1. /\ UNCHANGED <<late, times, decider>> /\ asker' = [asker EXCEPT ![a] = q] /\ change[q] = "NONE"
      /\ change' \in [Change -> ChangeStatus]
      /\ \A r \in Change : change'[r] = IF r = q THEN "PENDING" ELSE change[r]
  BY Becomes DEF Record, ChangeStatus
<1>2. ChangeTypeOK'
  BY <1>1 DEF MailInv, ChangeTypeOK, PageState
<1>3. ConfirmedOnce' /\ NotYet'
  BY <1>1 DEF MailInv, ChangeInv, ConfirmedOnce, NotYet
<1>4. PagesKnown'
  BY <1>1 DEF MailInv, ChangeInv, PagesKnown
<1>5. MailedBefore'
  <2>1. \A d \in Decider : decider[d].of # q
    BY <1>1, NoneIsNoChange DEF MailInv, ChangeInv, PagesKnown
  <2>2. times[q] = 0
    BY <1>1 DEF MailInv, ChangeInv, NotYet
  <2> QED BY <1>1, <2>1, <2>2 DEF MailInv, ChangeInv, ChangeTypeOK, MailedBefore
<1> QED BY <1>2, <1>3, <1>4, <1>5 DEF MailInv, ChangeInv

LEMMA MailHolds ==
  ASSUME MailInv, NEW a \in Asker, Mail(a)
  PROVE  MailInv'
<1>1. /\ UNCHANGED <<late, times, decider>> /\ asker' = [asker EXCEPT ![a] = "idle"] /\ asker[a] \in Change
      /\ change' \in [Change -> ChangeStatus]
      /\ \A r \in Change : change'[r] = change[r] \/ (r = asker[a] /\ change'[r] = "GONE")
  BY Becomes DEF Mail, ChangeStatus, MailInv, ChangeTypeOK
<1>2. ChangeTypeOK'
  BY <1>1 DEF MailInv, ChangeTypeOK, PageState
<1>3. ConfirmedOnce' /\ NotYet'
  <2>1. times[asker[a]] = 0
    BY <1>1 DEF MailInv, ChangeInv, MailedBefore
  <2> QED BY <1>1, <2>1 DEF MailInv, ChangeInv, ConfirmedOnce, NotYet
<1>4. PagesKnown'
  BY <1>1 DEF MailInv, ChangeInv, PagesKnown
<1>5. MailedBefore'
  BY <1>1, NoneIsNoChange DEF MailInv, ChangeInv, ChangeTypeOK, MailedBefore
<1> QED BY <1>2, <1>3, <1>4, <1>5 DEF MailInv, ChangeInv

\* Requests that were waiting are over, or nothing but the clock moves.
LEMMA OverHolds ==
  ASSUME MailInv, UNCHANGED <<times, decider, asker>>, late' \subseteq Change,
         change' \in [Change -> ChangeStatus],
         \A r \in Change : change'[r] = change[r] \/ (change[r] = "PENDING" /\ change'[r] = "CANCELLED")
  PROVE  MailInv'
<1>1. ChangeTypeOK'
  BY DEF MailInv, ChangeTypeOK
<1>2. ConfirmedOnce' /\ NotYet'
  BY DEF MailInv, ChangeInv, ConfirmedOnce, NotYet
<1>3. PagesKnown'
  BY DEF MailInv, ChangeInv, PagesKnown
<1>4. MailedBefore'
  BY DEF MailInv, ChangeInv, MailedBefore
<1> QED BY <1>1, <1>2, <1>3, <1>4 DEF MailInv, ChangeInv

LEMMA OpenPageHolds ==
  ASSUME MailInv, NEW d \in Decider, NEW q \in Change, NEW answer \in {"confirm", "reject"}, OpenPage(d, q, answer)
  PROVE  MailInv'
<1>1. /\ UNCHANGED <<change, late, times, asker>> /\ change[q] = "PENDING"
      /\ \A a \in Asker : asker[a] # q
      /\ decider' = [decider EXCEPT ![d] = [of |-> q, answer |-> answer]]
  BY DEF OpenPage, Open
<1>2. decider \in [Decider -> PageState] /\ [of |-> q, answer |-> answer] \in PageState
  BY DEF MailInv, ChangeTypeOK, PageState
<1>3. /\ decider' \in [Decider -> PageState] /\ decider'[d].of = q /\ decider'[d].answer = answer
      /\ \A e \in Decider \ {d} : decider'[e] = decider[e]
  BY <1>1, <1>2
<1>4. ChangeTypeOK' /\ ConfirmedOnce' /\ NotYet'
  BY <1>1, <1>3 DEF MailInv, ChangeInv, ChangeTypeOK, ConfirmedOnce, NotYet, PageState
<1>5. PagesKnown'
  BY <1>1, <1>3 DEF MailInv, ChangeInv, PagesKnown
<1>6. MailedBefore'
  BY <1>1, <1>3 DEF MailInv, ChangeInv, MailedBefore
<1> QED BY <1>4, <1>5, <1>6 DEF MailInv, ChangeInv

LEMMA DecideHolds ==
  ASSUME MailInv, NEW d \in Decider, Confirm(d) \/ Reject(d)
  PROVE  MailInv'
<1> DEFINE q == decider[d].of
<1>1. /\ UNCHANGED <<late, asker>> /\ decider' = [decider EXCEPT ![d] = NoPage]
      /\ decider[d].answer # "none" /\ decider \in [Decider -> PageState]
  BY DEF Confirm, Reject, MailInv, ChangeTypeOK, PageState
<1>2. q \in Change /\ (\A a \in Asker : asker[a] # q) /\ change[q] # "NONE"
  BY <1>1 DEF MailInv, ChangeInv, PagesKnown, MailedBefore
<1>3. \/ /\ change[q] = "PENDING" /\ Become({q}, "CONFIRMED")
         /\ times' = [times EXCEPT ![q] = @ + 1]
      \/ UNCHANGED <<change, times>>
      \/ Become({q}, "REJECTED") /\ UNCHANGED times
  BY DEF Confirm, Reject, Open
<1> HIDE DEF q
<1>4. /\ decider' \in [Decider -> PageState] /\ decider'[d].of = "none" /\ decider'[d].answer = "none"
      /\ \A e \in Decider \ {d} : decider'[e] = decider[e]
  BY <1>1 DEF PageState, NoPage
<1>5. /\ change' \in [Change -> ChangeStatus] /\ times' \in [Change -> Nat]
      /\ \A r \in Change : \/ change'[r] = change[r] /\ times'[r] = times[r]
                           \/ /\ r = q /\ change[r] = "PENDING" /\ change'[r] = "CONFIRMED"
                              /\ times'[r] = times[r] + 1
                           \/ r = q /\ change'[r] = "REJECTED" /\ times'[r] = times[r]
  <2>1. change \in [Change -> ChangeStatus] /\ times \in [Change -> Nat]
    BY DEF MailInv, ChangeTypeOK
  <2>2. CASE /\ change[q] = "PENDING" /\ Become({q}, "CONFIRMED")
             /\ times' = [times EXCEPT ![q] = @ + 1]
    <3>1. /\ change' \in [Change -> ChangeStatus]
          /\ \A r \in Change : change'[r] = IF r = q THEN "CONFIRMED" ELSE change[r]
      BY <2>1, <2>2 DEF ChangeStatus, Become
    <3>2. /\ times' \in [Change -> Nat] /\ times'[q] = times[q] + 1
          /\ \A r \in Change \ {q} : times'[r] = times[r]
      BY <1>2, <2>1, <2>2
    <3> QED BY <2>2, <3>1, <3>2
  <2>3. CASE UNCHANGED <<change, times>>
    BY <2>1, <2>3
  <2>4. CASE Become({q}, "REJECTED") /\ UNCHANGED times
    <3>1. /\ change' \in [Change -> ChangeStatus]
          /\ \A r \in Change : change'[r] = IF r = q THEN "REJECTED" ELSE change[r]
      BY <2>1, <2>4 DEF ChangeStatus, Become
    <3> QED BY <2>1, <2>4, <3>1
  <2> QED BY <1>3, <2>2, <2>3, <2>4
<1>6. ChangeTypeOK'
  BY <1>1, <1>4, <1>5 DEF MailInv, ChangeTypeOK, PageState
<1>7. ConfirmedOnce' /\ NotYet'
  BY <1>5 DEF MailInv, ChangeInv, ConfirmedOnce, NotYet
<1>8. PagesKnown'
  <2>1. \A e \in Decider \ {d} : IF decider[e].answer = "none" THEN decider[e].of = "none"
                                ELSE decider[e].of \in Change /\ change[decider[e].of] # "NONE"
    BY DEF MailInv, ChangeInv, PagesKnown
  <2> QED BY <1>4, <1>5, <2>1 DEF PagesKnown
<1>9. MailedBefore'
  <2>1. ASSUME NEW a \in Asker, NEW r \in Change, asker[a] = r
        PROVE  r # q /\ change[r] # "NONE" /\ times[r] = 0 /\ \A e \in Decider : decider[e].of # r
    BY <1>2, <2>1 DEF MailInv, ChangeInv, MailedBefore
  <2>2. \A r \in Change : r # "none"
    BY NoneIsNoChange
  <2> QED BY <1>1, <1>4, <1>5, <2>1, <2>2 DEF MailedBefore
<1> QED BY <1>6, <1>7, <1>8, <1>9 DEF MailInv, ChangeInv

LEMMA ChangesHold ==
  ASSUME MailInv, ChangeStep \/ UNCHANGED changeVars
  PROVE  MailInv'
<1>1. change \in [Change -> ChangeStatus] /\ late \subseteq Change
  BY DEF MailInv, ChangeTypeOK
<1>2. CASE (\E r \in Change : Lapse(r) \/ Cancel(r)) \/ ChangeWithFactor \/ UNCHANGED changeVars
  <2>1. UNCHANGED <<times, decider, asker>> /\ late' \subseteq Change
    BY <1>1, <1>2 DEF Lapse, Cancel, ChangeWithFactor, changeVars
  <2>2. /\ change' \in [Change -> ChangeStatus]
        /\ \A r \in Change : change'[r] = change[r] \/ (change[r] = "PENDING" /\ change'[r] = "CANCELLED")
    BY <1>1, <1>2 DEF Lapse, Cancel, ChangeWithFactor, changeVars, Pending, ChangeStatus, Become
  <2> QED BY <2>1, <2>2, OverHolds
<1> QED BY <1>2, AskHolds, RecordHolds, MailHolds, OpenPageHolds, DecideHolds DEF ChangeStep, ResetPassword
-----------------------------------------------------------------------------
(* The attempts of a challenge *)

CodeInv == MfaTypeOK /\ AttemptInv

TryState == [stage : {"idle", "checking", "right", "spent", "wrong"},
             code : {"none", "totp", "guess"} \cup RecoveryCode, at : 0 .. MaxStep]

LEMMA CountsAreNat ==
  /\ Cardinality(Try) \in Nat
  /\ \A stage : IsFiniteSet(At(stage)) /\ Cardinality(At(stage)) \in Nat
<1>1. \A stage : IsFiniteSet(At(stage))
  BY TriesAreFinite, FS_Subset DEF At
<1> QED BY <1>1, TriesAreFinite, FS_CardinalityType

LEMMA AnswersFit ==
  ASSUME NEW f \in [Try -> TryState]
  PROVE  Cardinality({t \in Try : f[t].stage = "checking"}) + Cardinality({t \in Try : f[t].stage = "wrong"})
           <= Cardinality(Try)
<1> DEFINE A == {t \in Try : f[t].stage = "checking"}
           B == {t \in Try : f[t].stage = "wrong"}
<1>1. A \cap B = {} /\ A \subseteq Try /\ B \subseteq Try /\ A \cup B \subseteq Try
  OBVIOUS
<1> HIDE DEF A, B
<1>2. /\ IsFiniteSet(A) /\ IsFiniteSet(B) /\ Cardinality(A) \in Nat /\ Cardinality(B) \in Nat
      /\ Cardinality(A \cap B) = 0
  BY <1>1, TriesAreFinite, FS_Subset, FS_CardinalityType, FS_EmptySet
<1>3. Cardinality(A \cup B) = Cardinality(A) + Cardinality(B) - Cardinality(A \cap B)
  BY <1>2, FS_Union
<1>4. Cardinality(A \cup B) <= Cardinality(Try)
  BY <1>1, TriesAreFinite, FS_Subset
<1>5. Cardinality(A) + Cardinality(B) <= Cardinality(Try)
  BY <1>2, <1>3, <1>4
<1> QED BY <1>5 DEF A, B

\* What an answer that moves from one stage to another does to their counts.
LEMMA Moved ==
  ASSUME try \in [Try -> TryState], NEW t \in Try, NEW to, try' = [try EXCEPT ![t] = to], NEW stage
  PROVE  /\ to.stage = stage /\ try[t].stage # stage => Cardinality(At(stage))' = Cardinality(At(stage)) + 1
         /\ to.stage # stage /\ try[t].stage = stage => Cardinality(At(stage))' = Cardinality(At(stage)) - 1
         /\ (to.stage = stage <=> try[t].stage = stage) => Cardinality(At(stage))' = Cardinality(At(stage))
<1> DEFINE A == At(stage)
           B == At(stage)'
<1>1. \A u \in Try : try'[u] = IF u = t THEN to ELSE try[u]
  OBVIOUS
<1>2. IsFiniteSet(A) /\ (t \in A <=> try[t].stage = stage)
  BY TriesAreFinite, FS_Subset DEF At
<1>3. \/ to.stage = stage /\ try[t].stage # stage /\ B = A \cup {t}
      \/ to.stage # stage /\ try[t].stage = stage /\ B = A \ {t}
      \/ (to.stage = stage <=> try[t].stage = stage) /\ B = A
  <2>1. CASE to.stage = stage /\ try[t].stage # stage
    BY <1>1, <2>1 DEF At
  <2>2. CASE to.stage # stage /\ try[t].stage = stage
    BY <1>1, <2>2 DEF At
  <2>3. CASE to.stage = stage <=> try[t].stage = stage
    BY <1>1, <2>3 DEF At
  <2> QED BY <2>1, <2>2, <2>3
<1> HIDE DEF A, B
<1>4. /\ to.stage = stage /\ try[t].stage # stage => Cardinality(B) = Cardinality(A) + 1
      /\ to.stage # stage /\ try[t].stage = stage => Cardinality(B) = Cardinality(A) - 1
      /\ (to.stage = stage <=> try[t].stage = stage) => Cardinality(B) = Cardinality(A)
  BY <1>2, <1>3, FS_AddElement, FS_RemoveElement
<1> QED BY <1>4 DEF A, B

LEMMA MfaInitHolds == MfaInit => CodeInv
<1> SUFFICES ASSUME MfaInit PROVE CodeInv
  OBVIOUS
<1>1. MfaTypeOK
  BY AttemptsAreNat DEF MfaInit, MfaTypeOK, NoTry
<1>2. At("checking") = {} /\ At("wrong") = {} /\ try = [t \in Try |-> NoTry]
  BY DEF MfaInit, At, NoTry
<1>3. /\ wrong = 0 /\ challenge.state = "none" /\ challenge.attempts = 0
      /\ Cardinality(At("checking")) = 0 /\ Cardinality(At("wrong")) = 0
  BY <1>2, FS_EmptySet DEF MfaInit
<1>4. 0 <= MaxAttempts + Cardinality(Try) - 1
  BY AttemptsAreNat, CountsAreNat
<1>5. AttemptInv
  BY <1>2, <1>3, <1>4 DEF AttemptInv
<1> QED BY <1>1, <1>5 DEF CodeInv

\* While no answer moves, the challenge may only end, or begin.
LEMMA ChallengeHolds ==
  ASSUME CodeInv, MfaTypeOK', UNCHANGED <<try, wrong>>,
         \/ challenge' = challenge
         \/ challenge'.state = "gone"
         \/ challenge'.state \notin {"none", "gone"} /\ challenge'.attempts = challenge.attempts
            /\ challenge.state # "gone"
  PROVE  CodeInv'
<1>1. At("checking")' = At("checking") /\ At("wrong")' = At("wrong")
  BY DEF At
<1>2. Cardinality(At("checking")') = Cardinality(At("checking")) /\ Cardinality(At("wrong")') = Cardinality(At("wrong"))
  BY <1>1
<1>3. AttemptInv'
  BY <1>2 DEF CodeInv, AttemptInv
<1> QED BY <1>3 DEF CodeInv

LEMMA CodesHold ==
  ASSUME CodeInv, MfaStep \/ UNCHANGED mfaVars
  PROVE  CodeInv'
<1> DEFINE checking == Cardinality(At("checking"))
           failed == Cardinality(At("wrong"))
           tries == Cardinality(Try)
<1>1. /\ try \in [Try -> TryState] /\ wrong \in Nat /\ challenge.attempts \in Nat
      /\ challenge = [state |-> challenge.state, attempts |-> challenge.attempts]
      /\ checking \in Nat /\ failed \in Nat /\ tries \in Nat /\ checking + failed <= tries
  <2>1. /\ try \in [Try -> TryState] /\ wrong \in Nat /\ challenge.attempts \in Nat
        /\ challenge = [state |-> challenge.state, attempts |-> challenge.attempts]
    BY DEF CodeInv, MfaTypeOK, TryState
  <2> QED BY <2>1, CountsAreNat, AnswersFit DEF At
<1>2. /\ wrong + checking <= MaxAttempts + tries - 1
      /\ challenge.state # "gone" => wrong = challenge.attempts + failed
      /\ challenge.state = "none" => wrong = 0 /\ \A t \in Try : try[t] = NoTry
  BY DEF CodeInv, AttemptInv
<1>3. MfaTypeOK'
  <2>1. CASE \/ NextPeriod \/ BeginSetup \/ ConfirmSetup \/ RegenerateRecoveryCodes \/ Disable
             \/ CreateChallenge \/ ExpireChallenge \/ UNCHANGED mfaVars
    BY <2>1, AttemptsAreNat DEF CodeInv, MfaTypeOK, mfaVars, NextPeriod, BeginSetup, ConfirmSetup,
       RegenerateRecoveryCodes, Disable, CreateChallenge, ExpireChallenge
  <2>2. ASSUME NEW t \in Try, Check(t) \/ Spend(t) PROVE MfaTypeOK'
    BY <2>2 DEF CodeInv, MfaTypeOK, Check, Spend, Judge
  <2>4. ASSUME NEW t \in Try, Fail(t) \/ Pass(t) PROVE MfaTypeOK'
    <3>1. NoTry \in TryState
      BY AttemptsAreNat DEF NoTry, TryState
    <3>2. try' = [try EXCEPT ![t] = NoTry]
      BY <2>4 DEF Fail, Pass
    <3>3. try' \in [Try -> TryState]
      BY <1>1, <3>1, <3>2
    <3>4. challenge' \in [state : {"none", "open", "used", "expired", "gone"}, attempts : Nat]
      BY <2>4 DEF CodeInv, MfaTypeOK, Fail, Pass
    <3> QED BY <2>4, <3>3, <3>4 DEF CodeInv, MfaTypeOK, TryState, Fail, Pass
  <2>3. ASSUME NEW t \in Try, NEW offered \in {"totp", "guess"} \cup RecoveryCode, AnswerChallenge(t, offered)
        PROVE  MfaTypeOK'
    BY <2>3, AttemptsAreNat DEF CodeInv, MfaTypeOK, AnswerChallenge
  <2> QED BY <2>1, <2>2, <2>3, <2>4 DEF MfaStep
<1> HIDE DEF checking, failed, tries
<1>4. CASE \/ NextPeriod \/ BeginSetup \/ ConfirmSetup \/ RegenerateRecoveryCodes \/ Disable
           \/ CreateChallenge \/ ExpireChallenge \/ UNCHANGED mfaVars
  <2>1. CASE CreateChallenge
    <3>1. /\ UNCHANGED <<try, wrong>> /\ challenge' = [state |-> "open", attempts |-> 0]
          /\ challenge.state = "none"
      BY <2>1 DEF CreateChallenge
    <3>2. challenge.attempts = 0
      BY <1>1, <1>2, <3>1
    <3> QED BY <1>3, <3>1, <3>2, ChallengeHolds
  <2>2. CASE ~CreateChallenge
    BY <1>1, <1>3, <1>4, <2>2, ChallengeHolds DEF NextPeriod, BeginSetup, ConfirmSetup,
       RegenerateRecoveryCodes, Disable, ExpireChallenge, mfaVars
  <2> QED BY <2>1, <2>2
<1>5. ASSUME NEW t \in Try, NEW offered \in {"totp", "guess"} \cup RecoveryCode, AnswerChallenge(t, offered)
      PROVE  CodeInv'
  <2> DEFINE to == [stage |-> "checking", code |-> offered, at |-> step]
  <2>1. /\ try[t].stage = "idle" /\ try' = [try EXCEPT ![t] = to] /\ UNCHANGED <<challenge, wrong>>
        /\ challenge.state = "open" /\ challenge.attempts < MaxAttempts
    BY <1>5 DEF AnswerChallenge, NoTry
  <2>2. to.stage = "checking"
    OBVIOUS
  <2> HIDE DEF to
  <2>3. Cardinality(At("checking")') = checking + 1 /\ Cardinality(At("wrong")') = failed
    BY <1>1, <2>1, <2>2, Moved DEF checking, failed
  <2>4. Cardinality(At("checking")') + Cardinality(At("wrong")') <= tries
    <3>1. try' \in [Try -> TryState]
      BY <1>3 DEF MfaTypeOK, TryState
    <3> QED BY <3>1, AnswersFit DEF At, tries
  <2>5. wrong + checking + 1 <= MaxAttempts + tries - 1
    BY <1>1, <1>2, <2>1, <2>3, <2>4, AttemptsAreNat
  <2> QED BY <1>1, <1>2, <1>3, <2>1, <2>3, <2>5 DEF CodeInv, AttemptInv, tries
<1>6. ASSUME NEW t \in Try, Check(t) PROVE CodeInv'
  <2>1. PICK verdict \in {"right", "wrong"} :
          /\ try' = [try EXCEPT ![t] = [try[t] EXCEPT !.stage = verdict]] /\ UNCHANGED challenge
          /\ try[t].stage = "checking" /\ wrong' = IF verdict = "wrong" THEN wrong + 1 ELSE wrong
    BY <1>6 DEF Check, Judge
  <2> DEFINE to == [try[t] EXCEPT !.stage = verdict]
  <2>2. to.stage = verdict /\ try' = [try EXCEPT ![t] = to]
    BY <1>1, <2>1 DEF TryState
  <2> HIDE DEF to
  <2>3. /\ Cardinality(At("checking")') = checking - 1
        /\ Cardinality(At("wrong")') = IF verdict = "wrong" THEN failed + 1 ELSE failed
    <3>1. try[t].stage = "checking" /\ try \in [Try -> TryState]
      BY <1>1, <2>1
    <3>2. Cardinality(At("checking")') = checking - 1
      <4>1. to.stage # "checking" /\ try' = [try EXCEPT ![t] = to]
        BY <2>1, <2>2
      <4> HIDE <2>1, <2>2
      <4> QED BY <3>1, <4>1, Moved DEF checking
    <3>3. Cardinality(At("wrong")') = IF verdict = "wrong" THEN failed + 1 ELSE failed
      BY <2>2, <3>1, Moved DEF failed
    <3> QED BY <3>2, <3>3
  <2>4. challenge.state # "none"
    BY <1>2, <2>1 DEF NoTry
  <2> QED BY <1>1, <1>2, <1>3, <2>1, <2>3, <2>4, AttemptsAreNat DEF CodeInv, AttemptInv, tries
<1>7. ASSUME NEW t \in Try, Spend(t) PROVE CodeInv'
  <2>1. /\ try' = [try EXCEPT ![t] = [try[t] EXCEPT !.stage = "spent"]] /\ UNCHANGED <<challenge, wrong>>
        /\ try[t].stage = "right"
    BY <1>7 DEF Spend, Judge
  <2> DEFINE to == [try[t] EXCEPT !.stage = "spent"]
  <2>2. to.stage = "spent" /\ try' = [try EXCEPT ![t] = to]
    BY <1>1, <2>1 DEF TryState
  <2> HIDE DEF to
  <2>3. Cardinality(At("checking")') = checking /\ Cardinality(At("wrong")') = failed
    <3>1. try[t].stage = "right" /\ try \in [Try -> TryState]
      BY <1>1, <2>1
    <3>2. Cardinality(At("checking")') = checking
      BY <2>2, <3>1, Moved DEF checking
    <3>3. Cardinality(At("wrong")') = failed
      BY <2>2, <3>1, Moved DEF failed
    <3> QED BY <3>2, <3>3
  <2>4. challenge.state # "none"
    BY <1>2, <2>1 DEF NoTry
  <2> QED BY <1>1, <1>2, <1>3, <2>1, <2>3, <2>4 DEF CodeInv, AttemptInv, tries
<1>8. ASSUME NEW t \in Try, Fail(t) \/ Pass(t) PROVE CodeInv'
  <2>1. /\ try' = [try EXCEPT ![t] = NoTry] /\ UNCHANGED wrong /\ NoTry.stage = "idle"
        /\ try[t].stage \in {"wrong", "spent"}
        /\ IF challenge.state = "gone" THEN challenge' = challenge
           ELSE IF try[t].stage = "wrong" THEN challenge' = [challenge EXCEPT !.attempts = @ + 1]
           ELSE challenge' = [challenge EXCEPT !.state = "used"]
    BY <1>8 DEF Fail, Pass, NoTry
  <2>2. /\ Cardinality(At("checking")') = checking
        /\ Cardinality(At("wrong")') = IF try[t].stage = "wrong" THEN failed - 1 ELSE failed
    <3>1. try[t].stage \in {"wrong", "spent"} /\ try \in [Try -> TryState]
      BY <1>1, <2>1
    <3>2. try' = [try EXCEPT ![t] = NoTry] /\ NoTry.stage = "idle"
      BY <2>1
    <3>3. Cardinality(At("checking")') = checking
      BY <3>1, <3>2, Moved DEF checking
    <3>4. Cardinality(At("wrong")') = IF try[t].stage = "wrong" THEN failed - 1 ELSE failed
      <4>1. CASE try[t].stage = "wrong"
        BY <3>1, <3>2, <4>1, Moved DEF failed
      <4>2. CASE try[t].stage = "spent"
        BY <3>1, <3>2, <4>2, Moved DEF failed
      <4> QED BY <3>1, <4>1, <4>2
    <3> QED BY <3>3, <3>4
  <2>3. challenge.state # "none"
    BY <1>2, <2>1 DEF NoTry
  <2>4. /\ challenge'.state # "none"
        /\ challenge.state = "gone" => challenge'.state = "gone"
        /\ challenge.state # "gone" =>
             challenge'.attempts = challenge.attempts + (IF try[t].stage = "wrong" THEN 1 ELSE 0)
    BY <1>1, <2>1, <2>3
  <2>5. challenge'.state # "gone" => wrong' = challenge'.attempts + Cardinality(At("wrong")')
    BY <1>1, <1>2, <2>1, <2>2, <2>4
  <2> QED BY <1>1, <1>2, <1>3, <2>1, <2>2, <2>4, <2>5 DEF CodeInv, AttemptInv, tries
<1> QED BY <1>4, <1>5, <1>6, <1>7, <1>8 DEF MfaStep

-----------------------------------------------------------------------------
(* The account *)

\* Every reachable state keeps the invariant of sessions, changes and attempts.
THEOREM AccountInvariance == Spec => []AccountInv
<1> DEFINE Inv == SessionsInv /\ MailInv /\ CodeInv /\ scene \in {"tabs", "mail", "codes"}
<1>1. Init => Inv
  BY SessionsInitHolds, ChangeInitHolds, MfaInitHolds DEF Init
<1>2. Inv /\ [Next]_vars => Inv'
  <2> SUFFICES ASSUME Inv, [Next]_vars PROVE Inv'
    OBVIOUS
  <2>1. scene' \in {"tabs", "mail", "codes"}
    BY DEF Next, vars
  <2>2. SessionsInv'
    <3>1. CASE scene = "mail" /\ ChangeStep
      <4>1. \/ UNCHANGED sessionVars
            \/ BumpVersion
            \/ UNCHANGED <<clock, tokenVars, cookie, call, everywhere>> /\ Bump
        BY <3>1 DEF ChangeStep, Ask, Mail, Record, Lapse, Cancel, Confirm, Reject, OpenPage, ChangeWithFactor,
           ResetPassword, sessionVars
      <4> QED BY <4>1, EndingHolds
    <3>2. CASE UNCHANGED sessionVars
      BY <3>2, EndingHolds
    <3> QED BY <3>1, <3>2, TabsHold DEF Next, vars
  <2>3. MailInv'
    BY ChangesHold DEF Next, vars
  <2>4. CodeInv'
    BY CodesHold DEF Next, vars
  <2> QED BY <2>1, <2>2, <2>3, <2>4
<1>3. Inv => AccountInv
  BY DEF SessionsInv, MailInv, CodeInv, AccountInv, TypeOK
<1> QED BY <1>1, <1>2, <1>3, PTL DEF Spec

\* A session that is over has no token left that a refresh can begin with: all of them
\* are revoked, or it was stored while all were being ended, with a version that is over.
THEOREM EndedStaysEnded == Spec => []EndedFamily
<1>1. AccountInv => EndedFamily
  BY DEF AccountInv, RotationInv
<1> QED BY <1>1, AccountInvariance, PTL

\* The rotations of a session never fork.
THEOREM RotationsInLine == Spec => []OneHead
<1>1. AccountInv => OneHead
  BY DEF AccountInv, RotationInv
<1> QED BY <1>1, AccountInvariance, PTL

\* A mailed change takes effect once, and never after it was cancelled or lapsed.
THEOREM ChangedOnce == Spec => []ConfirmedOnce
<1>1. AccountInv => ConfirmedOnce
  BY DEF AccountInv, ChangeInv
<1> QED BY <1>1, AccountInvariance, PTL

\* A challenge (verifyChallenge) stands as many wrong answers as its limit and, beyond
\* it, one for each other request that may be checked at the same moment.
THEOREM GuessesBounded == Spec => []AttemptsBounded
<1>1. AccountInv => AttemptsBounded
  <2> SUFFICES ASSUME AccountInv PROVE AttemptsBounded
    OBVIOUS
  <2>1. /\ wrong + Cardinality(At("checking")) <= MaxAttempts + Cardinality(Try) - 1 /\ wrong \in Nat
        /\ Cardinality(At("checking")) \in Nat /\ Cardinality(Try) \in Nat
    BY CountsAreNat DEF AccountInv, AttemptInv, TypeOK, MfaTypeOK
  <2> QED BY <2>1, AttemptsAreNat DEF AttemptsBounded
<1> QED BY <1>1, AccountInvariance, PTL

-----------------------------------------------------------------------------
(* The account in the Laravel backend *)

\* What a request sees of a user, and writes into its own row.
LEMMA UserRows ==
  ASSUME user \in Laravel!UserRow
  PROVE  /\ user.version \in Nat /\ user.password \in Nat
         /\ Laravel!SeenOf(user) \in Laravel!Seen
         /\ Laravel!SeenOf(user).version = user.version /\ Laravel!SeenOf(user).password = user.password
BY DEF Laravel!UserRow, Laravel!SeenOf, Laravel!Seen

\* Rows of requests and sessions that are not there.
LEMMA NobodyIsTyped ==
  /\ Laravel!NoCaller \in Laravel!CallerRow /\ Laravel!NoCaller.at = "IDLE"
  /\ Laravel!NoSession \in Laravel!SessionRow /\ Laravel!NoSession.status = "NONE"
BY DEF Laravel!NoCaller, Laravel!CallerRow, Laravel!Seen, Laravel!NoSession, Laravel!SessionRow

\* A new account has no session and nobody at work.
LEMMA LaravelStarts == Laravel!AccountsInit => Laravel!AccountsInv
<1> SUFFICES ASSUME Laravel!AccountsInit PROVE Laravel!AccountsInv
  OBVIOUS
<1>1. Laravel!AccountsTypeOK
  BY NobodyIsTyped DEF Laravel!AccountsInit, Laravel!AccountsTypeOK, Laravel!UserRow, Laravel!NewUser, Laravel!Purpose
<1>2. Laravel!SeenRight
  BY NobodyIsTyped DEF Laravel!AccountsInit, Laravel!SeenRight, Laravel!Live, Laravel!At
<1> QED BY <1>1, <1>2 DEF Laravel!AccountsInv

\* What a request can write about itself: the others stay, and one that signs in has
\* seen the user as it was or is.
Acts ==
  /\ caller' \in [Caller -> Laravel!CallerRow]
  /\ \A c \in Caller : caller'[c].at = "SIGNING" =>
       caller'[c] = caller[c] \/ Laravel!WasOrIs(caller'[c].seen.version, caller'[c].seen.password)

\* Each way to write that row is one of them.
LEMMA RowActs ==
  ASSUME Laravel!AccountsTypeOK, NEW c \in Caller, NEW new \in Laravel!CallerRow,
         caller' = [caller EXCEPT ![c] = new],
         new.at = "SIGNING" => Laravel!WasOrIs(new.seen.version, new.seen.password)
  PROVE  Acts
BY DEF Acts, Laravel!AccountsTypeOK

LEMMA LookActs ==
  ASSUME Laravel!AccountsTypeOK, NEW c \in Caller, NEW stage, NEW of, Laravel!Look(c, stage, of),
         stage \in {"SIGNING", "PROVING", "REPLACING"}, of \in {"NONE", "RESET", "CHANGE"}
  PROVE  Acts
<1> DEFINE new == [at |-> stage, of |-> of, seen |-> Laravel!SeenOf(user), ids |-> {}]
<1>1. user \in Laravel!UserRow
  BY DEF Laravel!AccountsTypeOK
<1>2. new \in Laravel!CallerRow /\ new.seen = Laravel!SeenOf(user)
  BY <1>1, UserRows DEF Laravel!CallerRow
<1>3. caller' = [caller EXCEPT ![c] = new]
  BY DEF Laravel!Look
<1> HIDE DEF new
<1>4. Laravel!WasOrIs(new.seen.version, new.seen.password)
  BY <1>1, <1>2, UserRows DEF Laravel!WasOrIs
<1> QED BY <1>2, <1>3, <1>4, RowActs

LEMMA SeesActs ==
  ASSUME Laravel!AccountsTypeOK, NEW c \in Caller,
         caller' = [caller EXCEPT ![c].at = "SIGNING", ![c].seen = Laravel!SeenOf(user)]
  PROVE  Acts
<1> DEFINE new == [caller[c] EXCEPT !.at = "SIGNING", !.seen = Laravel!SeenOf(user)]
<1>1. user \in Laravel!UserRow /\ caller[c] \in Laravel!CallerRow
  BY DEF Laravel!AccountsTypeOK
<1>2. new \in Laravel!CallerRow /\ new.seen = Laravel!SeenOf(user)
  BY <1>1, UserRows DEF Laravel!CallerRow
<1>3. caller' = [caller EXCEPT ![c] = new]
  BY <1>1 DEF Laravel!AccountsTypeOK, Laravel!CallerRow
<1> HIDE DEF new
<1>4. Laravel!WasOrIs(new.seen.version, new.seen.password)
  BY <1>1, <1>2, UserRows DEF Laravel!WasOrIs
<1> QED BY <1>2, <1>3, <1>4, RowActs

LEMMA BeginActs ==
  ASSUME Laravel!AccountsTypeOK, NEW c \in Caller, NEW stage, NEW of, Laravel!Begin(c, stage, of),
         stage \in {"VERIFYING", "ASKING", "DECIDING"}, of \in {"NONE", "CHANGE"} \cup Letter
  PROVE  Acts
<1> DEFINE new == [Laravel!NoCaller EXCEPT !.at = stage, !.of = of]
<1>1. new \in Laravel!CallerRow /\ new.at = stage
  BY DEF Laravel!NoCaller, Laravel!CallerRow, Laravel!Seen
<1>2. caller' = [caller EXCEPT ![c] = new]
  BY DEF Laravel!Begin
<1> HIDE DEF new
<1> QED BY <1>1, <1>2, RowActs

LEMMA VersionActs ==
  ASSUME Laravel!AccountsTypeOK, NEW c \in Caller, NEW stage, NEW of, Laravel!LookAtVersion(c, stage, of),
         stage \in {"PROVING", "REPLACING"}, of \in {"RESET", "CHANGE"}
  PROVE  Acts
<1> DEFINE new == [Laravel!NoCaller EXCEPT !.at = stage, !.of = of, !.seen.version = user.version]
<1>1. user.version \in Nat
  BY DEF Laravel!AccountsTypeOK, Laravel!UserRow
<1>2. new \in Laravel!CallerRow /\ new.at = stage
  BY <1>1 DEF Laravel!NoCaller, Laravel!CallerRow, Laravel!Seen
<1>3. caller' = [caller EXCEPT ![c] = new]
  BY DEF Laravel!LookAtVersion
<1> HIDE DEF new
<1> QED BY <1>2, <1>3, RowActs

LEMMA GotoActs ==
  ASSUME Laravel!AccountsTypeOK, NEW c \in Caller, NEW stage, Laravel!Goto(c, stage),
         stage \in {"SPENDING", "REPLACING", "CANCELLING"}
  PROVE  Acts
<1> DEFINE new == [caller[c] EXCEPT !.at = stage]
<1>1. new \in Laravel!CallerRow /\ new.at = stage
  BY DEF Laravel!AccountsTypeOK, Laravel!CallerRow
<1>2. caller' = [caller EXCEPT ![c] = new]
  BY DEF Laravel!Goto
<1> HIDE DEF new
<1> QED BY <1>1, <1>2, RowActs

LEMMA IdsActs ==
  ASSUME Laravel!AccountsTypeOK, NEW c \in Caller, NEW stage \in {"ENDING", "PLUCKED"},
         caller' = [caller EXCEPT ![c].at = stage, ![c].ids = Laravel!Live]
  PROVE  Acts
<1> DEFINE new == [caller[c] EXCEPT !.at = stage, !.ids = Laravel!Live]
<1>1. new \in Laravel!CallerRow /\ new.at = stage
  BY DEF Laravel!AccountsTypeOK, Laravel!CallerRow, Laravel!Live
<1>2. caller' = [caller EXCEPT ![c] = new]
  BY DEF Laravel!AccountsTypeOK, Laravel!CallerRow
<1> HIDE DEF new
<1> QED BY <1>1, <1>2, RowActs

LEMMA ReturnActs == ASSUME Laravel!AccountsTypeOK, NEW c \in Caller, Laravel!Return(c) PROVE Acts
BY NobodyIsTyped, RowActs DEF Laravel!Return

LEMMA StayActs == ASSUME Laravel!AccountsTypeOK, UNCHANGED caller PROVE Acts
BY DEF Acts, Laravel!AccountsTypeOK

\* What can happen to the sessions, to the user and to the other rows.
Others ==
  /\ code' \subseteq Laravel!Purpose /\ factors' \subseteq {"RECOVERY_CODE", "CHALLENGE"}
  /\ mails' \in [Letter -> {"NONE", "PENDING", "CLOSED"}]

Rotates ==
  /\ authSession' \in [AuthSession -> Laravel!SessionRow]
  /\ \A s \in AuthSession : authSession'[s].status = "LIVE" =>
       \/ /\ authSession[s].status = "LIVE"
          /\ authSession'[s].version = authSession[s].version /\ authSession'[s].under = authSession[s].under
       \/ \E c \in Caller : /\ caller[c].at = "SIGNING"
                            /\ authSession'[s].version = caller[c].seen.version
                            /\ authSession'[s].under = caller[c].seen.password

\* A new password comes with a new version, or all it had not seen is counted over.
Counts ==
  /\ user' \in Laravel!UserRow /\ user'.password >= user.password
  /\ overtaken' \subseteq Nat \X Nat /\ overtaken \subseteq overtaken'
  /\ \/ user'.version = user.version /\ user'.password = user.password
     \/ user'.version = user.version + 1
     \/ \A v \in user'.version .. user.version, p \in 0 .. user.password : <<v, p>> \in overtaken'

\* Revoking leaves the sessions that stay as they were.
LEMMA RevokeRotates ==
  ASSUME Laravel!AccountsTypeOK, NEW ids, Laravel!Revoke(ids)
  PROVE  Rotates
<1> DEFINE ended == [Laravel!NoSession EXCEPT !.status = "REVOKED"]
<1>1. ended \in Laravel!SessionRow /\ ended.status = "REVOKED"
  BY DEF Laravel!NoSession, Laravel!SessionRow
<1>2. authSession' = [s \in AuthSession |-> IF s \in ids \cap Laravel!Live THEN ended ELSE authSession[s]]
  BY DEF Laravel!Revoke
<1> HIDE DEF ended
<1> QED BY <1>1, <1>2 DEF Rotates, Laravel!AccountsTypeOK

LEMMA StayRotates == ASSUME Laravel!AccountsTypeOK, UNCHANGED authSession PROVE Rotates
BY DEF Rotates, Laravel!AccountsTypeOK

LEMMA StayCounts == ASSUME Laravel!AccountsTypeOK, UNCHANGED <<user, overtaken>> PROVE Counts
BY DEF Counts, Laravel!AccountsTypeOK, Laravel!UserRow

\* The argument: who has seen the user as it was sees it so when it has changed.
LEMMA SeenStaysRight ==
  ASSUME Laravel!AccountsInv, Acts, Rotates, Counts, Others
  PROVE  Laravel!AccountsInv'
<1> DEFINE Was(v, p) == /\ p <= user'.password
                        /\ \/ <<v, p>> \in overtaken'
                           \/ v <= user'.version /\ (v = user'.version => p = user'.password)
<1>1. Laravel!AccountsTypeOK /\ Laravel!AccountsTypeOK'
  BY DEF Laravel!AccountsInv, Laravel!AccountsTypeOK, Acts, Rotates, Counts, Others
<1>2. Laravel!SeenRight /\ user \in Laravel!UserRow /\ user' \in Laravel!UserRow
  BY <1>1 DEF Laravel!AccountsInv, Laravel!AccountsTypeOK
<1>3. ASSUME NEW v \in Nat, NEW p \in Nat, Laravel!WasOrIs(v, p)
      PROVE  Was(v, p)
  <2>1. /\ user.version \in Nat /\ user.password \in Nat /\ user'.version \in Nat /\ user'.password \in Nat
        /\ user'.password >= user.password /\ overtaken \subseteq overtaken'
    BY <1>2 DEF Laravel!UserRow, Counts
  <2>2. p <= user.password /\ p <= user'.password
    BY <1>3, <2>1 DEF Laravel!WasOrIs
  <2>3. CASE <<v, p>> \in overtaken
    BY <2>1, <2>2, <2>3
  <2>4. CASE v <= user.version /\ (v = user.version => p = user.password)
    <3>1. CASE user'.version = user.version /\ user'.password = user.password
      BY <2>2, <2>4, <3>1
    <3>2. CASE user'.version = user.version + 1
      BY <2>1, <2>2, <2>4, <3>2
    <3>3. CASE \A w \in user'.version .. user.version, q \in 0 .. user.password : <<w, q>> \in overtaken'
      <4>1. CASE v < user'.version
        BY <2>1, <2>2, <4>1
      <4>2. CASE v >= user'.version
        <5>1. v \in user'.version .. user.version /\ p \in 0 .. user.password
          BY <2>1, <2>2, <2>4, <4>2
        <5> QED BY <2>2, <3>3, <5>1
      <4> QED BY <2>1, <4>1, <4>2
    <3> QED BY <3>1, <3>2, <3>3 DEF Counts
  <2> QED BY <1>3, <2>3, <2>4 DEF Laravel!WasOrIs
<1> HIDE DEF Was
<1>4. /\ \A c \in Caller : caller[c].seen.version \in Nat /\ caller[c].seen.password \in Nat
                           /\ caller'[c].seen.version \in Nat /\ caller'[c].seen.password \in Nat
      /\ \A s \in AuthSession : authSession[s].version \in Nat /\ authSession[s].under \in Nat
  BY <1>1 DEF Laravel!AccountsTypeOK, Laravel!CallerRow, Laravel!Seen, Laravel!SessionRow
<1>5. ASSUME NEW s \in AuthSession, authSession'[s].status = "LIVE"
      PROVE  Was(authSession'[s].version, authSession'[s].under)
  <2>1. CASE /\ authSession[s].status = "LIVE"
             /\ authSession'[s].version = authSession[s].version /\ authSession'[s].under = authSession[s].under
    <3>1. Laravel!WasOrIs(authSession[s].version, authSession[s].under)
      BY <1>2, <2>1 DEF Laravel!SeenRight, Laravel!Live
    <3> QED BY <1>3, <1>4, <2>1, <3>1
  <2>2. ASSUME NEW c \in Caller, caller[c].at = "SIGNING", authSession'[s].version = caller[c].seen.version,
               authSession'[s].under = caller[c].seen.password
        PROVE  Was(authSession'[s].version, authSession'[s].under)
    <3>1. Laravel!WasOrIs(caller[c].seen.version, caller[c].seen.password)
      BY <1>2, <2>2 DEF Laravel!SeenRight, Laravel!At
    <3> QED BY <1>3, <1>4, <2>2, <3>1
  <2> QED BY <1>5, <2>1, <2>2 DEF Rotates
<1>6. ASSUME NEW c \in Caller, caller'[c].at = "SIGNING"
      PROVE  Was(caller'[c].seen.version, caller'[c].seen.password)
  <2>1. CASE caller'[c] = caller[c]
    <3>1. Laravel!WasOrIs(caller[c].seen.version, caller[c].seen.password)
      BY <1>2, <1>6, <2>1 DEF Laravel!SeenRight, Laravel!At
    <3> QED BY <1>3, <1>4, <2>1, <3>1
  <2>2. CASE Laravel!WasOrIs(caller'[c].seen.version, caller'[c].seen.password)
    BY <1>3, <1>4, <2>2
  <2> QED BY <1>6, <2>1, <2>2 DEF Acts
<1>7. Laravel!SeenRight'
  BY <1>5, <1>6 DEF Was, Laravel!SeenRight, Laravel!Live, Laravel!At, Laravel!WasOrIs
<1> QED BY <1>1, <1>7 DEF Laravel!AccountsInv

\* Most steps leave the mails, the codes and the factors alone.
LEMMA StayOthers == ASSUME Laravel!AccountsTypeOK, UNCHANGED <<mails, code, factors>> PROVE Others
BY DEF Others, Laravel!AccountsTypeOK

\* The types of the rows, opened.
LEMMA TypedRows ==
  Laravel!AccountsTypeOK =>
    /\ user \in Laravel!UserRow /\ code \subseteq Laravel!Purpose /\ overtaken \subseteq Nat \X Nat
    /\ mails \in [Letter -> {"NONE", "PENDING", "CLOSED"}]
    /\ factors \subseteq {"RECOVERY_CODE", "CHALLENGE"}
    /\ \A c \in Caller : caller[c] \in Laravel!CallerRow
    /\ \A s \in AuthSession : authSession[s] \in Laravel!SessionRow
BY DEF Laravel!AccountsTypeOK

\* The user with a new password.
LEMMA Renewed ==
  ASSUME user \in Laravel!UserRow, NEW v \in Nat,
         user' = [user EXCEPT !.version = v + 1, !.password = @ + 1]
  PROVE  user' \in Laravel!UserRow /\ user'.version = v + 1 /\ user'.password = user.password + 1
<1> DEFINE w == v + 1
           p == user.password + 1
<1>1. w \in Nat /\ p \in Nat
  BY DEF Laravel!UserRow
<1>2. user' = [user EXCEPT !.version = w, !.password = p]
  BY DEF Laravel!UserRow
<1> HIDE DEF w, p
<1>3. user' \in Laravel!UserRow /\ user'.version = w /\ user'.password = p
  BY <1>1, <1>2 DEF Laravel!UserRow
<1> QED BY <1>3 DEF w, p

\* Signing in, with codes, with the password or with Google.
LEMMA SignInSteps ==
  ASSUME Laravel!AccountsInv, NEW c \in Caller,
         \/ Laravel!CheckEmailCode(c) \/ Laravel!VerifyEmail(c) \/ Laravel!LogIn(c) \/ Laravel!SocialLogin(c)
         \/ Laravel!VerifyChallenge(c) \/ \E s \in AuthSession : Laravel!OpenSession(c, s)
  PROVE  Laravel!AccountsInv'
<1>0. Laravel!AccountsTypeOK
  BY DEF Laravel!AccountsInv
<1>1. CASE Laravel!CheckEmailCode(c)
  <2>1. Acts
    BY <1>0, <1>1, LookActs, BeginActs DEF Laravel!CheckEmailCode
  <2> QED BY <1>0, <1>1, <2>1, StayRotates, StayCounts, StayOthers, SeenStaysRight
          DEF Laravel!CheckEmailCode, Laravel!OnlyCaller
<1>2. ASSUME user' = [user EXCEPT !.verified = TRUE], UNCHANGED overtaken PROVE Counts
  <2>1. user \in Laravel!UserRow /\ user.password \in Nat /\ overtaken \subseteq Nat \X Nat
    BY <1>0, TypedRows, UserRows
  <2>2. user' \in Laravel!UserRow /\ user'.version = user.version /\ user'.password = user.password
    BY <1>2, <2>1 DEF Laravel!UserRow
  <2> QED BY <1>2, <2>1, <2>2 DEF Counts
<1>3. CASE Laravel!VerifyEmail(c)
  <2>1. Acts /\ Rotates /\ Counts
    BY <1>0, <1>2, <1>3, SeesActs, StayRotates DEF Laravel!VerifyEmail
  <2>2. Others
    BY <1>0, <1>3, TypedRows DEF Laravel!VerifyEmail, Others
  <2> QED BY <2>1, <2>2, SeenStaysRight
<1>4. CASE Laravel!LogIn(c)
  <2>1. Acts
    BY <1>0, <1>4, LookActs, StayActs DEF Laravel!LogIn
  <2>2. Others
    BY <1>0, <1>4, TypedRows DEF Laravel!LogIn, Others
  <2> QED BY <1>0, <1>4, <2>1, <2>2, StayRotates, StayCounts, SeenStaysRight DEF Laravel!LogIn
<1>5. CASE Laravel!SocialLogin(c)
  <2>1. Acts /\ Rotates /\ Counts
    BY <1>0, <1>2, <1>5, SeesActs, StayRotates DEF Laravel!SocialLogin
  <2>2. Others
    BY <1>0, <1>5, TypedRows DEF Laravel!SocialLogin, Others
  <2> QED BY <2>1, <2>2, SeenStaysRight
<1>6. CASE Laravel!VerifyChallenge(c)
  <2>1. Acts /\ Rotates /\ Counts
    BY <1>0, <1>6, LookActs, StayRotates, StayCounts DEF Laravel!VerifyChallenge, Laravel!OnlyFactors
  <2>2. Others
    BY <1>0, <1>6, TypedRows DEF Laravel!VerifyChallenge, Laravel!OnlyFactors, Others
  <2> QED BY <2>1, <2>2, SeenStaysRight
<1>7. ASSUME NEW s \in AuthSession, Laravel!OpenSession(c, s) PROVE Laravel!AccountsInv'
  <2> DEFINE new == [status |-> "LIVE", version |-> caller[c].seen.version,
                     under |-> caller[c].seen.password, tokens |-> 1]
  <2>1. new \in Laravel!SessionRow /\ new.version = caller[c].seen.version /\ new.under = caller[c].seen.password
    BY <1>0, TypedRows DEF Laravel!SessionRow, Laravel!CallerRow, Laravel!Seen
  <2>2. authSession' = [authSession EXCEPT ![s] = new] /\ caller[c].at = "SIGNING"
    BY <1>7 DEF Laravel!OpenSession, Laravel!At
  <2> HIDE DEF new
  <2>3. Rotates
    BY <1>0, <2>1, <2>2 DEF Rotates, Laravel!AccountsTypeOK
  <2> QED BY <1>0, <1>7, <2>3, ReturnActs, StayCounts, StayOthers, SeenStaysRight DEF Laravel!OpenSession
<1> QED BY <1>1, <1>3, <1>4, <1>5, <1>6, <1>7

\* Sessions are refreshed and revoked, one or all.
LEMMA SessionSteps ==
  ASSUME Laravel!AccountsInv,
         \/ \E s \in AuthSession :
              \/ Laravel!RevokeOne(s)
              \/ \E t \in 1 .. 2, recent \in BOOLEAN : Laravel!Refresh(s, t, recent)
         \/ \E c \in Caller : Laravel!BeginRevokeAll(c) \/ Laravel!RevokeAll(c)
  PROVE  Laravel!AccountsInv'
<1>0. Laravel!AccountsTypeOK
  BY DEF Laravel!AccountsInv
<1>1. ASSUME Rotates, UNCHANGED <<user, mails, code, factors, caller, overtaken>> PROVE Laravel!AccountsInv'
  BY <1>0, <1>1, StayActs, StayCounts, StayOthers, SeenStaysRight
<1>2. ASSUME NEW s \in AuthSession, Laravel!RevokeOne(s) PROVE Laravel!AccountsInv'
  BY <1>0, <1>1, <1>2, RevokeRotates DEF Laravel!RevokeOne
<1>3. ASSUME NEW s \in AuthSession, NEW t, NEW recent, Laravel!Refresh(s, t, recent)
      PROVE  Laravel!AccountsInv'
  <2>1. CASE authSession' = [authSession EXCEPT ![s].tokens = @ + 1]
    <3> DEFINE new == [authSession[s] EXCEPT !.tokens = @ + 1]
    <3>1. /\ new \in Laravel!SessionRow /\ new.version = authSession[s].version
          /\ new.under = authSession[s].under /\ new.status = authSession[s].status
      BY <1>0, TypedRows DEF Laravel!SessionRow
    <3>2. authSession' = [authSession EXCEPT ![s] = new]
      BY <1>0, <2>1 DEF Laravel!AccountsTypeOK
    <3> HIDE DEF new
    <3>3. Rotates
      BY <1>0, <3>1, <3>2 DEF Rotates, Laravel!AccountsTypeOK
    <3> QED BY <1>1, <1>3, <3>3 DEF Laravel!Refresh
  <2>2. CASE Laravel!Revoke({s}) \/ UNCHANGED authSession
    BY <1>0, <1>1, <1>3, <2>2, RevokeRotates, StayRotates DEF Laravel!Refresh
  <2> QED BY <1>3, <2>1, <2>2 DEF Laravel!Refresh
<1>4. ASSUME NEW c \in Caller, Laravel!BeginRevokeAll(c) PROVE Laravel!AccountsInv'
  BY <1>0, <1>4, IdsActs, StayRotates, StayCounts, StayOthers, SeenStaysRight
     DEF Laravel!BeginRevokeAll, Laravel!OnlyCaller
<1>5. ASSUME NEW c \in Caller, Laravel!RevokeAll(c) PROVE Laravel!AccountsInv'
  <2>1. Counts
    BY <1>0, <1>5, TypedRows DEF Laravel!RevokeAll, Counts, Laravel!UserRow
  <2> QED BY <1>0, <1>5, <2>1, ReturnActs, RevokeRotates, StayOthers, SeenStaysRight DEF Laravel!RevokeAll
<1> QED BY <1>2, <1>3, <1>4, <1>5

\* The second factor: it comes and goes, and proves who replaces the password.
LEMMA FactorSteps ==
  ASSUME Laravel!AccountsInv,
         \/ Laravel!ConfirmSetup \/ Laravel!DisableMfa \/ Laravel!RegenerateRecoveryCodes
         \/ \E p \in Laravel!Purpose : Laravel!IssueCode(p)
         \/ \E c \in Caller : Laravel!ProveByCode(c) \/ Laravel!FindRecoveryCode(c) \/ Laravel!SpendRecoveryCode(c)
  PROVE  Laravel!AccountsInv'
<1>0. Laravel!AccountsTypeOK
  BY DEF Laravel!AccountsInv
<1>1. ASSUME NEW b \in BOOLEAN, user' = [user EXCEPT !.mfa = b], UNCHANGED overtaken PROVE Counts
  BY <1>0, <1>1, TypedRows DEF Counts, Laravel!UserRow
<1>2. ASSUME factors' \subseteq {"RECOVERY_CODE", "CHALLENGE"}, UNCHANGED <<mails, code>> PROVE Others
  BY <1>0, <1>2, TypedRows DEF Others
<1>3. CASE Laravel!ConfirmSetup \/ Laravel!DisableMfa \/ Laravel!RegenerateRecoveryCodes
  <2>1. Counts
    BY <1>0, <1>1, <1>3, StayCounts
       DEF Laravel!ConfirmSetup, Laravel!DisableMfa, Laravel!RegenerateRecoveryCodes, Laravel!OnlyFactors
  <2>2. Others
    BY <1>0, <1>2, <1>3, TypedRows
       DEF Laravel!ConfirmSetup, Laravel!DisableMfa, Laravel!RegenerateRecoveryCodes, Laravel!OnlyFactors
  <2> QED BY <1>0, <1>3, <2>1, <2>2, StayActs, StayRotates, SeenStaysRight
          DEF Laravel!ConfirmSetup, Laravel!DisableMfa, Laravel!RegenerateRecoveryCodes, Laravel!OnlyFactors
<1>4. ASSUME NEW p \in Laravel!Purpose, Laravel!IssueCode(p) PROVE Laravel!AccountsInv'
  <2>1. Others
    BY <1>0, <1>4, TypedRows DEF Laravel!IssueCode, Others
  <2> QED BY <1>0, <1>4, <2>1, StayActs, StayRotates, StayCounts, SeenStaysRight DEF Laravel!IssueCode
<1>5. ASSUME NEW c \in Caller, Laravel!ProveByCode(c) \/ Laravel!FindRecoveryCode(c) PROVE Laravel!AccountsInv'
  BY <1>0, <1>5, GotoActs, StayRotates, StayCounts, StayOthers, SeenStaysRight
     DEF Laravel!ProveByCode, Laravel!FindRecoveryCode, Laravel!OnlyCaller
<1>6. ASSUME NEW c \in Caller, Laravel!SpendRecoveryCode(c) PROVE Laravel!AccountsInv'
  <2>1. Others
    BY <1>0, <1>2, <1>6, TypedRows DEF Laravel!SpendRecoveryCode, Laravel!OnlyFactors
  <2> QED BY <1>0, <1>6, <2>1, GotoActs, StayRotates, StayCounts, SeenStaysRight
          DEF Laravel!SpendRecoveryCode, Laravel!OnlyFactors
<1> QED BY <1>3, <1>4, <1>5, <1>6

\* The password is replaced after a code or a factor: unless this writes over a
\* version it had not seen, the version it writes is new.
LEMMA ReplacingSteps ==
  ASSUME Laravel!AccountsInv, NEW c \in Caller,
         \/ Laravel!ResetPassword(c) \/ Laravel!RequestChange(c) \/ Laravel!PluckSessions(c)
         \/ Laravel!ReplacePassword(c) \/ Laravel!CancelPending(c) \/ Laravel!Abandon(c)
  PROVE  Laravel!AccountsInv'
<1>0. Laravel!AccountsTypeOK
  BY DEF Laravel!AccountsInv
<1>1. ASSUME Acts, Laravel!OnlyCaller PROVE Laravel!AccountsInv'
  BY <1>0, <1>1, StayRotates, StayCounts, StayOthers, SeenStaysRight DEF Laravel!OnlyCaller
<1>2. CASE Laravel!ResetPassword(c)
  BY <1>0, <1>1, <1>2, VersionActs DEF Laravel!ResetPassword
<1>3. CASE Laravel!RequestChange(c)
  BY <1>0, <1>1, <1>3, VersionActs, BeginActs DEF Laravel!RequestChange
<1>4. CASE Laravel!PluckSessions(c)
  BY <1>0, <1>1, <1>4, IdsActs DEF Laravel!PluckSessions
<1>5. CASE Laravel!ReplacePassword(c)
  <2> DEFINE over == (caller[c].seen.version + 1 .. user.version) \X (0 .. user.password)
  <2>1. /\ user \in Laravel!UserRow /\ caller[c].seen.version \in Nat /\ overtaken \subseteq Nat \X Nat
        /\ user.version \in Nat /\ user.password \in Nat
    BY <1>0, TypedRows DEF Laravel!CallerRow, Laravel!Seen, Laravel!UserRow
  <2>2. /\ user' = [user EXCEPT !.version = caller[c].seen.version + 1, !.password = @ + 1]
        /\ overtaken' = overtaken \cup over
    BY <1>5 DEF Laravel!ReplacePassword
  <2>3. /\ user' \in Laravel!UserRow /\ user'.version = caller[c].seen.version + 1
        /\ user'.password = user.password + 1
    BY <2>1, <2>2, Renewed
  <2>4. over \subseteq Nat \X Nat /\ over = (user'.version .. user.version) \X (0 .. user.password)
    BY <2>1, <2>3
  <2> HIDE DEF over
  <2>5. Counts
    BY <2>1, <2>2, <2>3, <2>4 DEF Counts
  <2>6. Others
    BY <1>0, <1>5, TypedRows DEF Laravel!ReplacePassword, Others
  <2>7. Acts
    <3> DEFINE new == [Laravel!NoCaller EXCEPT !.at = "CANCELLING"]
    <3>1. Laravel!Return(c) \/ caller' = [caller EXCEPT ![c] = new]
      BY <1>5 DEF Laravel!ReplacePassword
    <3>2. new \in Laravel!CallerRow /\ new.at = "CANCELLING"
      BY DEF Laravel!NoCaller, Laravel!CallerRow, Laravel!Seen
    <3> HIDE DEF new
    <3> QED BY <1>0, <3>1, <3>2, ReturnActs, RowActs
  <2> QED BY <1>0, <1>5, <2>5, <2>6, <2>7, RevokeRotates, SeenStaysRight DEF Laravel!ReplacePassword
<1>6. CASE Laravel!CancelPending(c)
  <2>1. Others
    BY <1>0, <1>6, TypedRows DEF Laravel!CancelPending, Others
  <2> QED BY <1>0, <1>6, <2>1, ReturnActs, StayRotates, StayCounts, SeenStaysRight DEF Laravel!CancelPending
<1>7. CASE Laravel!Abandon(c)
  BY <1>0, <1>1, <1>7, ReturnActs DEF Laravel!Abandon
<1> QED BY <1>2, <1>3, <1>4, <1>5, <1>6, <1>7

\* A change that is mailed: confirmed, it counts on from the user as it is.
LEMMA MailSteps ==
  ASSUME Laravel!AccountsInv, NEW m \in Letter,
         \/ Laravel!EndChange(m)
         \/ \E c \in Caller : \/ Laravel!SendMail(c, m) \/ Laravel!ActiveToken(c, m)
                              \/ Laravel!Confirm(c, m) \/ Laravel!Reject(c, m)
  PROVE  Laravel!AccountsInv'
<1>0. Laravel!AccountsTypeOK
  BY DEF Laravel!AccountsInv
<1>1. ASSUME NEW s \in {"PENDING", "CLOSED"}, Acts, Laravel!SetChange(m, s) PROVE Laravel!AccountsInv'
  <2>1. Others
    BY <1>0, <1>1, TypedRows DEF Laravel!SetChange, Others
  <2> QED BY <1>0, <1>1, <2>1, StayRotates, StayCounts, SeenStaysRight DEF Laravel!SetChange
<1>2. CASE Laravel!EndChange(m)
  BY <1>0, <1>1, <1>2, StayActs DEF Laravel!EndChange
<1>3. ASSUME NEW c \in Caller, Laravel!SendMail(c, m) \/ Laravel!Reject(c, m) PROVE Laravel!AccountsInv'
  BY <1>0, <1>1, <1>3, ReturnActs DEF Laravel!SendMail, Laravel!Reject
<1>4. ASSUME Acts, Laravel!OnlyCaller PROVE Laravel!AccountsInv'
  BY <1>0, <1>4, StayRotates, StayCounts, StayOthers, SeenStaysRight DEF Laravel!OnlyCaller
<1>5. ASSUME NEW c \in Caller, Laravel!ActiveToken(c, m) PROVE Laravel!AccountsInv'
  BY <1>0, <1>4, <1>5, BeginActs DEF Laravel!ActiveToken
<1>6. ASSUME NEW c \in Caller, Laravel!Confirm(c, m) PROVE Laravel!AccountsInv'
  <2>1. Acts
    BY <1>0, <1>6, ReturnActs DEF Laravel!Confirm
  <2>2. CASE /\ mails' = [mails EXCEPT ![m] = "CLOSED"]
             /\ user' = [user EXCEPT !.version = @ + 1, !.password = @ + 1]
             /\ Laravel!Revoke(Laravel!Live) /\ UNCHANGED <<code, factors, overtaken>>
    <3>1. /\ user.version \in Nat /\ user.password \in Nat /\ user \in Laravel!UserRow
          /\ overtaken \subseteq Nat \X Nat
      BY <1>0, TypedRows, UserRows
    <3>2. user' \in Laravel!UserRow /\ user'.version = user.version + 1 /\ user'.password = user.password + 1
      BY <2>2, <3>1, Renewed
    <3>3. Counts
      BY <2>2, <3>1, <3>2 DEF Counts
    <3>4. Others
      BY <1>0, <2>2, TypedRows DEF Others
    <3> QED BY <1>0, <2>1, <2>2, <3>3, <3>4, RevokeRotates, SeenStaysRight
  <2> QED BY <1>4, <1>6, <2>1, <2>2 DEF Laravel!Confirm
<1> QED BY <1>2, <1>3, <1>5, <1>6

\* Every step of the account.
LEMMA LaravelAccountKept ==
  Laravel!AccountsInv /\ (Laravel!AccountsNext \/ UNCHANGED laravelVars) => Laravel!AccountsInv'
<1> SUFFICES ASSUME Laravel!AccountsInv, Laravel!AccountsNext \/ UNCHANGED laravelVars PROVE Laravel!AccountsInv'
  OBVIOUS
<1>1. CASE UNCHANGED laravelVars
  <2>1. UNCHANGED <<user, authSession, mails, code, factors, caller, overtaken>>
    BY <1>1 DEF laravelVars
  <2>2. Laravel!AccountsTypeOK
    BY DEF Laravel!AccountsInv
  <2> QED BY <2>1, <2>2, StayActs, StayRotates, StayCounts, StayOthers, SeenStaysRight
<1>2. CASE Laravel!AccountsNext
  BY <1>2, SignInSteps, SessionSteps, FactorSteps, ReplacingSteps, MailSteps DEF Laravel!AccountsNext
<1> QED BY <1>1, <1>2

\* AuthService, SessionService, AccountCodeService, MfaService and PasswordChangeService
\* of Laravel: whoever is signing in has seen the user as it was at some version or is,
\* and its password with it, and so has every session that lives; or it saw a version
\* that a replacement has counted over (overtaken).
THEOREM LaravelInvariance == BothSpec => []Laravel!AccountsInv
<1>1. BothInit => Laravel!AccountsInv
  BY LaravelStarts DEF BothInit
<1>2. Laravel!AccountsInv /\ [BothNext]_<<vars, laravelVars, backend>> => Laravel!AccountsInv'
  BY LaravelAccountKept DEF BothNext
<1> QED BY <1>1, <1>2, PTL DEF BothSpec

\* A new password ends every session begun under an older one, however sign-ins, mails,
\* resets and requests to sign out everywhere overlap.  Excepted are the versions that a
\* replacement of the password counts over (replacePasswordAndRevokeSessions), because
\* another replacement, a mailed change or a sign-out everywhere came between its look
\* at the user and its update: a session signed in with one of them may be let in.
THEOREM OldPasswordsOpenNothing == BothSpec => []NewPasswordEndsSessions
<1>1. Laravel!AccountsInv => NewPasswordEndsSessions
  BY DEF Laravel!AccountsInv, Laravel!SeenRight, Laravel!WasOrIs, Laravel!Live, NewPasswordEndsSessions,
         Laravel!NewPasswordEndsSessions, Laravel!Accepted
<1> QED BY <1>1, LaravelInvariance, PTL
=============================================================================
