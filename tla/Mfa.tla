--------------------------------- MODULE Mfa ---------------------------------
(***************************************************************************)
(* MfaService: the second step of signing in.  A challenge stands for the  *)
(* password that was right; a code of the authenticator, or one of the     *)
(* recovery codes, answers it.  Checking a code takes a while, between a   *)
(* look at the challenge and the update that follows.                      *)
(***************************************************************************)
EXTENDS Naturals, FiniteSets

CONSTANTS
  Try,          \* requests that answer a challenge at a time
  RecoveryCode,
  MaxAttempts,  \* wrong answers a challenge stands: 5
  MaxStep,      \* bound: periods of the authenticator looked at
  MaxTries      \* bound: answers given

ASSUME AttemptsAreNat == MaxAttempts \in Nat \ {0} /\ MaxStep \in Nat \ {0} /\ MaxTries \in Nat
ASSUME TriesAreFinite == IsFiniteSet(Try)

VARIABLES
  factor,    \* mfaEnabledAt, and whether a new secret waits for its first code
  step,      \* the period of the authenticator now
  lastUsed,  \* mfaLastUsedStep
  unused,    \* MfaRecoveryCode without usedAt
  challenge, \* MfaChallenge: its attempts, and whether it can be answered
  try,       \* the answers being checked
  wrong,     \* how many wrong answers were checked for the challenge
  given      \* answers given so far

mfaVars == <<factor, step, lastUsed, unused, challenge, try, wrong, given>>

NoTry == [stage |-> "idle", code |-> "none", at |-> 0]

MfaTypeOK ==
  /\ factor \in {"off", "pending", "on"}
  /\ step \in 0 .. MaxStep /\ lastUsed \in 0 .. MaxStep
  /\ unused \subseteq RecoveryCode
  /\ challenge \in [state : {"none", "open", "used", "expired", "gone"}, attempts : Nat]
  /\ try \in [Try -> [stage : {"idle", "checking", "right", "spent", "wrong"},
                      code : {"none", "totp", "guess"} \cup RecoveryCode, at : 0 .. MaxStep]]
  /\ wrong \in Nat /\ given \in 0 .. MaxTries

MfaInit ==
  /\ factor = "off" /\ step = 1 /\ lastUsed = 0 /\ unused = {}
  /\ challenge = [state |-> "none", attempts |-> 0]
  /\ try = [t \in Try |-> NoTry]
  /\ wrong = 0 /\ given = 0

NextPeriod == step < MaxStep /\ step' = step + 1
              /\ UNCHANGED <<factor, lastUsed, unused, challenge, try, wrong, given>>

BeginSetup ==
  /\ factor = "off" /\ factor' = "pending"
  /\ UNCHANGED <<step, lastUsed, unused, challenge, try, wrong, given>>

\* confirmSetup: the code is used, the recovery codes are new.
ConfirmSetup ==
  /\ factor = "pending" /\ factor' = "on"
  /\ lastUsed' = step /\ unused' = RecoveryCode
  /\ UNCHANGED <<step, challenge, try, wrong, given>>

RegenerateRecoveryCodes ==
  /\ factor = "on" /\ step > lastUsed
  /\ lastUsed' = step /\ unused' = RecoveryCode
  /\ UNCHANGED <<factor, step, challenge, try, wrong, given>>

Disable ==
  /\ factor = "on" /\ step > lastUsed
  /\ factor' = "off" /\ lastUsed' = 0 /\ unused' = {}
  /\ challenge' = [challenge EXCEPT !.state = "gone"]
  /\ UNCHANGED <<step, try, wrong, given>>

\* Bound: one challenge.
CreateChallenge ==
  /\ factor = "on" /\ challenge.state = "none"
  /\ challenge' = [state |-> "open", attempts |-> 0]
  /\ UNCHANGED <<factor, step, lastUsed, unused, try, wrong, given>>

ExpireChallenge ==
  /\ challenge.state = "open" /\ challenge' = [challenge EXCEPT !.state = "expired"]
  /\ UNCHANGED <<factor, step, lastUsed, unused, try, wrong, given>>

\* verifyChallenge, as far as the challenge is looked at
AnswerChallenge(t, code) ==
  /\ try[t] = NoTry /\ given < MaxTries
  /\ challenge.state = "open" /\ challenge.attempts < MaxAttempts
  /\ try' = [try EXCEPT ![t] = [stage |-> "checking", code |-> code, at |-> step]]
  /\ given' = given + 1
  /\ UNCHANGED <<factor, step, lastUsed, unused, challenge, wrong>>

Judge(t, verdict) == try' = [try EXCEPT ![t].stage = verdict]

\* verifyCurrentCode, consumeRecoveryCode: whether the code is good ...
Check(t) ==
  /\ try[t].stage = "checking"
  /\ IF try[t].code \in unused \/ (try[t].code = "totp" /\ factor = "on" /\ try[t].at > lastUsed)
     THEN Judge(t, "right") /\ UNCHANGED wrong
     ELSE Judge(t, "wrong") /\ wrong' = wrong + 1
  /\ UNCHANGED <<factor, step, lastUsed, unused, challenge, given>>

\* ... and the mark that it was used.
Spend(t) ==
  /\ try[t].stage = "right"
  /\ Judge(t, "spent")
  /\ IF try[t].code = "totp" THEN lastUsed' = try[t].at /\ UNCHANGED unused
     ELSE unused' = unused \ {try[t].code} /\ UNCHANGED lastUsed
  /\ UNCHANGED <<factor, step, challenge, wrong, given>>

\* Slip: the attempts are counted from what was looked up before.
FailStale(t) ==
  /\ try[t].stage = "wrong"
  /\ try' = [try EXCEPT ![t] = NoTry]
  /\ challenge' = [challenge EXCEPT !.attempts = 1]
  /\ UNCHANGED <<factor, step, lastUsed, unused, wrong, given>>

Fail(t) ==
  /\ try[t].stage = "wrong"
  /\ try' = [try EXCEPT ![t] = NoTry]
  /\ challenge' = IF challenge.state = "gone" THEN challenge ELSE [challenge EXCEPT !.attempts = @ + 1]
  /\ UNCHANGED <<factor, step, lastUsed, unused, wrong, given>>

Pass(t) ==
  /\ try[t].stage = "spent"
  /\ try' = [try EXCEPT ![t] = NoTry]
  /\ challenge' = IF challenge.state = "gone" THEN challenge ELSE [challenge EXCEPT !.state = "used"]
  /\ UNCHANGED <<factor, step, lastUsed, unused, wrong, given>>

MfaStep ==
  \/ NextPeriod \/ BeginSetup \/ ConfirmSetup \/ RegenerateRecoveryCodes \/ Disable
  \/ CreateChallenge \/ ExpireChallenge
  \/ \E t \in Try :
       \/ Check(t) \/ Spend(t) \/ Fail(t) \/ Pass(t)
       \/ \E code \in {"totp", "guess"} \cup RecoveryCode : AnswerChallenge(t, code)

\* A challenge stands as many wrong answers as it may and, as those checked at the
\* same moment have all seen room for one, as many more as there are other requests.
AttemptsBounded == wrong <= MaxAttempts + Cardinality(Try) - 1

At(stage) == {t \in Try : try[t].stage = stage}

\* What makes it inductive: every wrong answer is counted, or about to be.
AttemptInv ==
  /\ wrong + Cardinality(At("checking")) <= MaxAttempts + Cardinality(Try) - 1
  /\ challenge.state # "gone" => wrong = challenge.attempts + Cardinality(At("wrong"))
  /\ challenge.state = "none" => wrong = 0 /\ \A t \in Try : try[t] = NoTry
=============================================================================
