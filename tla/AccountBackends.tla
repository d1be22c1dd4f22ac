--------------------------- MODULE AccountBackends ---------------------------
(***************************************************************************)
(* The account of a user in one of the two backends (bound: a behaviour    *)
(* shows one): in NestJS one session and the tabs of its browser, mails    *)
(* and the pages they open, or codes; in Laravel requests at work.         *)
(***************************************************************************)
EXTENDS Accounts, TLC

CONSTANTS Caller, AuthSession, Letter, MaxPasswords

VARIABLES user, authSession, mails, code, factors, caller, overtaken, backend

Laravel == INSTANCE LaravelAccounts WITH MaxTokens <- 2

laravelVars == <<user, authSession, mails, code, factors, caller, overtaken>>

BothInit ==
  /\ backend \in {"NestJS", "Laravel"} /\ Init /\ Laravel!AccountsInit
  /\ backend = "Laravel" => scene = "codes"

BothNext ==
  /\ UNCHANGED backend
  /\ \/ backend = "NestJS" /\ Next /\ UNCHANGED laravelVars
     \/ backend = "Laravel" /\ Laravel!AccountsNext /\ UNCHANGED vars

BothSpec == BothInit /\ [][BothNext]_<<vars, laravelVars, backend>>

\* What a new password of the Laravel backend ends.
NewPasswordEndsSessions == Laravel!NewPasswordEndsSessions

\* The requests of one kind are alike.
Symmetry == Permutations(Call) \cup Permutations(Try) \cup Permutations(Caller)
=============================================================================
