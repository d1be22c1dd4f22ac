---------------------------- MODULE LaravelSweep ----------------------------
(***************************************************************************)
(* The scheduled commands of the Laravel backend over many orders:         *)
(* orders:reconcile-expired-reviews takes the oldest expired reviews, a    *)
(* batch at a time, and completes what can be completed.  An order that    *)
(* may not be completed is passed over; one whose earning is not as        *)
(* completion expects throws what the command does not catch and ends it.  *)
(***************************************************************************)
EXTENDS Naturals, Sequences, FiniteSets, SequencesExt

CONSTANTS
  Order,      \* submitted orders
  Limit       \* orders a run takes (--limit, 25)

VARIABLES
  expired,    \* the orders whose review has expired, by deadline
  case,       \* what completion would find of each order
  sweep       \* the ids of the run that are left

sweepVars == <<expired, case, sweep>>

\* "clear": it can be completed; "disputed" and "refunded" are answered 409;
\* "throws": the client has won the dispute and its only earning is frozen.
Case == {"clear", "disputed", "throws", "refunded", "completed"}

SweepTypeOK ==
  /\ expired \in Seq(Order) /\ sweep \in Seq(Order)
  /\ case \in [Order -> Case]

SweepInit ==
  /\ expired = <<>> /\ sweep = <<>>
  /\ case = [o \in Order |-> "clear"]

Without(s, o) == SelectSeq(s, LAMBDA other : other # o)

ReviewExpires(o) ==
  /\ case[o] # "completed" /\ ~Contains(expired, o)
  /\ expired' = Append(expired, o) /\ UNCHANGED <<case, sweep>>

Becomes(o, from, to) ==
  case[o] = from /\ case' = [case EXCEPT ![o] = to] /\ UNCHANGED <<expired, sweep>>

\* A dispute is opened; the client wins it; an administrator begins the refund,
\* which may fail.
Disputed(o)    == Becomes(o, "clear", "disputed")
ClientWins(o)  == Becomes(o, "disputed", "throws")
Refunded(o)    == Becomes(o, "throws", "refunded")
RefundFails(o) == Becomes(o, "refunded", "throws")

\* The provider's win sets the deadline anew, to now if none of the window is left.
ProviderWins(o) ==
  /\ case[o] = "disputed" /\ case' = [case EXCEPT ![o] = "clear"]
  /\ expired' \in {Without(expired, o), Append(Without(expired, o), o)}
  /\ UNCHANGED sweep

-----------------------------------------------------------------------------
FirstOf(s, n) == SubSeq(s, 1, IF Len(s) < n THEN Len(s) ELSE n)

\* Scheduled every minute, never twice at once.
BeginSweep ==
  /\ sweep = <<>> /\ expired # <<>>
  /\ sweep' = FirstOf(expired, Limit) /\ UNCHANGED <<expired, case>>

\* Slip: a refusal ends the run as well.
SweepToTheFirst ==
  LET o == Head(sweep) IN
  /\ sweep # <<>>
  /\ IF case[o] = "clear" /\ Contains(expired, o)
     THEN case' = [case EXCEPT ![o] = "completed"] /\ expired' = Without(expired, o)
     ELSE UNCHANGED <<expired, case>>
  /\ sweep' = IF case[o] \in {"throws", "disputed", "refunded"} THEN <<>> ELSE Tail(sweep)

\* One order of the run.  Meanwhile it may have been completed or disputed.
SweepOrder ==
  LET o == Head(sweep) IN
  /\ sweep # <<>>
  /\ IF case[o] = "clear" /\ Contains(expired, o)
     THEN case' = [case EXCEPT ![o] = "completed"] /\ expired' = Without(expired, o)
     ELSE UNCHANGED <<expired, case>>
  /\ sweep' = IF case[o] = "throws" THEN <<>> ELSE Tail(sweep)

\* The client accepts the work.
Accepted(o) ==
  /\ case[o] = "clear" /\ case' = [case EXCEPT ![o] = "completed"]
  /\ expired' = Without(expired, o) /\ UNCHANGED sweep

SweepNext ==
  \/ BeginSweep \/ SweepOrder
  \/ \E o \in Order : ReviewExpires(o) \/ Disputed(o) \/ ProviderWins(o)
                       \/ ClientWins(o) \/ Refunded(o) \/ RefundFails(o) \/ Accepted(o)

-----------------------------------------------------------------------------
Waits(o) == Contains(expired, o) /\ case[o] = "clear"

\* What docs/laravel-migration.md says of the command, which a review that throws
\* or a batch of older ones that may not be completed keeps it from.
ExpiredIsCompleted == \A o \in Order : ~<>[]Waits(o)

\* The orders whose review expired before that of o.
Ahead(o) == {p \in Order : \E m, n \in DOMAIN expired : m < n /\ expired[m] = p /\ expired[n] = o}

KeptBack(o) ==
  \/ \E p \in Ahead(o) : case[p] = "throws"
  \/ Cardinality({p \in Ahead(o) : case[p] # "clear"}) >= Limit

\* What the command does give: a review stays submitted for ever only behind older
\* ones that again and again throw, or fill a whole run with what may not be
\* completed.  Refusals short of that, and disputes or refunds that come and go
\* during a run, keep nobody waiting.
WaitsBehindOthers == \A o \in Order : <>[]Waits(o) => []<>KeptBack(o)
=============================================================================
