# CampusGig: a formal model

CampusGig is a marketplace for student services. Its rules live in a NestJS API over PostgreSQL
(`src/api`); a web client (`src/app`) and two mobile clients (`src/mobile`, `src/maui`) present them,
and a second backend in Laravel (`src/laravel-api`) is being built beside the first. These modules
model the parts in which a mistake costs money, loses a message or leaves a session open, and in which
the hard behaviours are: transactions that overlap, calls to PayMongo that may be lost, webhooks that
come late and twice, tabs that work at the same time, clocks that are paused. They follow the source
statement by statement; `PROJECT.json` maps every definition to the lines it stands for.

## The system

### Components

Paths are below `src/api/src/modules/` unless they start with `src/`.

| component | state it keeps | operations | talks to | what makes it correct |
|---|---|---|---|---|
| Orders (`orders/orders.service.ts`) | `Order` (status, revisions used, review delivery, deadline), deliveries, revision requests | create, accept, reject, cancel, start, deliver, three kinds of revision, acknowledge or decline, accept work, complete by timeout | reads payments, purchases, disputes; releases earnings; reads trigger the same reconciliation as the poll | one thing to work on at a time; money is released exactly by completion; a repeated creation is one order; limits of a provider hold |
| Review reconciler (`orders/order-review-reconciler.service.ts`) | timer | every poll: the 25 oldest expired reviews | Orders | work nobody reviews is completed, not too early, and no order keeps the others waiting |
| Payment ledger (`payments/payment-ledger.service.ts`) | `Payment`, `OrderRevisionPurchase`, `PaymentWebhookEvent`, `ProviderEarning` and its ledger | create checkout, webhooks, refresh of a pending payment, activation of an extra revision | PayMongo, Orders' rows, Disputes' rows, Refunds | paid once, credited once, nothing believed without evidence |
| Disputes (`disputes/disputes.service.ts`) and their deadline reconciler | `OrderDispute`, affected earnings, response windows | open, respond, request a response, mark ready, begin review, resolve | freezes and restores earnings, pauses and resumes the review | a freeze is lifted once and only by its own dispute; nothing moves during a dispute |
| Full refunds (`payments/refunds.service.ts`) | `PaymentRefund` | requests by client, dispute, stale revision or exception; submission; webhook; reconcile | PayMongo, earnings, order status | money goes back at most once; client's money and provider's earning are never both free |
| Payouts (`payments/provider-payouts.service.ts`) | `ProviderPayout`, reservations, destinations | request, approve, manual transfer, settle, reject, cancel | earnings, under other locks than disputes and refunds | an earning is paid out once and never when refunded or frozen |
| Earnings read model (`payments/provider-earnings.service.ts`) | none | list | reconciles expired reviews while it reads | totals agree with the ledger |
| Marketplace pricing (`marketplace/`) | none | quote, fee, extra revision, turnaround | | amounts add up, rounding loses nothing |
| Provider workload | limits, active and pending orders | counted by create and accept | | limits hold under concurrent requests |
| Sessions (`auth/auth-session.service.ts`) | `AuthSession`, refresh tokens | sign in, rotate, replay, revoke | sockets, cookies of a browser | rotations never fork, an ended session leaves no token |
| Second factor, password change (`auth/mfa.service.ts`, `auth/password-change.service.ts`) | challenges, recovery codes, `PasswordChangeRequest` | verify, request, confirm, reject, cancel | sessions | attempts are bounded, a request changes a password once |
| Messaging (`messages/`) | messages, marks of reading and hiding, rooms, sockets | send, list, mark, hide, connect, revalidate | sessions | everything is shown once and in the end, no dead socket is served |
| Catalogue, verification, administration (`provider/`, `profile/`, `admin/`) | listings, their files, verification requests | edit, submit, pause, revise, archive, upload, decide | storage | a private draft stays private, rows name files that exist |
| Traffic protection | token buckets in memory | consume | | |
| Configuration, monitoring, bootstrap | | | | |
| Web client (`src/app`) | what a screen holds | the message workspace, offers of the order screens, refresh of a token | API, sockets | an older answer does not replace a newer one; screens offer what services do |
| Mobile clients (`src/mobile`, `src/maui`) | what a screen holds | offers of the order screen | API | |
| Laravel API (`src/laravel-api`) | the same rows in MySQL | the same contract | PayMongo, scheduler | the same promises, kept by other means (row locks, repeatable reads, a scheduled sweep) |
| Deployment and backup scripts (`src/scripts`) | | | | |

### What interacts, and what is hard

Every transaction on an order begins with the order's advisory lock (`orders/order-review-lock.ts`),
so orders, disputes and most of the ledger interleave transaction by transaction. What this does not
cover is where the hazards are:

* **Money and work out of step.** PayMongo confirms a payment when it likes: after a dispute was
  opened, after the review the revision was bought in has ended, after the order was completed.
* **Freezes by several owners.** A dispute and a refund both freeze an earning by the same status.
* **Two sorts of locks on one earning.** A payout reserves under the lock of the provider and of the
  orders it found in an earlier statement; disputes and refunds take the lock of their order.
* **Paused clocks.** A dispute stores what is left of the review and gives it back later.
* **Calls to PayMongo outside any transaction.** Checkouts and refunds are claimed in the database,
  then asked for over HTTP, then recorded: the process may stop, the answer be lost, or a webhook
  overtake it. Webhooks are repeated, late and out of order.
* **Read committed isolation.** What a transaction reads and what it writes are different moments:
  rotation of tokens, challenges, mailed changes, listings edited in two tabs.
* **Counted, then used.** Limits on pending and active orders, attempts of a challenge.
* **Screens and sockets.** Refreshes overtake each other, messages arrive by three ways, a session ends
  while its socket is being authenticated, what a screen offers is computed apart from what the
  service decides.
* **Liveness by polling:** an order whose completion always throws, a row nobody looks for.
* **Errors after the commit:** a file that cannot be deleted once the rows are stored.

`PROJECT.json` lists each hazard at its line with the properties aimed at it.

## The modules

### Orders and their money

| module | models | notes |
|---|---|---|
| `OrderRecords` | the rows of one order, and the questions services ask of them | deliveries and purchases are named by their version, 0 is the original payment; a deadline is the time left |
| `Orders` | `orders.service.ts` after creation | one action per operation, each a whole transaction |
| `Ledger` | `payment-ledger.service.ts` as the order sees it | checkout opened, confirmed, failed, refreshed |
| `Disputes` | `disputes.service.ts` and the deadline reconciler | |
| `OrderLifecycle` | the three services and the clock on the same rows | properties, the inductive invariant, and the refinement of `Escrow` |
| `ReviewClock` | the life cycle with a history variable for undisputed review time | |
| `Offers` | what the web workspace, the provider's dashboard and the phone let the two parties do in each state | compared with what the services accept |
| `Settlement` | `refunds.service.ts` on all purchases of an order, for each of its reasons, among everything else that happens to the order | a refund under way ends as PayMongo decides |
| `Escrow` | abstract: escrow, hold, release of one order's money, and in its second part return of it to the client | `OrderLifecycle` implements the first part, `Backends` the second |
| `Pricing` | the arithmetic of quotes, fees and turnaround | operators only |
| `Intake` | creation, acceptance, rejection and cancellation of orders, with identifiers, terms and limits | a transaction's reads and writes are steps of their own |
| `Workload` | `Intake` until orders end, and the reconciler's batches | |
| `Checkout` | `createCheckout`, `processWebhook` and `reconcilePendingPayment`, statement by statement | PayMongo's sessions and events are external |
| `RefundSubmission` | `refunds.service.ts` for one refund, step by step, and the dispute on the same earning | PayMongo's refund is external |
| `Payouts` | `provider-payouts.service.ts` with the disputes, refunds and completions that compete for the earnings | |
| `Custody` | abstract: an earning's money is ours, set aside, the provider's or the client's | |

### Accounts, messages, listings

| module | models | notes |
|---|---|---|
| `Sessions` | `auth-session.service.ts`, and the tabs of a browser that share a cookie | the row lock of the rotating update is a variable; signing in, and signing out everywhere, are two steps each |
| `PasswordChange` | `password-change.service.ts` | the mail is external |
| `Mfa` | `mfa.service.ts`: challenges, codes, recovery codes | |
| `Accounts` | the three of them | `scene`: a behaviour shows one at work |
| `Messages` | `messages.service.ts` for one conversation | a message is named by its place in `createdAt`; a list has the newest `PageSize` |
| `Workspace` | the message workspace of the web client | refreshes, socket, answers |
| `Gateway` | `messages.gateway.ts` and `socket-session-registry.ts` | on top of `Sessions` |
| `Messaging` | workspaces and gateway | `scene` again: a page with its socket, a page and an inbox, the gateway |
| `Catalogue` | listings, their files, moderation, verification | two tabs and two administrators |

### The Laravel backend

| module | models |
|---|---|
| `LaravelOrders`, `LaravelDisputes`, `LaravelPayments` | its services on one order, with refunds and payouts, a transaction that locks the order's row being one action; on the rows of `OrderRecords` |
| `LaravelLifecycle` | the three of them with the clock |
| `LaravelRefunds`, `LaravelCheckout`, `LaravelSweep` | in single steps: one refund, the checkouts of a payment, the scheduled commands over many orders |
| `Backends` | all of these beside `Settlement`, one at work in each behaviour |
| `LaravelAccounts` | sessions, codes, mailed changes and the second factor of one user |
| `AccountBackends` | `Accounts` or `LaravelAccounts` |

`*Proofs` hold the theorems; `MC_*` instances for TLC, with definitions only TLC needs.

State and code correspond by name: `status`, `revisionsUsed`, `completionSource` are the columns of
`Order`; `charge`, `activation` and `earning` are `Payment.status` (or a purchase's `paymentStatus`),
`activationStatus` and `ProviderEarning.status`; a dispute record carries `status`, the time `left` to
respond, the earning it is about (`target`) and its `preFreeze` status, and what `remaining` of the
review it holds. A request in progress is a record with a `stage`, and what it has read. Operators defined
next to an action with the comment `Slip:` are plausible mistakes in that action. No specification uses
them; `PROJECT.json` lists them as mutants, and each property is violated when its mutant replaces
the action.

What is abstracted: texts, amounts (but for `Pricing`) and currencies, the contents of files, notifications
and wording. Every call by a user is always possible when its guards allow; that a caller is the right party
is left out where the parties do not appear in a property. PayMongo's reports are assumed to agree with the
rows in amount and currency (a mismatch only marks the row for a person).

## What is checked

`CHECK_DEADLOCK FALSE` is in most configurations because the modelled systems really end: an order
may be rejected, cancelled or completed, and all calls may have returned with nothing left to do. The
catalogue never ends and is checked for deadlock.

### Runs that pass

| run | question |
|---|---|
| `orders` | one order under every interleaving of the three services and the clock: do the books agree with the work (`OneRevisionInHand`, `FrozenWhileHeld`), is it an `Escrow` (`KeepsEscrow`), does anything move during a dispute, does a timeout ever cut a review short that a dispute paused, does undisputed work ever stay submitted, and do the screens offer all that the services would do (`NothingWithheld`) and nothing that can only fail (`OffersStand`)? |
| `checkout` | can an order have two payments that count, or a session opened once paid; is a paid session always settled? |
| `refunds` | are charge and earning ever both free, does a failed refund end a dispute's freeze, is returned money accounted for in the end? |
| `payouts` | is what a payout holds set aside for it alone, do statements add up, does the money of an earning ever go two ways (`KeepsCustody`)? |
| `workload` | is a repeated request one order, do the limits a transaction read hold when clients create and the provider accepts at once, do reviews conclude although one order always throws? |
| `catalogue` | does a private draft stay private whatever other tabs had begun, does every row name files that exist wherever an upload stops, is there always somebody who can decide a student's application? The first two but for one case each, which is the code's (below) |
| `accounts` | do rotations fork, does a token outlive its session, is a mailed change made twice, are answers to a challenge bounded; and in Laravel, does a new password end what was begun under the old one? |
| `messaging` | are the newest messages all shown in the end, is any of them taken away again once it was listed, does a hidden conversation stay hidden with something unread, is a dead socket served or kept? |
| `backends` | an order in either backend: is money frozen without a reason or moved two ways, does it go back for work the client has (`WorkOrMoney`), does an expired review wait for ever only behind others (`WaitsBehindOthers`); do all its services together move the money only as `Escrow` with returns lets them (`KeepsPromise`); in single steps, is a refund told to succeed honoured, is there a second session? |

### Bounds, and why they are enough

* `orders`: an included revision and two extra ones (`RevisionLimit` 1, three deliveries), so that an
  earlier purchase meets a later delivery. One dispute at most: it may open in every state, before and after
  each payment. Several disputes are covered by the proofs, which bound neither number. The review is two
  ticks, so that a dispute can interrupt it in the middle, the response window one.
* `checkout`: two calls race and either may stop anywhere, two webhook requests apply two reports or
  the same one twice, a failed attempt frees the order for a second payment.
* `refunds`: two requests beside a webhook, an administrator's query and a dispute opened before or
  after. `Decided` lets an older dispute, which froze nothing, have been decided for the client.
* `payouts`: two requests over two earnings of two orders; `OldDecision` as `Decided`. It is FALSE in
  the passing run and in the theorems' argument, and TRUE in `payout_race`, which shows why.
* `workload`: two requests with one identifier or none, two providers, limits of 1 and 2, one change of
  terms in between; a batch of two with one order that always throws. More such orders than a batch has
  would starve the others, in the model as in the code (25).
* `catalogue`: one listing in two tabs, two administrators, two covers and one file of a portfolio, two
  applications. `StudentFirst` lets the student be verified before the first listing is created, and nothing more be
  decided about the student while there is a listing. The two meet in `verification` and in that a
  tab or an administrator does one thing at a time.
* `accounts`: two tabs and one session, or two mails with two tabs and two pages, or two answers at once with
  two attempts; two sign-outs everywhere, and two replacements of the password in Laravel, so that a mailed
  change, a reset and a sign-out can each overtake another. Times are a few ticks in the order the
  configuration has them: grace, idle, absolute.
* `messaging`: a list has one message (`PageSize` 1), one has been read at the start and a second is written, so
  that the newest takes an older one from the list; two refreshes in flight. A page with its socket (`live`) and
  a conversation that its client hides, pins and archives (`inbox`) are behaviours apart, since
  together they do not fit; one socket of one session. The theorems hold for every page size and number of
  messages, pages and requests, with the two kinds of behaviour apart as in the specification; what hides a
  conversation looks at no socket, and no message comes to a page because it is hidden.
* `backends`: one order with one dispute, an extra revision and two payouts; one refund with two workers; two calls; three
  expired orders in batches of two.

`scene` and, in `AccountBackends`, `backend` choose which of several machines that do not touch each other a
behaviour shows: exploring their product would show nothing more. Only `live` and `inbox` of `Messaging` are
the same machine twice, each without a part of it.

### Fairness

* The clock ticks and the review reconciler polls: both are driven by the server (`setInterval` in
  `order-review-reconciler.service.ts`), so weak fairness. In `Workload` a batch is
  examined order by order, strongly fair, since the reconciler goes on to the next after an error.
* PayMongo repeats an event until the API answers that it is processed, and not every attempt is cut
  short: strong fairness of receiving the event and of each step of handling it. Without the second
  half no repeating system makes progress.
* In Laravel the schedule begins the sweep of expired reviews every minute, and a sweep that has begun goes
  on: weak fairness of both (`Fairness` of `Backends`). No order is promised its turn, since one that throws ends
  the sweep: `WaitsBehindOthers` says which orders may have to wait, and `ExpiredIsCompleted` that they do.
* The workspace polls every 20 seconds and the newest refresh gets its answer now and then; the
  gateway looks at its sockets every minute and lets tokens expire: timers again.
* Otherwise nobody is assumed to act: no user, no request runs to its end.

### Runs that find a disagreement

| run | promise | what happens |
|---|---|---|
| `payout_race` | a payout in progress reconciles with its earnings, or the code throws | `withdrawableEarnings` looks the earnings up, locks their orders, and looks them up again without keeping to the orders it locked; one thawed in between is reserved without its lock while a refund freezes it. The payout and the provider's statement are stuck for good |
| `session_replay` | the losing side of a concurrent refresh replays the committed successor | the time is noted before the transaction: when the later one wins the update, the other computes a negative age and revokes the family |
| `laravel_sweep` | the scheduled sweep releases the earning after an expired review | a completion that throws ends the sweep, and the next one begins with the same order |

### Promises the model refutes beside these

Stated as definitions in their modules and checked by no run. Each was refuted by TLC.

* `ReviewEndsInCompletion` (`OrderLifecycle`): after a dispute is decided for the client the earning stays
  frozen and completion throws at every poll, until a refund is asked for. With `Settlement` it is
  refuted without any dispute: once a stale purchase of an extra revision is refunded, completion, which
  wants every purchased revision delivered (`orders.service.ts:1739`), throws for good.
* `NoDoubleCharge`, `UnknownVerified` (`Checkout`): a failed attempt frees the order for a second session
  while the first stays payable; a checkout without an answer is never looked at again and blocks others.
  `PaidSessionSettled` therefore counts a session paid after its payment was marked FAILED as settled:
  the event is processed without effect.
* `FailedIsFinal`, `FrozenWhileRefunded`, `RequestProcessed` (`RefundSubmission`): the late answer of the
  request overwrites FAILED; closing an older dispute thaws an earning that is being refunded; a stop
  between preparing and submitting leaves REQUESTED for good and the client cannot ask again.
* In `Catalogue` two properties name the case they except, and fail without it. `DraftStaysPrivate`: two
  administrators read a listing that waits; one approves it, the provider takes it back for revision, and
  the other's approval, which does not look again (`admin.service.ts:138`), publishes the draft (`late`).
  `RowsHaveFiles`: when the old cover cannot be deleted, after the commit, the upload deletes the objects it has just
  given rows (`provider.service.ts:792-805`; `lost`).
* `EndedFamily` (`Sessions`) excepts a session signed in between the statements of `revokeAll`
  (`auth-session.service.ts:290` and `294`): it is ended and keeps its token, which is of no use, since it has the
  version of before.
* `PublicAsReviewed` (`Catalogue`): an edit reads the listing in one statement and writes it in another;
  submitted and approved in between, the listing is public with terms no administrator saw.
* `RejectedUnchanged` (`PasswordChange`): a page confirms and another rejects from the same status read;
  the password has changed and the answer says it has not.
* `ClientWinStaysFrozen` (`LaravelLifecycle`): what a dispute took is thawed by a second dispute or a failed
  refund. `UnknownStaysFrozen` (`LaravelRefunds`): a stale read records an unknown outcome after the money was
  settled. `PaidOnce`, `PaidIsConfirmed` (`LaravelCheckout`): as in the first backend.

What reading and TLC showed beside them: in Laravel a failed refund cannot be requested again for the same
reason, a failed refund of a stale purchase leaves its earning frozen for good, an order whose paid
extra revision was refunded while active can never be delivered, a checkout whose answer is lost never
recovers, and a replacement of a password writes the version it saw plus one: if another replacement, a mailed change
or a sign-out everywhere has counted on since it looked, it gives that version out again, and a session begun
with it in between may survive (`overtaken` in `LaravelAccounts`). On the screens no button cancels a
request, a stale purchase hides the purchase of later ones until it is refunded, and some buttons
are shown during a dispute or after a deadline although the service refuses; `OffersStand` names them.
The phone has no payment once work has begun, no claims, extra revisions, answers to disputes or refunds;
`NothingWithheld` is about the two web screens, `OffersStand` about all three.

## What is proved

TLAPS checks the theorems for every value of the constants, under the named assumptions of the modules
(windows and limits are natural numbers, identifiers of one kind are not of another, and `MarketIsSane`
in `Intake`: prices, rates and times as `CreateServiceDto` and `UpdateProviderProfileDto` admit them).

* **`OrderLifecycleProofs`.** The invariants of one order are not inductive alone: an
  extra revision is opened by a payment that may come at any time, and to see that it cannot open a
  second one, the proof must know that a delivery under review has had no revision that takes the work
  back (`FreshDeliveries`); to see that a freeze is lifted by its own dispute, that one dispute is
  active (`OneActiveDispute`); to see that completion finds the earning, that work starts only when
  paid (`WorkIsPaid`); to see that nothing is held before the order is agreed, that nobody pays for or
  disputes a request (`AgreedFirst`). `IInv` is their conjunction; there is a lemma for each action, with
  a step for each part the action can disturb, and frame lemmas for the rest. `TypeCorrect`,
  `SingleRevision`, `ReviewOfLatest`, `RevisionsWithinPrice`, `CreditedForPayments`,
  `FreezesAccountedFor` and `ReleaseNeedsCompletion` follow.

  From the same invariant, `ImplementsEscrow` shows step by step that an order is an `Escrow`: initial
  states map to initial states, and every step of the three services moves phase, funds and hold as one
  step of `Escrow` or not at all. `DisputeSuspendsOrder` is the action property that a dispute stops all
  but the start of the work. For the review clock `ClockInv` adds what a dispute that interrupted the
  review holds of it, so that time passed, time left and time held make up the window; `TimeoutIsFair` and
  `WindowIsKept` follow. The second says nothing of an order of which the client has won a dispute, not of its later
  windows either: a review that such a dispute held is not resumed.

  The screens are compared with the services without `ENABLED`: the guards of a service are named
  operators of its action, and `Offers` asks them. `NothingIsWithheld` and `OffersCanBeTaken` need more than `IInv`: a
  screen looks at the latest dispute and the latest purchase only, so `OffersInv` adds that
  they come in the order of their numbers: no earlier dispute is active, and a purchase is of a delivery that exists.
* **`CheckoutProofs`.** `CheckoutInv` says what each step of a call knows of its payment: a claimed
  payment is REQUIRES_ACTION and has no session until its one caller opens it. It gives
  `OneCredit`, `OneActor`, `PaidOnEvidence` and the action property `PaidOrderStaysClosed`.
* **`RefundSubmissionProofs`.** `RefundInv` ties the row to PayMongo's side: what a request in
  progress may assume (`CallInv`), what a report proves (`ReportInv`), and who holds charge and earning in
  each status (`MoneyInv`). A thawed earning and the ledger entry of a failed refund go
  together, which is why a dispute opened after the failure is safe from a repeated report. It gives
  `OneSubmission`, `BooksAgree`, `OutOfReach`, `FreezeOutlivesRefund` and the action property
  `SucceededIsFinal`.
* **`PayoutsProofs`.** `PayoutInv` holds what each statement of a payout request knows: the earnings it
  found are free or taken by others under locks it waits for, what it reserved is its own, and the ledger has
  one entry for each move. Its one hypothesis is `~OldDecision`: with an older decision for the client
  a refund may freeze what a payout has reserved, which `payout_race` shows. It gives `ReservationsHold`,
  `StatementsAddUp` and, step by step, the refinement `PayoutsKeepCustody`.
* **`MarketplaceProofs`.** Prices: rounding up takes at least the exact share and less than one centavo more; a
  quote adds up and is payable; the fastest rush a service allows is offered, and rush is sooner than
  normal. Orders: `MarketInv` says what each statement of a creation or an acceptance knows: under the
  provider's lock the count it has read has not grown (`RoomLeft`), a price it has read was offered
  (`PricedRight`), a key names one order (`KeysUnique`). It gives `RepeatsGetTheSameOrder`,
  `OrdersCanBePaid` and the action property `LimitsHold`, which is about the limit a transaction has read: the
  provider may have lowered it since. Listings: `CatalogueInv` says what a tab or an
  administrator has looked up and may still rely on, and that a file is in one listing or one tab's
  hands (`FilesApart`); it gives `RevisionIsPrivate`, `NoRowWithoutFile` and `NobodyWaitsInVain`, the first two
  with the exceptions their properties name.
* **`AccountsProofs`.** `RotationInv` says what a rotation holding the row's lock knows of the
  token and that the unused token of a live family is the latest, with sign-ins and sign-outs everywhere in
  their single steps; it gives `EndedStaysEnded` and
  `RotationsInLine`. `ChangeInv` says what each tab and page has found of a mailed change and gives
  `ChangedOnce`; `AttemptInv` bounds the attempts by a set of answers under way and gives
  `GuessesBounded`: `MaxAttempts` wrong answers, and one more for each other request at work. In the
  Laravel backend, where most requests take no lock, nothing keeps a user from
  changing under a request; what holds is that whoever is signing in, and every session that lives, has a
  version and a password that were the user's at one time (`SeenRight`), and that every new password came with a new
  version, but for the versions a replacement counted over unseen (`overtaken`). That alone gives `OldPasswordsOpenNothing`: the
  revocations of sessions are not needed for it.
* **`MessagingProofs`.** `QuietInv` relates the hiding mark to the newest message, given that a message is
  stamped and unhides in one transaction (`HiddenStaysQuiet`); `WatchInv` relates the registry, the
  room and the timers of a socket at every stage of its authentication (`ServedSocketsWatched`). `ShownInv` is
  about refreshes that overtake each other: the one a workspace waits for has not read the list yet, or has
  read all that was listed before, since only the answer to the refresh begun last is shown. That the list in
  order of writing exists and has the messages of the set, each once, is shown by the rank of each message, with no
  induction over the list. It gives `ListedStaysShown` and
  `NothingShownTwice`.
* **`BackendsProofs`.** One order in either backend, with its refunds and payouts. `LifeInv` is inductive where
  the properties are not: an earning has been paid for (`PaidForEarnings`), an extra revision is bought for
  a delivery that exists and begins with its activation (`PurchasesOfDeliveries`), one dispute holds an
  earning at a time (`HeldByOne`), a refund under way has its earning frozen by itself or by a
  dispute that froze it before (`UnderRefund`), what an administrator's refund has read still stands or a payout
  took it (`PreparationStands`), an earning leaves by one payout (`OneWayOut`). The two backends write
  the same rows in different orders and with different guards, so the proof has a middle layer: a
  dozen moves of the rows (the work goes on, completion releases, a charge is opened or paid, a dispute opens
  or gives back, a refund is prepared, succeeds or fails, a payout takes). Each step of NestJS and each of
  Laravel is shown to be one of them (`NestMoves`, `LaravelMoves`), and each move to keep `LifeInv`, once for both. It gives
  `FreezesHaveReasons`, `MoneyOneWay`, `WorkOrMoneyHolds`, and `OffersOfRefundsStand`: a refund the NestJS backend
  offers the client is one it accepts.

  The same moves show that either backend implements `Escrow` with returns (`BothKeepThePromise`). The mapping
  has to tell of a frozen earning whether it was released before: `Released` finds out from the dispute
  or the refund that froze it, since both note what they found. That completion releases
  exactly what is free, and that nothing was released before it, needs `PromiseInv`: nobody
  starts work unpaid or pays for work begun (`PaidBeforeWork`; in Laravel the start reads the payment before it
  writes), and of an extra revision being refunded nothing can thaw the earning (`ExtrasStayFrozen`). The second does
  not hold for the order's own payment, which a dispute opened before its confirmation never froze: a second
  dispute may thaw it under a refund, and the mapping has it on hold all the same. In single steps,
  `RefundsInv` says that one worker submits a refund and that what any worker was told is true of it
  (`RefundsAreHonoured`), and `CheckoutInv` that a call which claimed a payment is alone with it and that
  a payment nobody has claimed has no session (`OneSession`).

Only model-checked:

* the liveness properties (`ReviewConcludes`, `PaidSessionSettled`, `RefundConcludes`, `ReviewsConclude`, `CatchesUp`,
  `DeadSocketForgotten`, `WaitsBehindOthers`): the provers know neither fairness nor `ENABLED`;
* the runs that find a disagreement.

## What is not modelled, and why

* Reads that change nothing (lists, pages of the inbox, reports), wording, notifications, the cipher of
  account numbers, parsing of PayMongo's answers and of the environment.
* Registration, social login and the codes sent by e-mail: they are forms and mails around single statements.
* Files: upload and removal of a listing's files are modelled; the limit on their number, and files of
  messages, disputes and deliveries are not. The catalogue counts files before it adds one, so two tabs can
  pass the limit by one.
* The single steps of the payment of an extra revision: the same code as `Checkout` with another type.
* Messages sent again without an identifier are two messages, in the code as in the model's absence of retries.
* The flag in the browser's `sessionStorage` by which the order page remembers that a payment waits to be
  verified; `Offers` has what the page shows from the order itself.
* A mail that is reported as failed and arrives all the same: `PasswordChange` takes the report as true.
* The token buckets: one synchronous step in the memory of one process.
* MAUI, which presents the same API; styles, layout, routing and storage of the clients.
* Deployment scripts.

What a next step would take up: the phone's payments and the desks of administrators and providers in `Offers`,
and a refinement from the single steps of `Checkout`, `RefundSubmission` and `LaravelRefunds` to the one step each
takes in the life of an order.
