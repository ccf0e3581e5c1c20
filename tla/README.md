# Verification of the NBCC charity site

TLA+ modules of the parts of this repository where several processes, Stripe, the email provider and
a clock meet, the TLC configurations that check them on small instances, and TLAPS proofs of what
matters most for every value of the constants. Paths below are relative to `src/` (the application's
own code is in `src/src/`).

Checking: `tlc -config TicketSales_live.cfg MCTicketSales.tla` (and so on: a configuration belongs to
the MC module of its prefix); `tlapm TicketSales_proofs.tla` (and so on).

## The system

One Express and TypeScript web server over PostgreSQL. It runs as one or more tasks on ECS, deployed
by rolling over, so two copies overlap at times, and nothing in memory can be relied on: mutual
exclusion is row locks, conditional `UPDATE`s and `FOR UPDATE SKIP LOCKED`. Payments go through
Stripe Checkout, whose webhook may call late, twice or out of order; email goes through SES. Beside
the web server run a 20 second newsletter tick in every task, a daily task (reminders, chasing,
unsent emails), a nightly backup and one-shot scripts.

| Part | Keeps | What is hard | Here |
|---|---|---|---|
| Event tickets: sales (`db/event-tickets.ts`, `routes/event-tickets.ts`, `tickets/`) | events' types and limits, orders with holds that expire | several checkouts of one event, holds against Stripe's open checkouts, payments after the hold, crashes between the steps of a request | `TicketSales`, `OrderLife` |
| Event tickets: refunds (`reconcileRefunds`, `beginRefund`, `postAdminRefund`) | refund intents, what Stripe made, refunded tickets, requests | lost answers, idempotency keys that run out, two admins, refunds made in Stripe itself, late failures | `TicketRefunds` |
| Event tickets: disputes and emails | flags, unsent emails | events out of order; claims without a lease | not modelled |
| Newsletter sending (`newsletter/send-worker.ts`, `db/newsletter-send-jobs.ts`) | a job, a queue row per recipient | several ticks at once, crash in a batch, provider full, daily cap, pause and cancel | `NewsletterSend` |
| Newsletter lists, SES events | lists, suppressions, delivery events | events out of order, claim of a draft | not modelled |
| Donations and Gift Aid (`db/stripe-webhook.ts`, `donations.ts`, `declarations.ts`, `claims/`) | event ledger, donations, declarations, claim batches | events out of order, a refund and a batch at once, a declaration cancelled between two charges | `GiftAid` |
| Monthly gifts (`handleRecurring`, `handleDunning`, `subscriptions/`) | donations of renewals, `subscription_dunning` | one invoice told by two events at once, rows read without a lock, an end that overtakes its checkout | `Subscriptions` |
| Festive Ball and ticket transfers (`db/ball.ts`, `ball/`, `db/ball-transfer.ts`) | settings, bookings, reservations, holds | one room sold as seats and as tables, a claim handed from one table to another, payments that come late, checkouts that are replaced | `BallBookings` |
| Sponsor pledges (`db/pledges.ts`, `routes/pledges.ts`) | a pledge, its checkout | several tabs, Stripe and the database failing between two steps | `Pledges` |
| Invoices (`db/invoices.ts`, `invoices/`) | an invoice, its donations, the note to staff | card and transfer at once, one payment told twice, staff and payer at the same moment | `Invoices` |
| Admin accounts (`db/admin-users.ts`, `routes/admin-users.ts`) | users, their roles and rights | the last two who may run the team act on each other; a link checked before its user is disabled | `AdminTeam` |
| Donor portal, sign-in codes | magic links, codes | one use, attempts, expiry | not modelled |
| Fundraising pages, business fulfilment, elf school, red bag workshops, outreach | one row each with a status; places | mostly pages and emails; places as in tickets | not modelled |
| Backup retention, daily task, reconciliation | files; what the others keep | claims of unsent emails | not modelled |
| Stories, contact, letters, analytics, ticker, QR, browser code, infrastructure | content | I/O and formatting | not modelled |

`PROJECT.json` lists every part with its sources and the reason it is left out, if it is, and the
hazards of this code each at its line.

How they interact: the ticket checkout calls Stripe between two transactions; Stripe calls the
webhook, which records the event's id in `stripe_webhook_events` in the same transaction as its work
and answers 5xx when that rolls back, so Stripe sends it again; refunds go the other way (written
down first, then asked of Stripe, then reconciled) and come back as events too; sales and refunds
share the order's row and the count of tickets taken (`ReleaseTickets` in both modules). The Ball, the
invoices, the pledges and the monthly gifts go through the same webhook (`processWebhookEvent`) and
the same ledger, each with rows of its own: apart from the webhook's transaction, which every module
that needs it models, they share no state, and so they are modules side by side.

## The modules

### TicketSales: selling the tickets of one event

State and code:

- `status`, `lines`, `holdExpiresAt`, `attached`, `refunded`, `paidLate` are the columns of
  `event_ticket_orders` and its lines; `salesLimit`, `salesClosed`, `quantity`, `onSale` the settings
  and types; `lock` is the row lock `reserveOrder` takes on the event's settings; `ledger` is
  `stripe_webhook_events`.
- `session`, `closesAt` are Stripe's checkout; `url` says the buyer has been sent to it.
- `pc` is how far a request (`postTicketCheckout`) has gone: supersede the same buyer's older orders
  (close at Stripe, then cancel), `reserveOrder` in a transaction (begin, lock, commit), open the
  checkout, attach it (five minute hold becomes the checkout's), answer. A request may crash between
  any two steps, Stripe's and the database's answers may be lost.
- A transaction's `now()` is when it began, and its writes are seen when it commits: `BeginReserve`,
  `Reserve`, `CommitReserve`, and `HookBegin`, `MarkOrderPaid`, `HookCommit` are separate steps. That
  is where the interesting interleavings are.
- Staff change limits, types and what is on sale, cancel free bookings and release tickets.
- `givenBack` is history: the order's places have been back on sale at some time. Capacity is
  promised to the others; a payment taken after its hold ran out is honoured and flagged.

Left out: the organiser's proposals and their approval, price changes, captcha, rate limits, pages.

### OrderLife: what an order promises

The abstract specification: an order's places are `none`, `kept`, `back` or `sold`, and its money
`none`, `asked`, `taken` or `free` (nothing to pay). Money is asked for only while places are kept,
places given back are never kept again, and an order with a price is only ever sold for money taken.
`OrdersLive` in `TicketSales` is the refinement, with `Place` and `Money` as the mapping; it has to
hold through every interleaving of holds, attachments, expiry and payment, so it finds what the single
invariants miss (a hold run out and brought back, for one). A sale may come after the places went back:
a payment that arrives late is honoured, and a free order is confirmed without a look at its hold.
`TicketSales_proofs` proves the refinement; `sales_live` checks it with a free type and a priced one.

### TicketRefunds: the refunds of one paid booking

- `rows` is `event_ticket_refunds` in order of id (an intent is `pending` until Stripe's list shows
  it, then `done`, or `failed`); `refunded`, `refundedPence`, `failedFlag` the order; `requests` the
  buyer's refund requests; `lock` the order's row lock, held while Stripe is asked for its list.
- `made`, `answers`, `events` are Stripe: the refunds of the payment, the idempotency keys it
  remembers (for `KeyHours`), the events not taken yet.
- `job[p]` is what an admin's request or the webhook is at: list, apply, tell, begin, ask, refused.
- `Reconcile` is all of `reconcileRefunds`: own refunds made, refunds made by hand in Stripe (in full
  they release every ticket), refunds that failed at the bank, intents too old to ask again, money,
  flag. Its parts are operators of their own (`Completed`, `Fresh`, `NewlyFailed`, `LetGo`, ...).
- Hours pass with `Tick`; a call to Stripe takes `MaxCall` at most. `IntentHours + MaxCall < KeyHours`
  is the code's 23 hours inside Stripe's 24, with the time of a call.

Left out: disputes, claims of unsent emails, the words of emails; two bookings at once (they share
only the event's count, which is `TicketSales`).

### NewsletterSend: one newsletter's send job

- `job`, `due`, `day` are the job's row; `status`, `attempts`, `age` (since `claimed_at`),
  `lastError`, `sentToday` the queue's columns; `summary` the newsletter's delivery summary.
- `worker[w]` is a tick of `runSendTick` at one of its statements: sweep, list, mark running, allow,
  claim, look for given-up rows, revive, then send and mark row by row, finish, write the summary.
  Ticks of several workers interleave at every step; any of them may die, with its rows claimed.
- The provider takes, refuses, or is full; its answer may be lost after it took the message.
- There is no clock variable: a row's age stops at `Grace + 1`, so the state space is finite without a
  bound on time, and liveness means what it says. `CapOn` is the cap of the first, second, ... day.
- `Init` starts with no job, or with one queued by the version before TASK-302, some of whose rows
  were given up on for want of capacity: those are what `ReviveRecipients` is there for.

Left out: several jobs at once (a tick takes them one after another), `newsletter_sends`, a newsletter
deleted mid-send, the claim of the draft before the job is made.

### BallBookings: the room of the Festive Ball

- `settings` is the one row of `ball_settings`, `lock` its `FOR UPDATE`; `status`, `cancelledFrom`
  `ball_bookings` (and `ball_holds`), `reserved` the live rows of `ball_reservations`, `aged` the card
  bookings more than an hour old, which `SOLD_SQL` no longer counts; `session`, `told` Stripe.
- Requests are by card, by transfer or a named hold of staff's. `LockSettings` takes the lock and reads
  what is sold; `Claim` reads what is reserved and held, checks and writes. They are two steps because
  they are two READ COMMITTED statements: between them a card request may write its booking
  (`CreatePendingBooking`, no lock) and let its reservation go.
- The arithmetic (`CanFulfil`, `SeatsRemaining`, `TablesRemaining`, `Overfull`) is `capacity.ts`: a seat
  breaks a table, and a broken table is not sold whole.
- `causes` is history: which of the four things the code cannot prevent has happened. Of time only the
  order of the deadlines is kept; `SlowStripe` says whether a reservation may run out before Stripe
  answers.

- The first state holds nothing back (`held` is 0 until staff change it, as the migration has it), so
  the room is not overfull before anybody came.

Left out: guests' details and menus, prices, reminders, the deadline of a hold (it may end at any time).

### GiftAid: a donation on its way to a claim

- `row[g]` is the donation with its Gift Aid, payment, refunds, claim status, batch and confirmation;
  `revoked` the cancelled declarations; `stripe`, `events` what Stripe knows and still has to tell, in
  no order. Gifts are by card, by BACS (paid days later), by tap (a link to declare comes by email), or
  a renewal of a monthly one.
- A refund or a settlement reads the donation (`ReadDonation`) and writes it later (`HandleRefund`,
  `HandleAsyncPayment`), with no lock in between; several may be `reading` at once. What staff and
  donor do (`BatchDonation`, `CompleteDeclaration`, `CancelDeclaration`) locks its row and is one step.
- `batchedAt`, `written`, `given` are history.

Left out: companies' gifts (never claimable), revising a declaration, sending a batch to HMRC (it
changes no donation), the audit log.

### Subscriptions: a monthly gift after its checkout

- `sub`, `charge`, `events` are Stripe; `claimed` the ledger, `gifts` the donations of each renewal,
  `row` the row of `subscription_dunning`; `job[d]` a delivery: claimed, waiting for the invoice's
  advisory lock, about to read the row, about to write.
- `NextStatus` is the table of `dunning.ts`, `Decision` what `handleDunning` makes of it by the row it
  read, `Written` the `UPDATE` over the row there is by then.

Left out: the first invoice, the count of failed attempts, emails.

### AdminTeam: who may run the admin site

- `users` is the table as committed; `lock` the advisory lock `TEAM_MUTATION_LOCK`; `req[r]` a staff
  request: the two looks with no lock, then for each change lock, write, count again, commit. A patch
  may ask for a role and a status, which are two transactions. `visit` is the opening of a link.
- A row written and not committed is locked (`RowFree`), its new value seen only by its transaction
  (`After`).

Left out: sign-in codes and sessions, names, expiry of links (a link may go unused at any time).

### Invoices: one invoice for a donation

- `invoice`, `gifts` are its row and its donations, `session` the checkout of each minute's idempotency
  key, `due` and `told` Stripe's events (one payment may be told of under two ids), `visit` the payer's
  requests, `press` staff's Mark paid, `alerts` the note that an invoice was paid twice, at its steps.
- `settleInvoice` and `saveGiftAid` lock the row first, so each is one step; what a route looked at
  before it may be old.

Left out: wording, PDF, receipts, sending.

### Pledges: one sponsor's pledge

- `pledge` is the row of `sponsor_pledges`, `payments` its donations, `tab[t]` a request to pay at one of
  its steps: read, close the checkout it read (or ask Stripe whether it is paid), create its own, save
  it over the one it read, send the sponsor there. Any step may fail, which counts as a fault, or the
  request die, which does not.
- `Webhook` is a payment told. Its two looks at the pledge, `guardPledgePaymentSafely` (drop the
  declaration if the pledge is paid already) and `settlePledgeSafely`, are each behind a savepoint and
  may each fail, which counts as a fault: the payment is recorded all the same. A guard that failed
  leaves the session its declaration (`CarriesGiftAid`), a settlement that failed the pledge unpaid;
  `payments` keeps of each whether it was `guarded` and `settled`.

Left out: the pledge before it is confirmed, emails and chasing.

### Desk and Payments: parts side by side

`Desk` puts the admin team, an invoice and a pledge into one specification (`DeskSpec`), `Payments` the
Ball, a monthly gift and gifts on their way to a claim (`PaymentsSpec`). Each names the state of its
parts, makes them instances of the modules above, and chooses in its first state (`desk`, `part`) which
one runs; the others keep their first state. The parts share no state in the code either, so a
behaviour of the composition is one of a part, and a property of a part holds of the whole if and only
if it holds of the part: `BallByItself` says so of the Ball. `MCDesk` and `MCPayments` only give values
to the constants.

## The runs

Two values of each kind are used, as nearly every hazard is between two actors: two requests, two
admins, two ticks, or one of them and the webhook. Times are small numbers in the code's order (hold
shorter than checkout and so on). Bounds named `Max...` are the model's.

| Run | Shows | Size |
|---|---|---|
| `sales_mixed` | `Capacity` and `TypeOK`: two buyers and the last place, free and paid types, staff changes | 1.2 million states |
| `sales_live` | `PayableHeld`, `HoldCap`, `CancelledNeverPaid`, `OrdersLive`; live: `PaymentRecorded`, `CheckoutEnds`: one buyer asking twice, for a free type or a priced one | 0.4 million |
| `sales_oversell` | violates `NoSilentOversell` (below) | |
| `refunds_hand` | `MoneyAgrees`, `AppliedWhenMade`, `ReleasesCovered`, `ToldOnce`, `TypeOK`: admin, webhook, dashboard, ageing intents, a call to Stripe that takes an hour | 7.1 million |
| `refunds_two` | `PaidOnce`, `TicketPaidOnce`: two admins, calls that take time, keys that run out; or two refunds of one line | 4.7 million |
| `refunds_live` | `RequestsTrue`; live: `EventsTaken` | 0.6 million |
| `newsletter_queue` | `SentOnce`, `CapHolds`, `TerminalStays`: two ticks; they race for a day's cap of one with three recipients, or, uncapped, meet a crash, a full provider, old failures and an admin | 9.2 million |
| `newsletter_live` | `TypeOK`, `GivenUpExplained`; live: `SendEnds`: one worker, a cap that grows by day | 1.5 million |
| `newsletter_unfair` | violates `GivenUpRefused` (below) | |
| `payments` | the Ball: `RoomKept`, `PaymentKept`, live `SeatsComeBack`; a monthly gift: `RenewalOnce`, `EndKept`, live `EndRecorded`; claims: `OnlySettledClaimed`, `AdjustmentRecorded` | 1.8 million |
| `desk` | the team: `TeamKept`, `OnlyStaffReactivate`; an invoice: `PaymentOnce`, `InvoiceDeclaredOnce`, `AlertOwed`; a pledge: `PayableOnce`, `PledgeDeclaredOnce` | 4.3 million |
| `gift_cancelled` | violates `CancelledNotClaimed` (below) | |

Four runs are of several parts, of which the first state chooses one: `payments` and `desk` (above),
`refunds_two`, whose `MCTwoAdmins` has two bookings of different constants, and `newsletter_queue`,
whose `MCTwoTicks` has two sends of different constants.

Why the bounds are enough: `Capacity` needs two orders and one place; superseding needs two requests
of one buyer; a payment after its hold needs the clock to pass one hold and one checkout, which
`MaxClock` allows with a step to spare; paying twice needs one intent, two askers and a key that runs
out; a batch cut short needs two recipients in it. The day's cap is passed by two ticks that both look
at what is left of it before either claims: two workers, a cap of one, a recipient each and one to
spare. (Of the uncapped race `CapHolds` says nothing.) Without what `CapHolds` allows to the second
tick it is violated there, so the race is reached. The Ball's last table needs a
seat and a table wanted at once, by a card buyer and one other, in a room of one or two tables of two
seats; a renewal told twice needs two deliveries; an adjustment lost needs one gift worth two refunds;
orphaning a team needs two people and two requests; a second checkout of a pledge needs a tab that
opens one, a tab that replaces it, and a third that read in between. Deadlock is not checked except in the newsletter runs: with
every request done and the clock at its bound the others really stop.

### What disagrees with the code's own words

- `NoSilentOversell`: a late payment works out whether the event is over its limit without the event's
  lock (`db/event-tickets.ts:728`), while an order is being reserved for the place it had given back.
  Neither transaction sees the other; the late payment commits as within the limit, the order is paid
  in time and so never looked at: oversold, and no order says so.
- `GivenUpRefused`: a deferral leaves the rest of its batch claimed with an attempt spent; somebody
  never tried can be given up on at their first refusal (`newsletter/send-worker.ts:186`).
- `CancelledNotClaimed`: a renewal inherits the declaration of the subscription's first donation
  though the donor has cancelled it (`db/stripe-webhook.ts:1018`), and becomes eligible, where
  `db/declarations.ts:216` promises that no further claims are made.

The modules state further promises that do not hold; they have no run of their own, but TLC refutes
each within a minute when it is named in a configuration:

- `FreeCap` (`TicketSales`): `confirmFreeOrder` does not look at the hold, so a slow request can be
  confirmed after its place under the cap has been used again (`db/event-tickets.ts:632`).
- `AllLateTold` (`TicketSales`): the same oversight by two late payments, whose webhook transactions do
  not see each other. It needs the clock to pass two holds one after another (`MaxClock = 6`, as in
  `TicketSales_oversell.cfg`).
- `SecondNeverDeclared` (`Pledges`): "A second payment must never write a second declaration"
  (`db/pledges.ts:484`), but a guard that fails is swallowed (`db/pledges.ts:585`) and the second payment keeps its
  declaration. `DeclaredOnce` (`PledgeDeclaredOnce` in `Desk`) is what is true instead.
- An intent let go while a call for it is open (`LetGoEarly` in `TicketRefunds`; `event-tickets.ts:935`):
  the call began within the intent's 23 hours, another reconcile runs just past them, finds nothing at
  Stripe and lets the intent go; the call then makes the refund, and nothing applies it, though
  `event-tickets.ts:1218-1220` has it that an intent is "only let go if it did not". `AppliedWhenMade` and
  `TicketPaidOnce` leave out this case only: a refund that Stripe made past the hours of its intent, which was
  let go. The runs have calls that take time, so it is reached.
- `NeverByOurOwnHand` (`BallBookings`; `ball/capacity.ts:60-62`): a booking handed over between the two
  reads of somebody with the lock, or a reservation that runs out while Stripe is slow, overfills the
  room by the code's own hand. `RoomKept` is what is true instead.
- `LapsedIsTerminal` (`Subscriptions`; `subscriptions/dunning.ts`): a delivery that read the row before
  it lapsed writes its status over. `EndKept` is what is true instead.
- `ClaimedUnderOne` (`GiftAid`): a tap claimed as a small donation can have its declaration completed
  and be claimed under Gift Aid too.

Smaller disagreements are in the notes of the hazards: the failed refund flag that a later failure
overwrites, the summary that a send finished by an idle tick never gets, a rate of one or two a minute
that never sends, a batch that outlasts the sweep, a second refund of a gift that owes an adjustment
(it throws), a subscription that ends before its checkout was recorded (never recorded as ended), a
refund that writes over a batch it had not seen, a refund request that is declined while its refund is
on its way, a third payment of an invoice stamped as told with the second.

### Fairness

- `TicketSales`: a running server goes on with a request (weak fairness of each request's steps, which
  a crash may end) and Stripe delivers an event until it is taken. Aborted deliveries are finitely many.
- `TicketRefunds`: Stripe redelivers, so from some time on a delivery is not cut short (`CutShort`),
  and the webhook is not starved of the order's lock for ever (strong fairness: PostgreSQL's row locks
  queue); an admin's open transaction ends. Nothing makes an admin do anything.
- `NewsletterSend`: the timer of every server ticks, time passes, the scheduled time comes; crashes and
  refusals for capacity are finitely many; `PerTick` is at least 1 in the run. The property assumes
  that the send is not left paused or cancelled. Nothing else is assumed of the admin.

- `BallBookings`: time passes (a checkout closes, a booking grows an hour old, a reservation runs out).
  Nothing is asked of the server, the webhook or staff: `SeatsComeBack` holds though all of them stop.
- `Subscriptions`: a request at work goes on, and Stripe sends an event until it is acknowledged; lost
  answers and dead requests are finitely many.

## The proofs

Every invariant and every safety action property that a passing run checks is also a theorem, for every
value of the constants under the assumptions named in the modules. The assumptions say that sets of
actors are finite and disjoint and that quantities are natural numbers; those that say more are:

- `CheckoutTime <= HoldTime` (`TicketSales`): `CHECKOUT_MINUTES` and `HOLD_MINUTES`.
- `IntentHours + MaxCall < KeyHours` (`TicketRefunds`): 23 hours and the time of a call are inside
  Stripe's 24.
- `MaxBatch <= Grace` (`NewsletterSend`, `BatchAssumption`): a tick is done with its rows before they are
  swept. The code hopes so and does not enforce it (`db/newsletter-send-jobs.ts:219`). All of that
  module's theorems but `EndedStays` rest on it.
- `CapOn` never falls from one day to the next, and is there every day or none: what `dailyCapFor`
  gives as long as the deployed `NEWSLETTER_DAILY_SEND_CAP` stays what it is while a send runs.
- `0 \in HeldSeats`, `Wants` of at least one seat or table (`BallBookings`).

None of the properties below is inductive. What each proof adds is the reason the code is right.

**SumTheorems.** The specifications count places, tickets and pence with `SumFunctionOnSet`. This module
says what such a sum is: that the order of the elements does not matter, that one element can be taken
out, how the sums of two functions or of two sets compare, that a factor comes out. The library's
induction over finite sets takes an operator, which no backend here instantiates, so each induction is
written as an argument about a least counterexample (`SmallestSubset`, from the library's theorem
that the strict subsets of a finite set are well founded).

**TicketSales_proofs**: `TypeCorrect`, `NeverOversold` (`Capacity`), `HoldsAreCapped` (`HoldCap`),
`PayableIsHeld`, `CancelledStays` (`CancelledNeverPaid`), `ImplementsOrderLife` (`OrdersLive`), for any
orders, types, wants, limits and times. `IInv` adds to the types: `Flow` (what a request's step says of
its order: nothing exists before its transaction commits, no checkout before it is asked for), `Backed`
(an open checkout that a buyer has been sent to, or is about to be, belongs to a pending order whose
hold outlasts it: this is what makes `PayableHeld` survive the clock), `ClosedFirst` (a checkout closed
by a superseding request stays closed, so cancelling its order is safe) and `PaidFor` (a completed
checkout belongs to a pending or a paid order, so the webhook never revives a cancelled one).
- `NeverOversold`: the orders that hold places, the one being written included, fit every limit
  (`Held`). Only the transaction with the event's lock adds to them, and it counts all the others; every
  other step can only shrink the set, the quantities, or give the places back for good, and staff's
  changes are refused below what is taken. Then only sums are left.
- `HoldsAreCapped` is the same with buyers in the place of types.
- `ImplementsOrderLife`: `InitLife` maps the first state, and one lemma for each action shows of each
  order that it moves as `OrderLife` lets it (`Moves`) or stays (`Unmoved`). The hard ones are
  `SupersedeOrder` (by `ClosedFirst` no buyer can be paying for what it gives back), `Pay` and `Tick` (by
  `Backed` the places are kept while the money can be taken).

**TicketRefunds_proofs**: all seven invariants of the three runs and the types, for any booking, admins,
prices, hours and number of refunds. `IInv` says how the rows, Stripe's refunds and the requests in
flight fit together: a row that names a refund is its intent or a record of one made by hand, no two
name one, and one waits at a time (`RowsHere`, `RowsApart`); an intent's refund has its amount and is the
only one (`MadeHere`, `MadeApart`).
- `NeverPaidTwice` is `MadeApart`. It is kept because a call in flight is of an intent that was young
  when the call began (`AsksHere`), so, with `IntentHours + MaxCall < KeyHours`, Stripe still remembers
  every answer it gave for it (`AnswersHere`).
- `MoneyAlwaysAgrees`, `AlwaysApplied`: the list a reconcile works from may be old by the time it is
  written, so the money agrees only when no event is left. `EventsHere`: an event stays until what it
  tells of is in the booking, and whenever Stripe has changed since the list in hand was taken, there is
  one more, which the webhook at work does not answer for.
- `LateHere` is what is true of an intent let go: Stripe said no, or it answered past the intent's hours,
  or has not answered and they are over. A list that lacks a refund was taken before that refund was
  made, so an intent is never let go that Stripe had made in time. `AlwaysApplied` and `TicketsPaidOnce`
  need it.
- `TicketsPaidOnce`: the tickets of the refunds paid are among those released, and with the waiting
  one's they are no more than were bought; `beginRefund` looks at both under the order's lock, which is
  why a stale page does no harm.
- `ReleasesAreCovered`: what was ever paid back covers the released tickets *and* leaves the amount of
  the waiting refund to cover its own. That second part is the strengthening.
- `RequestsClosedTruly`, `NeverToldTwice`: who closes a request or tells the buyer is who recorded the
  refund, under the lock (`TellsHere`).

**NewsletterSend_proofs**: `TypeCorrect`, `SentAtMostOnce`, `GivenUp`, `CapKeeps`, `EndedStays`
(`TerminalStays`), for any workers, recipients and caps.
- `BatchesHere`: the rows in a tick's hands are `sending`, no older than the tick has held them, and in
  no other's hands. By `BatchAssumption` the sweep does not take them.
- `SentAtMostOnce`: a copy beyond those whose answer was lost is known, or about to be: its row is `sent`
  or the tick that sent it is at its mark (`CopiesHere`).
- `GivenUp`: every attempt of a row that is not sent is accounted for, except the one being made
  (`AttemptsHere`).
- `CapKeeps`: each worker may claim no more than what the cap left when it looked, and at most `PerTick`.
  The first to look adds nothing beyond the cap, each further one at most a tick's worth (`CapHere`,
  `LoadsKnown`); a new day's cap is no lower, so it cannot be passed by the change of day.
- `EndedStays`: each statement that writes the status looks at it in the same statement, so a listing
  that is out of date does no harm.

**AdminTeam_proofs**: `TypeCorrect`, `TeamIsKept` (`TeamKept`), `StaffReactivate`
(`OnlyStaffReactivate`), for any people and requests. That somebody is left was seen a step before the
commit. `IInv` adds why that look is still true there: only the request with the lock is in its
transaction (`OneTransaction`), the row it wrote is still there and the table with its change has a
holder (`RowThere`, `Remains`), which nobody else's step can undo: inviting and setting a password only
add holders.

**Desk_proofs**: the six properties of the run `desk`, as theorems of `DeskSpec`.
- `PaymentsOnce`, `InvoiceDeclarationsOnce`, `AlertIsOwed` rest on `GivenIsPaid`, which no action
  states: an invoice that has a donation is paid, and stays so.
- `PayableAtMostOnce`, `PledgeDeclarationsOnce` rest on `OneAtATime`: a checkout the sponsor may come to
  pay is the one the pledge keeps, until it is paid; and a request on its way to one of its own has seen
  the one it read closed for good. So when it replaces that one, nobody can pay it.
  `PledgeDeclarationsOnce` rests on `SettledIsPaid`: a settled payment has made the pledge paid, and it
  stays so, so every later guard sees it. It speaks of the payments whose guard ran.

**BallBookings_proofs**: `TypeCorrect`, `PaymentsKept`, `RoomIsKept` (`RoomKept`), for any buyers, orders
and rooms.
- `PaymentsKept`: `CardFine` says of each card request what the webhook will find: no checkout before
  its booking is about to be written, no payment before the buyer was answered, and a checkout that is
  open or paid has a booking that can still be paid, unless staff cancelled it.
- `RoomIsKept`: `capacity.ts` counts tables and breaks them into seats; `SeatsOrTables` shows that this is
  the same as counting seats, so a room that is not overfull is one whose places add up to no more
  than its seats, and sums can be compared. `Fitting`: unless one of the four causes has happened,
  they do. `Counted`: unless one has, whatever is sold was seen by whoever has the lock, or is still
  among the reservations it reads next. The check before a claim (`ClaimFits`) then leaves room for the
  claim, and every other step only makes the places fewer (`FewerFit`, `QuietStep`).

**Payments_proofs**: `PaymentsTypeCorrect`, `RenewalsOnce`, `EndsKept`, `SettledOnly`,
`AdjustmentsRecorded`, as theorems of `PaymentsSpec`, and `BallByItself`: `PaymentsSpec` implements the
Ball's own specification, so the Ball's theorems hold of it.
- `RenewalsOnce`: two events of one invoice have two ids, so the ledger keeps nothing apart; whoever
  means to insert a renewal's donation still sees none and is alone, by the invoice's lock (`JobsFine`,
  `OneInserts`).
- `SettledOnly`, `AdjustmentsRecorded`: a transaction decides on an old reading, so the invariant keeps
  what stays true of one: what is paid at Stripe stays paid, a declaration once on a donation stays on
  it, and an event that settles or refunds a gift is sent only once it was paid (`EventsTrue`,
  `ReadingTrue`); `RowsFine` ties eligible and batched rows to Stripe, and a batch to the refunds it was
  made with.

Only checked by TLC, because the prover does not reach it: everything that rests on fairness
(`PaymentRecorded`, `CheckoutEnds`, `EventsTaken`, `SendEnds`, `SeatsComeBack`, `EndRecorded`). The three
properties that are violated are refuted by TLC and cannot be proved, of course.

## Not modelled, and what comes next

Most of the repository's lines are pages, browser code, emails, reports and forms: what they keep is a
row written once, or text, and a model would say nothing of it that the code does not say itself. The
parts below have state worth a model and none yet, in the order they should come:

1. Ticket disputes and the daily task's emails: the flag that events out of order leave behind, claims
   without a lease, a crash between the commit and the email.
2. The claim of a newsletter draft, and the order of the provider's delivery events.
3. Sign-in codes and the portal's links (one use, attempts, expiry).
4. Places with a limit elsewhere (elf school, red bag workshops), fulfilment's stages, approval of
   fundraising pages.
5. Pure functions against reference definitions: backup retention, small donations and benefit limits,
   the newsletter's pacing.

Theorems worth proving next: that refunds and the newsletter implement abstract specifications of their
own (a ticket is bought, being refunded, refunded; a recipient is waiting, sent, or given up), as
`TicketSales` does `OrderLife`; exact statements of what the code does where a promise of it fails
(`FreeCap`, the rest of a deferred batch); and the invariants of the parts listed above, as they come.
