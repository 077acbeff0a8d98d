# The Tipping Jar, specified

TLA+ specifications of the tipping platform in this repository, TLC
configurations that check them on small instances, and proofs that TLAPS checks
for instances of any size. The specifications are of the Rust services under
`backend-rust/`, which replace the Django backend under `backend/`, and of the
web frontend under `frontend-next/`.

## The system

A fan tips a creator; the payment goes through the PayCloud gateway; the tip
appears in the creator's feed; whoever referred the creator gets a commission;
the creator withdraws the balance. Around that are accounts, profiles, emails
and an admin portal. Each service is one axum server with its own Postgres
database, and services call each other over HTTP. The frontend is one Next.js
application whose pages call the services from the browser.

**No service uses a database transaction, a lock or a queue.** A handler is a
sequence of autocommitted statements and HTTP calls. Every `await` is a point
where other handlers run, where the handler can end through `?`, where axum
drops its future if the caller hangs up, and where a restart
(`restart: unless-stopped`) loses it. What keeps the data right are `WHERE`
clauses, UNIQUE keys, `ON CONFLICT`, and the order of the steps.

**No page cancels a request or disables what it does not wait for.** What a
handler does after its `await` it does with the values of the render it was
started in, while the user goes on. What keeps a page right are busy flags,
`alive` flags in effects, and state that is keyed by what it is about.

That is what these specifications are about.

| Component | State | Operations | What is hard | What makes it correct |
|---|---|---|---|---|
| payments: flow | `transactions` (status, amount, `pay_url`) | checkout, notify, reconcile, charge, refund | webhook and polling race; repeated, late and refused notifications; effects after the UPDATE can be lost | completed only if paid; completed is final; effects at most once, and lost only with a failure |
| payments: payouts | `payouts` | request_payout, set_payout_status_internal, creator_balance | the sums and the INSERT are apart | no more is withdrawn than was earned |
| tips | `tips`, `pledges` | create_tip, record_tip, thank_tip, create_pledge | SELECT then INSERT without a UNIQUE key; capture then INSERT | one tip per payment |
| referrals | `referral_codes` | my_code, lookup_code | get-or-create in two statements | one code per user |
| scheduler | `signup_reminders`, `comms_log` | run_signup_reminders, run_daily_report, broadcast, send_thanks | emails cannot be undone; sweeps overlap and are cut short | one reminder per user, nobody left out |
| accounts | `users`, `otps` | register, login, request_otp, verify_otp, set_2fa, delete | a code read, then used; requests that overlap | a code verifies once; one code at a time |
| creators | `creator_profiles`, tiers, jars, posts, subscriptions, designs | create, update, KYC, unlock, subscribe, delete | deletion in four statements; resubmission against review | what was verified is what was seen |
| platform | apps and key hashes, audit log | register, verify_key, record_audit | records before the fact | the log says what happened |
| admin_portal | none | audit, then forward | the record may be lost, or precede a failure | as above |
| support, enterprise, blog, careers | one table each | single statements | little | - |
| Django backend | tips, streaks, milestones, pledges | Paystack webhook, verify, charge_pledges | webhook and verify race with different effects | one charge per month |
| web: image studio | canvas, selection, history, loaded design, gallery | draw, drag, undo, open, save, duplicate, remove | saving, listing and decoding wait while the creator draws, undoes, opens | a save goes to the design it is of; the gallery shows what is stored |
| web: dashboard | the tab, and in each tab its lists and forms | tabs, profile, thanks, updates, payouts, exclusive posts, jars, analytics | the URL and the tab follow each other; whole forms are saved; loads overlap; three calendars | nothing is saved that was not edited; nobody is thanked or mailed twice; what is shown is what is stored |
| web: account pages | token and user, forms, wizard | sign in, one-time code, register, onboard | windows share one localStorage; answers to an earlier text | the account shown is the account acted for |
| web: fan pages | amount and quote, order, email and posts | tip, pay, poll, unlock, subscribe | quotes, polls and unlocks overlap | the fees are the amount's; "received" is true; the posts are the email's |
| web: admin portal | lists, the row that is busy, the vetting dialog | approve, suspend, refund, settle, vet | two admins; a list that is out of date | nothing is settled twice from a list that was right |
| web: public pages; Flutter | none | presentation | - | - |

Interactions: `tips.create_tip` calls `payments.charge`; `payments.notify` and
`payments.reconcile` call `tips.record_tip`, then creators, accounts and
referrals for the commission; the scheduler reads the databases of tips,
creators and accounts directly; the admin portal calls the internal endpoints
of all of them. The pages share nothing with each other but the token in
localStorage and what the services keep.

`PROJECT.json` lists every component with what is and is not modelled, every
definition with the source lines it stands for, and the hazards of the code with
the properties that cover them.

## Modules

| Module | What it is |
|---|---|
| `Money` | the two roundings of an amount, fees, net and commission, as functions |
| `TipLedger` | the abstract promise of the payment flow: a payment moves `none -> pending -> failed -> completed`, completed is final, and a completed payment is shown at most once |
| `Payments` | checkout, notify, reconcile, charge, record_tip, credit_referrer, step by step, with the gateway and the payer around them |
| `Payouts` | one creator's balance and payout requests |
| `Reminders` | the sweeps of the signup reminders |
| `Studio` | the image studio: canvas, history, saving, gallery, over `studio_designs` |
| `Dashboard` | the creator dashboard, put together from: |
| - `Shell` | the tab and the `?tab=` of the URL |
| - `ProfileTab` | the profile form, `update_me`, the checklist that opens the tip page |
| - `Outreach` | thank-yous and updates: `thank_tip`, `message_supporters`, and the emails they have sent |
| - `Ledger` | transactions, figures and the payout button, over the payment tables |
| - `Vault` | the composer and list of exclusive posts, over their rows |
| - `Jars` | the campaign jars, what each raised, over their rows |
| - `Figures` | tips per day, from `creator_daily_stats` and the list of tips |
| `Pages` | the pages around the dashboard, put together from: |
| - `Codes` | `request_otp` and `verify_otp`, and the page that calls them |
| - `Session` | the token and the user of each window |
| - `Register` | the steps of registration and the lookup of a referral code |
| - `Onboarding` | the wizard, `create_creator` and its conflicts |
| - `TipPage` | amount, jar, quote and payment |
| - `Callback` | what a payer is told after paying |
| - `Reader` | unlocking and subscribing with an email |
| - `Vetting` | documents, the dialog, and the decision |
| - `Desk` | the lists of the admin portal and their buttons |
| `MoneyProofs`, `PaymentsProofs`, `PayoutsProofs`, `RemindersProofs`, `StudioProofs`, `DashboardProofs`, `PagesProofs` | theorems and proofs about them |
| `MCPayments`, `MCPayouts`, `MCStudio`, `MCDashboard`, `MCPages` | symmetry sets, the visits of the studio and the browsers' time zones, for TLC |

### Payments

The state is what the tables say of each payment reference (`status`,
`recorded`, `payable`, `aged`, `tips`, `commissions`), what the gateway says of
each order (`gw`, `gwAmount`, `notices`), and for each request being served the
await it is at and the locals that live across it (`req`). One action is one
statement or call with the pure code up to the next. `UpdateStatus`, `RecordTip`,
`InsertTip` and `CreditReferrer` are shared by notify and reconcile, whose code
for them is the same statement for statement. `CreditReferrer` is one action:
its four lookups only read, and the INSERT is idempotent on a UNIQUE reference.

A notification is any terminal status that the gateway ever had, delivered any
number of times in any order. `Drop` ends any request after any step.
`lost` is a history variable: the effects whose call failed or whose handler was
dropped. `MayOmitAmount` says whether a gateway message may come without an
`order_amount`, in which case the code compares nothing. `FallsShort` are the
requests whose product with 100 is, as a binary float, less than the half cent it
should be. `CallFails` is every way a call to the gateway can end in an error, an
answer with an error code included.

Reads that return without changing anything are stuttering steps and have no
action: an early return of notify is the absence of a `Notify` step.

The gateway's actions are an assumption about PayCloud, taken from how the code
uses it: an order is open, paid (2) or cancelled (1, 3); paid is final; a
cancelled order may be reopened, as nothing here relies on the opposite.
Signature checks are not modelled: only signed notifications are enumerated.

### Payouts

`earned` is the sum of `creator_net` over completed transactions, which only
grows (completed is final, by `TipLedger`). A request reads it, reads what is
withdrawn, decides, inserts: three actions. The operator may set any status on
any payout. Amounts are cents. One creator is enough: every statement selects by
`creator_id`.

### Reminders

Users are numbered by age, so that `due` and `past` say who is old enough and
who is too old. A sweep is asleep or holds its remaining candidates and what it
does next: look at profiles, email the first one, record it. The email and its
row are two actions; between them the sweep can be cut short, and the mailer may
report a failure although the mail server has taken the email. Either way no row
follows it; `unrecorded` counts these emails, and `MaxUnrecorded` bounds them. The
alerts to the admins change no state and belong to `Record`.

### The frontend

Each module has the React state of its component, the rows its requests read and
write, and the requests under way, with what each captured when it was started.
A request has two or three steps: it is sent, served (the row is read or
written), and answered; at each it may fail, and an answer that is lost leaves
the row written. A picture being decoded, a router that navigates and a timer
are waits of the same kind. Values are told apart by what they are about (a
canvas by the design it stems from, a text by the post it was written for, a
quote by its amount) and not by what they say.

A history variable says which of the things that the code does not guard against
have happened: an answer overtaken by a later one (`overtaken`, `behind`,
`crossed`), an answer lost (`untold`, `unsure`, `doubtful`), state captured
before a change and used after it (`raced`, `mixed`, `stale`, `outrun`). The
properties say that nothing *else* breaks what the page shows, and the mutants
in `PROJECT.json` say which line prevents it.

* `Studio`. `doc`, `past`, `future` and `fresh` are the history with its cap and
  the coalescing of edits; `gesture` is a pointer that is down; `loaded` is the
  design that Update writes, `home` (history) the one it should; `save`,
  `removing` and `lists` are the requests; `picture` is an image being decoded
  over the canvas of the moment it was dropped.
* `Dashboard` and `Pages`. The tabs of the dashboard are mounted one at a time,
  and the pages are separate documents, so that interleavings *between* them are
  not behaviours of the code. A behaviour therefore visits one part: `part` is
  chosen by `Init`, `Next` is the disjunction of the parts' next-state relations,
  and the variables of the others rest in one initial state. One run then checks
  all of them without multiplying their states.
* `Studio` also has `RemoveElsewhere`: the preview of the gallery above the
  editor, or another window, deletes a design and the editor is not told.
* `ProfileTab` has the bank details as they were when `get_my_bank` read them
  (`bankRead`), which may be before a save that is answered first.
* `Ledger` has the rows of both tables, the `LIMIT` of the two lists (`RowLimit`),
  the balance in its two sums, `request_payout` in its steps from this tab and
  from another window, and the admin who fails a payout or takes that back. A
  transaction is one unit of net; what overlap does to the sums is `Payouts`.
* `Figures` has three calendars: rows are keyed by South African days, the series
  names its days in UTC and counts from the list by the days of the browser, which
  is in any time zone (`zone`). An instant is a day and an hour; that the offset of
  a browser abroad changes twice a year is left out.
* In `Jars`, `overtaken` and `untold` are about the newest load: a load that is
  begun forgets both, as it will tell what happened before it reads.
* In `Vetting`, the dialog can be closed at any time, and its decision goes on
  (`abandoned`).
* `Codes` has the handlers' statements apart as `Payments` has them: a request
  retires the unused codes and inserts one; a verification selects and marks.
* `Callback` has the gateway's order, the row, and the notifications in flight;
  its `Reconcile` is the one of `Payments` seen from outside, and is held to the same
  promise: `RowKeepsPromise` takes its steps to steps of `TipLedger`.
* `Desk` has five lists that differ in what may still be changed: `Final` says
  whether a settled row is settled for good (payouts, disputes). Each handler of
  the services has its action; `FetchedNone` is the empty list that `admin_portal`
  answers when the service cannot be read.

## What the runs check

| Run | Question | Instance | Result |
|---|---|---|---|
| `PaymentsSafety` | types; `EffectsOnceAndEarned`; `CompletedWasPaid`; `EffectsAccountedFor`; does `Payments` implement `TipLedger`? | 2 orders, 1 capture, 3 requests at a time, amounts below the minimum, whole and with half a cent, half cents recorded above and below what is asked for, messages with amounts | holds, 1.8 million states |
| `PaymentsLiveness` | is what is paid completed, and what is completed shown? | 2 orders, 2 requests, messages with or without amounts | holds under `Fairness` |
| `PaymentsHalfCent` | `WebhookCanMatch` | R100.125 | violated |
| `PaymentsFailedThenPaid` | `OnlyPendingIsActedOn` | 1 order | violated |
| `PayoutsBounded` | how far can a balance be overdrawn? | 2 requests, 4 payouts, tips and commissions up to two tips' net, one failed payout taken back | `OverdraftExplained` holds; with one less in the bound it does not |
| `PayoutsOverdrawn` | `NeverOverdrawn` | 2 requests, 2 payouts | violated |
| `RemindersAll` | emails per user, recorded means emailed, nobody is left out | 2 users, 2 sweeps, one email of each user unrecorded at most | holds |
| `RemindersTwice` | `OneEmailEver` | 1 user, 2 sweeps, every email recorded | violated |
| `StudioAll` | does Update write the right design, is the gallery current, is the history capped, is the selection alive, does a save end? | 2 elements (one on the default canvas), 2 looks, 2 designs, a history of 2, and one of three visits: 3 edits; 1 edit and 2 saves; 2 saves and 1 removal | holds under `Fairness`, 1.6 million states |
| `DashboardAll` | eleven properties of the seven parts | 3 tabs and 3 moves; 3 fields and the bank details, 2 visits and 3 edits or saves; 2 tips to thank, 2 updates; 2 transactions and 2 payouts in lists of 1; 2 posts; 2 jars, 2 loads, 2 changes; 2 tips over 5 days of 3 hours, a list of 1, browsers west of South Africa, in it and east of it | holds, 2.0 million states |
| `PagesAll` | ten properties of the nine parts | 2 windows, accounts, users' pages, admins, rows, emails and tiers; 3 amounts; 2 or 3 of each request | holds, 4.3 million states |
| `OnboardingConflict` | `ConflictIsOwn` | one user, any path through the wizard | violated |

What the three frontend runs ask, part by part. Each property names, by its
history variable, the interleavings the code does not guard against.

| Part | Property | Says | Except |
|---|---|---|---|
| `Studio` | `LoadedIsHome` | Update writes the design the canvas stems from | opened or deleted while a handler waited |
| | `GalleryCurrent` | the gallery shows what is stored | an answer lost, overtaken, or crossed by a deletion; a design deleted elsewhere |
| | `HistoryBounded`, `SelectionLives` | undo and redo stay within the cap; keys never edit an element that is gone | |
| | `SaveEnds` | the save button comes back | |
| `Shell` | `TabFollowsUrl` | tab and URL agree | a navigation given up |
| `ProfileTab` | `SavesOnlyEdits` | a save changes only what was edited | the form was not filled from the row as it is, as when the bank details were read before a save and came after it |
| | `PromiseKept` | "your tip page is live" is true | unsaved edits |
| `Outreach` | `SentMeansThanked`, `ThankedOnce`, `MailedOnce` | what is shown as thanked has its `thanked_at` (the email may fail); no second thank-you or update | the first failed, was forgotten or crossed another |
| `Ledger` | `FiguresAgree` | figures asked for while nothing moved are the tables' and add up; a payout confirmed here is listed | what moved or failed meanwhile; more transactions than the list has; newer payouts |
| `Vault` | `PostsAsMeant` | no text or picture lands in another post | a picture ready when the composer held another draft |
| `Jars` | `JarsShown` | the jars and the sums shown are those stored | the newest load overtaken, or not able to tell: a failed read, a tip after its sums, a lost answer |
| | `CompletedIsFull` | a completed jar has reached its goal | |
| `Figures` | `SeriesCounts` | in South Africa each day counts its tips once; anywhere no tip is lost, or counted more than two days apart | at home midnight to two, when today has another name; the days around the beginning of the statistics |
| `Codes` | `SpentOnce`, `OneActive` | a code verifies once; one code verifies | verifications, or requests, that overlapped |
| `Session` | `SameIdentity` | the account shown is the one acted for | signed in or out before the first answer |
| `Register` | `StatusOfCode` | what is said of a code is of the code in the field | its own lookup failed |
| `Onboarding` | `WizardComplete` | every question of the branch was answered | |
| `TipPage` | `QuoteIsOfAmount` | the fees are the amount's | |
| `Callback` | `SettledIsTrue` | "received" is true, and "not charged" of an order that has failed | a link that says itself what to show; an order that failed and was paid after all |
| `Reader` | `VaultCurrent` | the posts are the email's, with its tiers | the email edited, or posts asked for again, meanwhile |
| `Vetting` | `VerifiedAsSeen` | what was verified is what was seen | changed since it was shown; verified from the table |
| `Desk` | `TwiceOnlyStale` | nothing is settled twice | from a list that was out of date |

Why these bounds are enough. Payments share nothing but request slots; the races
over one order are between notify and reconcile, so two requests reach each of
them and the third allows one more to come late. Two orders and a capture show
that nothing leaks between payments. In `Payouts`, two requests and one payout
that is taken back already reach the bound exactly, which is linear in both. In
`Reminders` two users are the least for which an order and "the users behind"
exist, two sweeps the least that overlap. In the frontend a race is between a
request and one other act of the user, or between two requests of the same kind:
two of everything reach it, and a third act lets something happen after it. Two
designs, posts, jars, tips, emails or rows are the least that can be confused.
Two codes are what `SpentOnce` and `OneActive` need to fail; the theorems have
any number. The lists that are cut at 50 and 200 rows are cut at one, so that
everything beyond the cut is reached; those cut at 60 designs and 100 posts stay
below it. A day has three hours instead of 24, which are enough for South Africa
to be ahead of UTC for a part of it and a browser to be off either way.
What TLC finds on these instances is proved for all of them where TLAPS can,
below.

Symmetry (of request slots, payout rows, windows, admins and the like) is used
for safety runs only. `CHECK_DEADLOCK FALSE` is set where the system may rightly
come to rest: all payments completed and shown, a balance of nothing, a user who
has done all that the bounds allow.

### What the violations show

* **Half cents.** `parse_amount` rounds half to even; `amount_2dp` multiplies
  the binary float by 100 and rounds half away from zero. A tip of R100.125, which
  a float holds exactly, is recorded as R100.12 and collected as R100.13; notify
  refuses the notification as an amount mismatch each time, reconcile leaves the
  row pending, and a payment that was collected is never completed. The other
  direction exists, too: where the product falls short of the half cent, as at
  16.115, an odd number of cents is recorded above what is asked for.
  `RoundingsAgree` says exactly which amounts are safe, and `RoundedAlikeMatches`
  that if all requests are, the gateway is always asked for the recorded amount.
* **"Only act while it is still pending"** is what the comment in notify says.
  The code also acts on a failed row, and has to: reconcile fails an order that
  is open for more than an hour although its payer may still pay.
* **Over-withdrawal.** Two `request_payout` at the same time each pay out all
  of the balance. `OverdraftExplained` says that only overlap and revived
  failures do this.
* **"One email per user, ever"** fails when two sweeps overlap.
  `EmailsExplained` says by how much: one email per sweep that can run at a
  time, plus one per email that no row followed, because its sweep ended or
  because a failure was reported of an email that went out.
* **"The user already has a creator profile"** is what the wizard takes every
  409 to mean. `create_creator` answers 409 also to a name whose slug another
  creator has: that user is sent to a dashboard without a page, and is not told.

### Fairness

`Payments`: a request that is not dropped goes on (weak fairness of each
handler's `Progress`): axum polls its future. The gateway repeats a paid order's
notification until it is answered `SUCCESS`, so that one gets through if it is
possible again and again, and not every attempt to write the completion is
dropped (strong fairness of `Notify` and of the completing `UpdateStatus`).
Nothing obliges anyone to check out, to pay or to poll, and there is no fairness
on effects: `CompletedIsShown` allows for lost ones.

`Reminders`: the cron job keeps firing (`Select`), a sweep goes on, and not
every attempt to find, email or record a user fails or is aborted, however often
others are. Without that last assumption a mail server that is always down
refutes the property, as it should.

`Studio`: a request that was sent is answered or fails (weak fairness of the
steps of a save, and of the answers to lists): the browser settles each `fetch`.
Nothing obliges the creator to do anything. The other pages are checked for
safety only.

## What is proved

The proofs are for any sets of orders, captures, requests and handlers, any
number of users, any finite set of sweeps and of payout requests served at the
same time, and any elements, designs, posts, jars, tips, windows, pages and
bounds, from the named assumptions on the constants in each module, which TLC
evaluates on each instance. Two of them are about rates: `Payouts` assumes that
the platform's and the service's together are below 100 % (by default they are
3 % each), or a tip would lower the balance; `CreditsAreCollected` and
`SharesAreCovered` that the commission is no higher than the platform's fee,
which it is paid from.

Each component's proof has the same shape: a type invariant, an inductive
invariant that says what a request under way can still rely on, one step per
action, and the property as a consequence. Besides the properties of the runs
there are theorems that no run repeats; they say more about the same actions, and
three of them find the exact cause of what a run expects to be violated.

**Payments.** `TypeCorrect`; then `EffectsAreOnceAndEarned` and
`CompletedWerePaid` by the inductive invariant `SafetyInv`. Neither property is
inductive by itself: that a payment has one tip depends on there being one
request that may add it. `SafetyInv` says so:

* `GatewayInv`: the gateway knows only orders the ledger has a row for, and a
  notice of payment means that it was paid;
* `RequestInv`: what each waiting request can still rely on; in particular one
  about to write `completed` has an order that is paid for an accepted amount,
  and one that still owes a tip has a completed payment without one;
* `SoleInv`: no two requests are at the effects of the same payment. This is
  where the `status <> 'completed'` of the UPDATE matters: the row count is what
  elects the request that goes on.

`LedgerRefined` then maps every step of the handlers to a step of `TipLedger` or
a stutter. `EffectsAreAccountedFor` shows that a completed payment's missing
effect is owed by a request or was lost, by following the one request that owes
it through its stages. `RoundedAlikeMatches` assumes that the half cents clients ask
for fall the way the even rounding goes, and rests on `RoundingsAgree` of
`MoneyProofs`. Without that assumption two things are left, and proved: `OrdersStayOfRequests`, that what is
asked for and what is recorded are the two roundings of one and the same request,
and `CreditsAreCollected`, that what the creator and the referrer get for an
order together is covered by what its payer paid. The latter needs that a
payment is completed only if its order was paid, so it rests on `SafetyInv`. Where
gateway messages carry no amount a half cent that falls short goes unnoticed, and
the bound is one cent wider (`Slack`). `GivenUpMovesWhenPaid` is
about steps: a failed payment moves again only because the gateway has it paid,
which is what the `PaymentsFailedThenPaid` run is about.

**Money.** The two roundings agree exactly on what is no half cent, or one that
falls the way the even rounding goes (`RoundingsAgree`), and elsewhere differ by a
cent, up or down (`RoundingsDiffer`), so that they are never further apart
(`RoundingsAreClose`); fees leave the creator nothing below zero (`NetIsNatural`); net and commission
together never exceed the tip (`SharesAreCovered`).

**Payouts.** `TypeCorrect`, and `OverdraftCorrect` for any number of handlers.
A sum over a set of rows is a recursion, whose laws would need an induction over
data; `PayoutsProofs` goes around it: an amount of `n` is `n` units, and the
cardinality of the units of a set obeys the recursion of the sum (`CountSums`). Two
functions that obey it are the same (`SumsUnique`): of the sets where they differ
there would be a smallest one, as inclusion is well founded on finite sets. So a
sum is a cardinality (`AmountsAreUnits`), and the library's facts do the rest.
The property is not inductive: a request that has read both sums inserts later,
on the strength of what it read. `OverdraftInv` therefore counts what is about to
be inserted as if it were there (`DebtInv`), and knows that no row, and nothing a
request has read of what was earned, is above what is earned by now (`RowsInv`,
`KnownInv`). `OneAtATimeIsCovered` is the other side of the run that shows
`NeverOverdrawn` violated: with one request at a time and no failed payout taken
back nothing is overdrawn, whatever is dropped or restarted.

**Reminders.** `TypeCorrect`; and one lemma, `StepTold`, says what any step of
any sweep is to one user: nothing, an email, a row, or an email left without one. From it follow
`RemindedWereEmailed` (with `EmailedInv`: whom a sweep is about to record was
emailed) and `EmailsAreExplained`, whose invariant `Counted` counts, before the
user's first row, the sweeps that have emailed and not yet recorded, and after
it the sweeps that may still email. `OneSweepRemindsOnce` draws the line for
"one email per user, ever", which the `RemindersTwice` run violates: it takes a
second sweep, or an email that no row followed.

**Studio.** `StudioTyped` and, each by an invariant of its own, the four safety
properties. `HistoryStaysBounded` and `SelectionStaysAlive` follow step by step.
`LoadedStaysHome` needs `HomeInv`: every canvas of the history stems from the
design that is loaded, and a save under way holds a canvas of the visit it was
started in. `GalleryStaysCurrent` needs `GalleryInv`: the youngest list under way
is either to be read yet or was read since the last change, and when none is
under way what is shown is what is stored.

**Pages.** All ten properties, and `RowStaysPromised`, which no run repeats: the
row that `Callback` polls moves as `TipLedger` says. The invariants say what a
request under way still knows: `CodesInv` (what was accepted is marked, and who
still holds it held it before), `ActiveInv` (which requests may still insert beside an unused code),
`SessionInv`, `LookupInv` and `QuoteInv` (an answer that is still wanted is about
what is in the field), `CallbackInv` (what the page was told follows the row,
which follows the gateway), `WizardInv` (the questions of the steps gone by are
answered), `ReaderInv` (no unlock or subscription under way is of another email),
`VettingInv` (a decision to verify was taken on both documents), `DeskInv`.

Nine more theorems of the pages say that what is shown as under way is under way
(`SpinnerAlwaysPolls`, `BusyStaysUnderWay`, `CheckingStaysLooking`), so that no
page hangs while nothing is coming; that what is shown has its row
(`UnlockedStaysEarned`, `SavesStayOfForm`, `VettedStaysWhole`, `OrdersStayDue`);
and what no step does: `CodesLiveOnce`, no used code is usable again, and
`VerdictsStay`, a settled payout or dispute keeps its verdict unless somebody asked
from a list that was no longer true. The first kind is the safety half of "a busy
button comes back": the other half, that the request is answered, is fairness.

**Dashboard.** All eleven properties. `ShellInv`: unless a navigation was given up,
the tab is the one of the newest URL asked for. `ThankInv`: at most one thank-you
is under way in the list on the screen, and its row is the busy one. `UpdateInv`:
a text that went out and was not said to have failed is on its way or no longer
in the field. `LedgerInv`: the sums are those of the rows, what has been read since
nothing moved is of now, and a payout this tab was told of is a row that no list
asked for later can miss.
`VaultInv`: the composer, and every request and picture under way, is of one
post. `ProfileInv`: a save under way and the form agree with the row in the fields
they are said to have from it, and a picture that was once there is there; from
that, `SavesStayOfEdits` is a theorem about steps. `JarsInv`: what the newest
load was answered is of now, for a change of the jars would have begun a newer
one and a tip after its sums is noted. `FiguresInv`: each row has tips of its own day
only, and if there are rows at all, every tip of the list from a later day than
they begin in is in one. `StepsOfParts` takes a step of the dashboard to a
step or a stutter of each part.

Three more: `BusyStaysSending` (a disabled thank button waits for its thank-you,
and its tip is not shown as thanked before), `ListedStayJars` (what the jars' tab lists was made, with the goal it shows) and,
about steps, `JarsLiveOnce` (no jar comes back).

**Only model-checked.** Liveness (`PaidIsCompleted`, `CompletedIsShown`,
`EveryoneIsReminded`, `SaveEnds`), and whatever needs ENABLED, is out of the
prover's reach. Every other property of a passing run is a theorem.

## Not modelled

* Signatures, tokens' contents and the ownership checks of the endpoints; texts,
  emails and PDFs; layout, drawing, fonts, snapping and export; lists and reports
  that only read; HTTP statuses beyond those the code tells apart. Amounts appear
  where a property compares them.
* `payments.refund` writes no row, which is a hazard rather than a step; `Desk`
  has the button.
* `tips`: pledges and the reports. `referrals.my_code`. The scheduler's daily
  report, and the log that its broadcasts and thanks write, which nothing reads
  back; the emails themselves are in `Outreach`.
* `accounts`: 2FA switches and password changes; `creators`: the four statements
  of the deletion (`Desk` has it as one) and tiers. Single statements, or a failure between
  statements that nothing later reads.
* `platform`, the audit half of `admin_portal`, `support` beyond a dispute's
  status, `enterprise`, `blog`, `careers`, `common`: one statement per request.
* The registration form's gender, date of birth, guardian and its `enterprise`
  role, which are asked for and never sent. The dashboard's supporters,
  subscribers and referrals tabs and the portal's overview, tips, communications
  and system tabs, which read, or send one request without state.
* The public pages, the typed wrappers of the requests, and the Flutter app:
  presentation.
* The Django backend, which the services replace; two hazards record its races.

## Plan

What is left, in order of importance:

1. `Wallet`: `Payments` and `Payouts` composed, so that `earned` is the sum of
   what the flow completes.
2. `PaystackTips` (Django), if it is to run again: webhook against verify, the
   effects each has, and `charge_pledges` with a crash after the charge, against
   the same `TipLedger`.
3. `Profiles` (creators): deletion in four statements against subscribe and
   unlock; `my_code` (referrals), get-or-create.
4. Liveness of the pages: the polling of `Callback` ends, a busy button comes back.
5. Theorems: with `Wallet`, that `CreditsAreCollected` carries over to the sum of
   all orders, so that the payouts of all creators are covered by what was
   collected.
