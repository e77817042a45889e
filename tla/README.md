# Pollord backend in TLA+

A formal model of the Pollord backend (FastAPI, PostgreSQL, Redis, Celery): elections people vote in
for free or for money, events people buy tickets for, and the money in between, with the accounts, teams, messages and the console around them. The modules
translate the code under `src/app`; `PROJECT.json` maps every definition to the lines it stands for.

## 1. The system

Every HTTP request runs in one database transaction (`db/base.py get_db`: commit when the handler
returns, rollback when it raises) at READ COMMITTED. No handler but the waitlist mailing
(`api/v1/endpoints/waitlist.py:75`) takes a row lock (`SELECT ... FOR UPDATE`) and no table has a
version column, so what keeps overlapping requests apart is the unique
constraints, a few conditional UPDATEs, and nothing else. SQLAlchemy's identity map makes a handler
keep the columns it has loaded once, and an UPDATE writes the columns that differ from them. Celery
tasks are transactions of the same kind in another process; beat starts some of them on a schedule.
Paystack and JuniPay call back by webhook, late, repeatedly and in any order.

| Component | State | Operations | Meets | What makes it correct | Module |
|---|---|---|---|---|---|
| Paid votes | `transactions`, `votes`, promo redemptions | initiate, verify-and-cast, charge.success, charge.failed, free vote | Paystack/JuniPay, elections, promo codes, payouts | one vote per payment, none unpaid, collected money is settled | `VotePayments` |
| Ticket sales | stock, `ticket_transactions`, `tickets` | order, fulfil (webhook, browser, admin), door sale, edit type, publish | Paystack, check-in, payouts | stock equals tickets, orders whole or not at all, payments resolve | `Ticketing` |
| Payouts | `payout_requests`, transfers at Paystack | request, pay, review, change commission | revenue of both kinds | requests within earnings, paid is backed | `Payouts` |
| Check-in | ticket status, scan link | scan, cancel, hourly expiry, postpone | ticket sales, beat | one guest per ticket, leftovers expire | `CheckIn` |
| Elections, free voting | `elections`, ballot, `votes`, receipts | draft to results, ballot edits, dates, two beat tasks, votes | beat, paid votes, results | one vote each, ballot locked, opens and closes on time | `Elections`, `Ballot` |
| Codes and voter lists | `voter_otps`, `election_eligible_voters`, `votes` | request a code, verify, import, invite, remove | elections, mail and SMS | one vote per address | `VerifiedVotes` |
| Phone voting | conversations in Redis, payments being started | each USSD and WhatsApp screen, charge, webhook, expiry | JuniPay/Paystack, paid votes | charged what was quoted, no payment lost | `PhoneVoting` |
| Nominations | forms, submissions, candidates, photos | submit, review a group, edit the ballot | elections, file store | approved is on the ballot | `Nominations` |
| Live results | votes, tallies shown, Redis cache | cast, publish, commit, read, store, push, poll | voters, watchers | standings agree, polling settles | `LiveResults` |
| Promo codes | `promo_codes`, scope, redemptions | save, switch, delete, apply, redeem | both payment kinds | limits hold | `PromoCodes` |
| Fees and reports | prices, rates, fee payers, sales | price, discount, surcharge, commission, seven reports | all money | past sales keep their report, reports reconcile | `Financials` |
| Report exports | `report_export_jobs`, queue | reuse, restart, create, render | worker, file store | no stale answer, every job ends | `ReportExports` |
| Sessions | users, refresh tokens, Redis marks | login, second factor, refresh, logout, reset, suspend | everything | none outlives a kill, ended stays ended | `Sessions` |
| Organizations | members, owners, invitations, custom roles, platform roles | invite, accept, transfer, remove, change role | sessions | one owner, leaving one team keeps the other | `Organizations` |
| Events | status, capacity, ticket types, front desk, invitations | publish, edit, sell, register, invite, answer | ticket sales | types account for tickets, accepted has a seat | `Events` |
| Support | tickets and chats, channels | open, claim, answer, close, watch, purge | staff, Redis | one agent per chat, watchers catch up | `SupportChats` |
| Mailings | broadcasts and chunks, waitlist, debounced notices | send, work, fold, announce, notify | worker, ticket holders | counts are exact, one announcement each | `Mailings` |
| Backups | records, dumps, restore | dump, reap, prune, delete, restore | the whole database, worker | every backup settles | `Backups` |
| Monitoring | jobs, captured exceptions, latency rings | signals, retry, purge, capture, tail, probe | worker, Redis | failures are kept while the list has room, tail skips nothing | `Monitoring` |
| Files | storage, variants on disk and in caches, identity documents | upload, serve, transcode, review | everything with pictures | served as asked, documents are paired | `Files` |
| Admin console | accounts, roles, permissions, settings, audit log, pages | assign, toggle, save, delete, page | sessions | changes are audited, pages miss no one | `AdminConsole` |
| Search, templates, audit queries, schemas, HTTP shell, deployment | rows and views | single-row edits, queries | | no decision of the parts above depends on an order here | not modelled (reasons in `PROJECT.json`) |

What is hard here, and hard to test: two requests that check the same row before either writes; a
webhook beside the browser's own call; a beat task that writes what it read a moment ago; an exception
after a flush; a notice sent before the commit it announces; a request or worker that dies before its
commit, with a message or a transfer already sent; a restore that takes the records of the backups back
with everything else. `PROJECT.json` lists these hazards at their lines.

## 2. How the code becomes TLA+

A handler is split at its awaits where another process may come between, never elsewhere. What it has
read is kept in a request record (`req`, `request`, `asking`, ...) until its write; the write and the
commit are one step where a constraint or a row lock makes a second writer wait for the first, and two
(`flush`/`commit`) where something is visible in between, such as a message sent or stock held.
Each module has an action for a request or worker that dies, which forgets the record.

* **VotePayments.** `txn` is a row per reference, `votes` the table, `redeemed` the promo ledger,
  `collected` and `events`/`acked` the gateway's side. `verify_transaction` / `verify_and_cast_public_vote`
  are the browser's call, `begin_charge_success` / `read_parent` / `handle_charge_success` and
  `begin_charge_failed` / `mark_failed` the webhooks, each split at its reads. Prices, buyer-paid fees,
  percentage discounts and the division into votes are computed as the code computes them.
* **Ticketing.** `available`/`sold` are the committed columns; what a request has taken stays in its
  record as a held row lock, and `deadlock_detected` rolls back the victim of two orders that lock
  their types in opposite order. `take_item`, `issue_tickets`, `mark_needs_refund` are the loop of
  `fulfill_paid_purchase` with its compensation.
* **Payouts.** One parent (an event or an election: the two methods mirror each other). `begin_request`
  reads, `request_payout` writes; `begin_transfer` / `set_recipient_code` / `initiate_transfer` /
  `record_transfer_result` are the pay call around two calls of Paystack; `transfer` is Paystack's
  memory of them, which survives the rollback. Fees are rounded half to even.
* **CheckIn.** `validate_ticket` reads, `mark_as_used` writes and lets the guest in; `begin_cancel` /
  `cancel_ticket`; `read_valid_tickets` / `check_expired_tickets`; days, dates and the link's expiry.
* **Elections** has the organizer's requests, each `read_election` and then its own action, the beat
  tasks as a read and a write, and `cast_vote` / `insert_vote`; **Ballot** is the abstract
  specification: a paper laid out before voting and not touched after, one vote per voter and category
  for a candidate on it, closed for good. `KeepsThePromise == Promise!Spec` is the refinement, which
  maps the status to a phase and strips the revoting salt off the votes.
* **ReportExports.** One user and idempotency key. `get_reusable` / `get_recyclable` / `restart` or
  `create` / `commit` are a request, with the columns it loaded; `load_job` / `mark_processing` /
  `mark_completed` or `mark_failed` a task. `tick` is the passing of time: ages of rows, files, messages
  and renders, capped where nothing tells a larger age apart.

* **Sessions.** One account: `user` (token version, status, second factor, recovery codes), `tokens` (refresh
  tokens, each with the version it was born under and its age), `marks` (devices signed out, in Redis, which may not
  answer). A sign-in or refresh is begun (`login_user`, `refresh_token`) and issued later
  (`_issue_tokens`); a password change, reset, logout or switch of the second factor likewise reads and writes.
* **Organizations.** Members with copies, since (org, user) is not unique; `dashboard` holds the users with the
  platform roles that open the organizer's pages. Every endpoint is a load of the organization with its
  members and a write from those copies.
* **PhoneVoting.** A conversation per phone (`session`, in Redis, expiring at any time) and a record per message being
  handled; a charge is sent (`charge_and_respond`, `initiate_payment`) before its row is committed,
  and is accepted, refused (a server error of JuniPay's counts as a refusal, so it may have charged all the same) or
  unanswered. `quoted` remembers what each phone was shown a price for. At the gateway an attempt may fail before another
  pays in full or short (`attempt_fails`, `customer_pays`). Webhooks run in slots of their own (`hook`): the row is read and its status
  or the amount tested, the parent is read, then the vote or the failure is written (`begin_charge_success`, `read_parent`,
  `handle_charge_success`, `begin_charge_failed`, `write_off`), with nothing locked in between and a death at any point.
* **VerifiedVotes.** A code's row (`unused`, used, expired), requests that read the codes and write later,
  and the list of eligible voters with its import and invitations; a voter's and a candidate's code are
  rows of one kind.
* **Nominations.** `submissions` by (category, nominee), which the queue groups, showing the status of the last one
  (`last_submitted`). A review loads the group (`begin_review`), loads it again for the rows to write (`select_group`) and flushes them
  (`flush`), which waits for other reviews that hold one of these rows (`locked`); then it reads the candidates or deletes photos, and
  commits. Where no row changes its status nothing is written and nothing locked. Candidates are counted per name and category.
* **PromoCodes.** Saves write the columns that differ from what they loaded (`BaseRepository.update` skips None) and
  replace the scope rows they can see; `resolve_for_checkout` checks window, scope and both limits over the ledger. A verified vote
  and a fulfilled order enter the ledger (`record_redemption`); votes cast by the webhook and tickets an organizer issues by hand are
  settled without a row (`_handle_charge_success`, `issue_ticket_for_untracked_payment`; `unrecorded` remembers them), so their
  uses are not counted by any later checkout.
* **Financials.** Sales in pesewas with the code's own roundings: what is charged (`charge`), what Financial Stats,
  payouts, dashboards and the console's lists compute from it, each its own operator; listings change price,
  rate and fee payer, codes come and go.
* **SupportChats.** One table for e-mail tickets and chats; a chat request commits and then publishes to its topics one
  by one; a watcher subscribes, reads, and waits on an inbox that is empty or not.
* **LiveResults.** A vote is inserted, announced and committed in that order; streams and polls read what is
  committed and share a cached answer. The ranks of the candidate's page and of the lists are operators over the same rows.
* **Events.** Ticket types with the number of tickets that refer to them, the front desk, invitations with seats;
  every handler is a read and a commit, `takes_effect` and `saved` say what its statements do to rows changed meanwhile.
* **Mailings.** Chunks of a broadcast fold their counts into its row; announcements lock the unnotified with SKIP LOCKED; a
  notice takes a cooldown in Redis and is rolled back with its sale.
* **Backups.** A record, a file and a task per backup, the seconds that name the files, the reaper split at its
  read, and a restore that puts back the records as they were when the dump began.
* **Monitoring.** Redis hashes and lists written one command after another by the worker's signals: a failure is counted, put on the
  list, the list cut to the last `KEPT` failures of all queues (`trim_failures`, 500 in the code), and the error written. The page of a queue
  (`_indexed_jobs`) takes the first `PAGE` of its failures among the last `PAGE * OVERREAD` of all queues, so that failures elsewhere push a
  quiet queue's failure off the page and then off the list, though its hash is still there. Log entries are stamped with the
  start of their transaction; there are rings of latencies with percentiles.
* **Files.** The storage, the variant cache on disk (write to a temporary name, rename), shared caches keyed by
  URL and Accept, and identity documents uploaded front first, then back.
* **AdminConsole.** Accounts, roles and audit entries in one transaction; settings committed key by key before their
  entry; a reader who walks the pages of users by offset while accounts come and go.

* **Ballots, Office, Console** put components side by side: every component is an `INSTANCE` of its module with
  parameters and variables of its own, and what it promises is restated by name. `Ballots` has phone voting (`Phone`), codes
  and lists (`Verified`), nominations (`Reviews`), promo codes (`Promo`) and live results (`Tally`); `Office` has
  organizations (`Teams`), fees and reports (`Money`), support (`Chats`), events (`Event`) and mailings (`Mail`);
  `Console` has monitoring (`Monitor`), files (`Images`, `Papers`) and the admin console (`Pages`). Theorems are about
  these instances, for every value of their parameters; the MC modules add `part` (section 3).

The gateway's own behaviour, PostgreSQL's deadlock detector, what Paystack remembers, the broker and shared
HTTP caches are marked external in the map.

## 3. What TLC checks

| Run | Shows | Instance and why it is enough |
|---|---|---|
| `votes` | `OneVotePerPayment`, `VotesArePaidFor`, `RedeemedOncePerVote`, `PaymentsSettle` | one payment of any kind beside the free vote of the same voter, two request slots: verify against a webhook, a webhook against its own redelivery, a failure against a success, each dying at any point |
| `tickets` | `StockMatchesTickets`, `AllOrNothing`, `OnlyPaidIsDelivered`, `StockMovesWithSales` | an order of two types with one ticket each, so that the second item sells out under the first and is compensated; free orders, door sales, manual issue and restocking in the other slot. Also two payments that lock the two types in opposite order, the only deadlock the code can have; while the second is there nothing else goes on (the constraint `TwoPaymentsAlone`) |
| `ticket_payments_resolve` | `PaymentsResolve` | one payment, one type, the event switched off and on, stock set to zero |
| `payouts_admins` | `OnePendingRequest`, `PaidIsBacked` | two requests, two admins and two transfers: every overlap of pay with pay and with review |
| `elections_promise` | `KeepsThePromise`, `BallotLocked`, `PollingSettles` | two voters whose votes overlap, one organizer, a category, two candidates; part *results*: two votes, a stream and a poll that share the cache |
| `exports` | `AnswersAreCurrent`, `EveryExportEnds` | two overlapping requests, two tasks, window and render of one tick, one death of each kind |
| `sessions` | `NoneOutlivesAKill`, `EndedStaysEnded` | two tokens, so that a rotation has a successor, one sign-in or refresh beside one request that changes the account, Redis failing, two bumps of the version |
| `ballots` | `ChargedAsQuoted`, `NoPaymentIsLost` (a dialer; a chatter) | two messages that overlap before anyone pays, two categories of which one is ranked, a free and a paid price, price edits; in further parts two webhooks of one payment that overlap with each other and with a message, at one price, through failed attempts, short amounts, deaths and the end of voting |
| | `OneVotePerAddress` | three codes of one voter and a candidate's, two overlapping requests; a second part fills the list of eligible voters |
| | `ApprovedIsOnTheBallot` | two reviewers on two submissions of a nominee; and a namesake in a second category |
| | `LimitsHoldInTurn` | a code of two uses and one each, two payments by vote or ticket that fail or are settled with or without a row of the ledger, two overlapping saves |
| | `StandingsAgree` | two categories of two places, two votes of weight two, candidates removed |
| `office` | `OneOwner`, `SecondTeamStays` | one team with a custom role, an invitation and one request each that manages and that joins; two teams with a common member |
| | `PastSalesKeepTheirReport` | a vote or ticket sale of one or three units at prices on either side of a rounding, with no discount, a third, or half a cedi |
| | `WatchersCatchUp` | one chat, two agents, a watcher, two requests that may die between commit and publish |
| | `TypesAccountForTickets`, `AcceptedHasASeat` | one type, one guest, one invitation, two overlapping handlers; the event's own ballot is a further part |
| | `CountsAreExact` | two broadcasts of up to three recipients in chunks of two, workers that die; the waitlist and the notices are further parts |
| `console` | `FailuresAreKept`, `TailSkipsNothing` | three jobs over two queues and a purge, a list of two failures and a page of one filled from two, so that the third failure pushes the first out (list and reading end at the same place here; the theorem has any lengths); three entries of which two may be captured at once, a tail of page one |
| | `ServedAsAsked` | a client that takes AVIF and WebP and one that takes neither, three pictures of which one cannot be read, two widths, crashes in a write |
| | `DocumentsArePaired` | two tabs uploading |
| | `PagesMissNoOne` | four accounts, pages of one; accounts and settings are further parts |
| `beat` | `LeftoversExpire`, `ExpiredIsClosed`, `StartsOnSchedule`, `EveryBackupSettles` | two tickets among a gate and a canceller, three days; an election with every operation of its organizer; two backups, one scheduled and one on request, with killed workers and a restore |
| `fulfilled_twice` | counterexample to `FulfilledOnce` | one order, two slots |

**Parts.** `elections_promise`, `ballots`, `office`, `console` and `beat` check several instances in
one run. Their MC modules hold each instance in variables of its own, a variable `part` chooses one of
them at the start, and only that one moves; so a behaviour of the run is a behaviour of one instance, a
property guarded by its part (or an action property of one instance's variables, which holds where they rest)
says exactly what it says of that instance alone, and fairness is asked of the part at hand only. Nothing
is claimed of parts together: what two components do to each other is inside a module (`VotePayments` has
the votes and the payments, `Events` types and invitations, `PhoneVoting` conversations and charges).

Every module defines one type invariant and further properties beside the ones the runs list. They held
in the same instances while the modules were written, and those of the modules with proofs
are theorems: `OneVotePerVoter`, `SuccessHasItsVote`, `TransferRecordsAreTrue`, `PendingIsUnsettled`,
`AdmittedOnce` and `RegisterIsTrue` (under the preconditions below), `OneVoteEach`, `ActiveHasCandidates`,
`VotedMeansStarted`, `CompletedIsFinal`, `CompletedHasFile`, `OneRenderAtATime`, `NoRenderIsStranded`,
`SuccessIsDelivered`, `ClaimedOnce`, `StreamsOnlyGrow`, `SignedOutIsOut`, `RedeemedIsSpent`, `AnnouncedOnce` and
`OneNoticePerWindow`. Only held in the instances: `AdmitsOnce`, `SpentOnAVote`, `SurchargeIsTheFee`,
`OrganizationsAddUp`, `RingHoldsTheLatest`, `PercentilesHold`, `DecodableByItsClient`, `AccountsAreAudited` of the
later ones.

Runs keep TLC's deadlock check except where a part may come to its bounds (said in the cfg).

**Bounds.** Slots for overlapping requests are two where overlap is the question and one where a
property is about its absence: every race found so far is between two. References, rows, tickets, codes,
jobs and tasks are one to three; amounts are the ones on each side of a rounding or a limit. Counters
are capped in guards, by constants that say so where they are declared (`Max...`, `Last...`). Symmetry is used for
slots and references, and only in runs without liveness.

**Preconditions.** Some properties hold under less concurrency than the code allows,
because with more they do not (section 5): `OnePendingRequest` needs payout requests that do not
overlap; the promise of an election one organizer, no beat task, and neither unpublish nor
remove_candidate; `OneOwner` one manager at a time; `NoneOutlivesAKill` and `EndedStaysEnded` requests that change
the account one at a time, with sign-ins and refreshes beside them;
`PagesMissNoOne` accounts whose creation times differ; `CountsAreExact` a worker that imports the
broadcast tasks. They are the instances' constants, not the modules'.

**Fairness.** The server works off a request it has begun, a request does not die for ever in the same
place (strong fairness on the write), and the gateway delivers a webhook until it is answered 2xx
(Paystack's contract, which the handlers rely on by answering 500). PostgreSQL breaks deadlocks. Beat
fires its entries and not every run of a task dies; the reaper comes round and records grow old. A cached
answer expires, and a stream or poll that has begun to read goes on. A queue is served: `EveryExportEnds` assumes a worker
subscribed to `reports` (`celery_app.py:33` routes exports there; the worker command in the compose
files names no queue and so serves only the default one) and a user who asks again, since nothing else
looks at a stranded job. Time passes.

## 4. What TLAPS proves

For every value of the constants:

* `VotePaymentsProofs`: `TypeOK`, `OneVotePerPayment`, `VotesArePaidFor`, `SuccessHasItsVote` with
  `RedeemedOncePerVote`, `OneVotePerVoter`, with and without revoting. What makes them inductive: hashes are
  unique among the rows; a row carries the hash of its payment, which has been through success
  (`RowsMatchPayments`); the gateway's events are true; and what a request read before an await and
  uses after it still holds (`Informed`). The proof takes the actions one by one.
* `PayoutsProofs`: `TypeOK`, `TransferRecordsAreTrue`, `PaidIsBacked`, `PendingIsUnsettled` without
  assumptions: `IInv` says that rows not yet created are blank, that a reference written down was sent, and that a
  pay call in flight knows its own transfer. `OnePendingRequest` from the assumption that there is one organizer slot.
* `ElectionsProofs`: `TypeOK` and `OneVoteEach` without assumptions; from one organizer, no beat and
  nothing taken back, `ActiveHasCandidates`, `VotedMeansStarted`, `BallotLocked`, `CompletedIsFinal`, and
  `KeepsThePromise` where there is no revoting. The inductive part (`PInv`) says that what a request
  in flight read is still so (`StillSo`) and that a vote in flight has begun (`Begun`).
* `ReportExportsProofs`: `TypeOK` and `AnswersAreCurrent`, from a bound on how much older than its row
  a file may be, kept by restarts because no time passes under a request (`FileYoung`).
  `OneRenderAtATime`, `NoRenderIsStranded` and `CompletedHasFile` from requests one at a time that do not
  die and `MaxWait + Limit <= Window`: at most one task is under way, it belongs to the request that is
  about to commit or to a row young enough to be the next answer (`SentByItsRequest`, `InTime`), and a
  restart writes over the row it has loaded (`AsLoaded`).
* `TicketingProofs`: `TypeOK`, `StockMatchesTickets`, `OnlyPaidIsDelivered`, `SuccessIsDelivered`, `StockMovesWithSales`,
  without assumptions, for orders of any length. A row lock makes the holder of a type's uncommitted tickets the
  only one to take or put back any, and what it holds is in the committed column (`LocksInv`, the theorem
  `HeldStockIsCovered`); so stock is right at every commit and rollback. Payments are right because what a
  request has read of its payment before an await still holds after it, and an order gone through to its end has
  given something (`Informed`). `AllOrNothing` by `OrdersInv`: what was issued of a payment is a whole number of orders,
  and that number with the requests still at work on it is no more than the slots (`Fulfilled`); a request at an item
  holds exactly the tickets of the items before it (`Through`).
* `SessionsProofs`: `TypeOK` without assumptions; `NoneOutlivesAKill` and `EndedStaysEnded` where the requests that
  change the account do not overlap each other (`OneChange`; sign-ins and refreshes overlap them and each other
  freely). No token is ahead of the account's version and one level with it was born after the last
  kill (`TokensAreBehind`), the same of a token about to be issued (`SignInsAreBehind`), and a request about to bump
  the version has read the present one (`KillsAreCurrent`). `SignedOutIsOut` for any overlap, from
  `AccessTTL <= RefreshTTL` (minutes against days in the settings): the age of a signed-out token and the time its mark has left
  make an access token's life (`MarksOutlast`). `RedeemedIsSpent` where sign-ins do not overlap (`OneSignIn`): with
  two, each puts back the code the other took off the list.
* `ElectionsProofs`, beside the elections above:
  * `OneVotePerAddress`: whatever codes overlap, a vote is inserted where there is none.
  * `ApprovedIsOnTheBallot` (`NInv`): submissions have ids of their own; the rows a review is to write are of its group, and
    the candidate it matched is on the ballot or was removed by an organizer. The row locks are not needed for it.
  * `ChargedAsQuoted` (`PhoneInv`): a conversation that may confirm has a price its phone was told
    (`Told`), a message writes at most one payment, of a quote that was given
    (`Drafted`), and no two messages write one payment (`Apart`).
  * `NoPaymentIsLost` (`PaidInv`, beside `PhoneInv`): a webhook at work has a row, and one that found the amount short is of a
    payment that came in short; "success" is only written together with the vote that was bought, and every other status is taken up
    again by the next notice.
  * `LimitsHoldInTurn` (`PromoInv`): every row of the ledger is of a payment that arrived, and a paid use without one is among the
    `unrecorded` (`Ledger`), no limit was ever higher
    than `highest`, and the payments still open are counted with those that have redeemed (`WithOpenOnes`): a step
    that admits a payment while another is open marks the code or buyer crowded.
  * `StandingsAgree`: the total of the places is the sum of the choices, by adding up over growing sets of
    candidates; more votes place ahead. `StreamsOnlyGrow` (`StreamsInv`): what a stream has shown or is about to show it
    was in the table, and no committed vote leaves it.
* `OfficeProofs`:
  * `OneOwner` where requests that manage teams do not overlap (`OneManager`; any number of
    acceptances overlap them). The request in flight has loaded an owner who still is the owner, and a
    target that is there and still is not (`StillLoaded`), since whoever joins gets a row of their own.
  * `SecondTeamStays`: a removal takes the platform roles only where it saw no other membership; no precondition,
    because the property speaks of what the removal saw.
  * `WatchersCatchUp`, `ClaimedOnce` (`CInv`): a watcher whose inbox is empty and whose topic is owed no notice (`Owed`: a change
    not yet announced, or a request between its commit and its last topic) shows what is in the table (`CaughtUp`).
  * `TypesAccountForTickets`, `AcceptedHasASeat` (`EInv`): the tables (`Books`) and what every handler has read (`Handlers`); a free
    type keeps the ticket it was made with, so a found one cannot be deleted under a registration.
  * `PastSalesKeepTheirReport`: the report of a sale reads nothing of its listing but the override.
  * `CountsAreExact` (`MailInv`): the row's counts are the running total of the chunks that found it, for any number of
    recipients and any chunk size; the sizes of the chunks add up to the recipients.
  * `AnnouncedOnce` (`WaitlistInv`): announcements in progress have disjoint rows, all pending, and an address is written to when it
    is queued for the first of them (`Taken`). `OneNoticePerWindow` (`NoticesInv`): the sales that notify
    have windows of their own, and in the present window there is one only while the cooldown is on.
* `ConsoleProofs`:
  * check-in: `TypeOK`; `AdmittedOnce` for one scanner (a scan in flight finds its ticket not yet
    used to let someone in, `UnusedYet`); `RegisterIsTrue` where only scans are at work.
  * `FailuresAreKept` (`MInv`): a job's hash, run and list agree at each of the signal's commands (`JobsOK`), a purge under
    way holds only what it may remove (`PurgesOK`), the counter of a queue nobody purged is the number of its
    failures (`CountsOK`), and a tracked failure is on the list unless as many came after it as the list keeps (`ListOK`).
  * `TailSkipsNothing` (`LInv`): entries are of times gone by and numbered in the order of their insertion.
  * `ServedAsAsked` (`IInv`): a name on disk is only given to a whole variant of its key, a shared cache keeps what its
    Accept header asks for, and a file, once stored, is as it was. `DocumentsArePaired` (`PInv`).
  * `PagesMissNoOne` (`AInv`) where accounts are made one at a time (`OneByOne`): whom the reader has not seen has at least as many
    newer accounts ahead as the reader has skipped.

The provers have no induction over an operator parameter and no way into a recursive function. What a running
total, an order's items or a tally add up to is proved by a least counterexample instead (`UpTo`, from `WFMin` on the naturals:
a set with 0 that is closed under successors up to N is 0..N), which also shows that a function satisfying the recursive
equation exists, so that the definition's CHOOSE has one.

Each is three facts, initial states, steps, implication, joined by PTL. Assumptions about constants are
named `ConstantsAssumption` in each module and evaluated by TLC in every run. Those of
the compositions are `BallotsAssumption`, `OfficeAssumption` and `ConsoleAssumption`: sets of rows are finite, quantities are numbers, a page,
a chunk and a poll have room for one row, a phone has one channel, the queue's topic is no chat's.

Only model-checked: the liveness properties (fairness and ENABLED are beyond the prover), `RequestsWithinEarnings`, and
those that section 3 lists as only held in the instances. Every invariant and action property of the passing runs
is a theorem. Two kinds of step needed the model written with care: strings with spaces in them
stop the SMT translation, and a property stated by recursion over sets cannot be proved about, so totals are functions of
numbers.

## 5. Where code and statement part

The counterexample listed as a run is the one with money behind it. The modules also state what
comments, answers and tests say elsewhere and the code does not do; each property below is violated in the
instance of its module named in the last column, with `SPECIFICATION Spec` (`FairSpec` for a property with `~>` or `<>`).

| Module | Property | The code | What it says | Instance |
|---|---|---|---|---|
| `VotePayments` | `OnlyPendingFails` | _handle_charge_failed tests txn.status at line 278 and writes "failed" at line 281 with no row lock or version check, so a success committed in between by verify-and-cast or charge.success is overwritten and the vote drops out of the revenue (`api/v1/endpoints/payments.py:281`) | its docstring, payments.py:271, says "Mark a pending vote-payment transaction failed" | Refs = {r1}, Voters = {a, b}, Reqs = {q1, q2}, Prices = {100, 200}, Amounts = {250}, MaxUssdVotes = 2, AllowRevoting = TRUE, BuyerPaysFee = TRUE, CommissionBps = 1000, DiscountPercent = 50 |
| `VotePayments` | `CountDecidedAtInitiation` | _handle_charge_success computes max(1, txn.amount // vote_price) and never reads txn.vote_count, so a discount, a buyer-paid fee or a price edit changes the number of votes (`api/v1/endpoints/payments.py:227`) | models/transaction.py:47 says of vote_count "Decided at initiation and trusted as-is at verify time, rather than re-derived from amount // vote_price — that division would silently undercount once a promo code changes the per-vote price." | Refs = {r1}, Voters = {a, b}, Reqs = {q1, q2}, Prices = {100, 200}, Amounts = {250}, MaxUssdVotes = 2, AllowRevoting = TRUE, BuyerPaysFee = TRUE, CommissionBps = 1000, DiscountPercent = 50 |
| `VotePayments` | `EveryUseIsRecorded` | _handle_charge_success marks a discounted payment success without record_redemption (only voting.py:809 calls it) (`api/v1/endpoints/payments.py:252`) | models/promo_code.py:94 says of the ledger "One successful use of a promo code" and that "usage_limit/per_person_limit are enforced by counting rows here", so a use settled by the webhook is never counted | Refs = {r1}, Voters = {a, b}, Reqs = {q1, q2}, Prices = {100, 200}, Amounts = {250}, MaxUssdVotes = 2, AllowRevoting = TRUE, BuyerPaysFee = TRUE, CommissionBps = 1000, DiscountPercent = 50 |
| `VotePayments` | `TalliesAreFinal` | verify_and_cast_public_vote inserts the vote without looking at the election's status or window (the webhook does, payments.py:195), so a payment verified after the end changes the results (`api/v1/endpoints/voting.py:784`) | voting.py:245 says of them "Final tallies — only available once the election has ended." | Refs = {r1}, Voters = {a, b}, Reqs = {q1, q2}, Prices = {100, 200}, Amounts = {250}, MaxUssdVotes = 2, AllowRevoting = TRUE, BuyerPaysFee = TRUE, CommissionBps = 1000, DiscountPercent = 50 |
| `VotePayments` | `CollectedIsSettled` | The insert that violates uq_vote_per_category deactivates the session, so update_status on line 252 raises and the webhook is answered 500 on every delivery: the row stays pending with the money collected (`api/v1/endpoints/payments.py:247`) | the log line payments.py:247 says "Vote already exists for reference %s, skipping insert" and the code after it intends to mark success | Refs = {r1, r2}, Voters = {a}, Reqs = {q1, q2}, Prices = {100}, Amounts = {250}, MaxUssdVotes = 0, AllowRevoting = FALSE, BuyerPaysFee = FALSE, CommissionBps = 1000, DiscountPercent = 50 |
| `Ticketing` | `RefundHasNoTickets` | Of two fulfilments of one payment the second can find the last ticket gone, taken by the first, and write needs_refund over the committed success: tickets are issued and the money goes back (`services/ticketing_service.py:1039`) | ticketing_service.py:1056-1058 says it "issues the tickets for a paid purchase, or flags needs_refund" | Types = {standing}, Free = {}, Refs = {r1}, Reqs = {q1, q2}, Orders = OneType, Stock = 1, Quantities = {}, Shelves = {"on_sale", "inactive"}, Capacity = 3, MaxPerUser = 9, SaleLimit = 0 |
| `Ticketing` | `PaidIsHonoured` | failed is terminal, and verify-and-purchase called before the customer has paid, a first charge.failed, or a fulfilment while the event is unpublished all write it: when the money is collected after that the webhook answers 200 and nothing is issued or refunded (`services/ticketing_service.py:1065`) | ticketing_service.py:1056-1058 says a paid purchase "issues the tickets" or "flags needs_refund if stock/sales window changed out from under the payment while it was in flight" | Types = {standing}, Free = {}, Refs = {r1}, Reqs = {q1}, Orders = OneType, Stock = 1, Quantities = {}, Shelves = {}, Capacity = 3, MaxPerUser = 9, SaleLimit = 0 |
| `Ticketing` | `PaidInFull` | _handle_ticket_charge_success passes the payment on without comparing its amount to txn.amount (`api/v1/endpoints/payments.py:308`) | tickets.py:283 refuses the same payment with "Payment amount does not match the ticket price" | Types = {standing}, Free = {}, Refs = {r1}, Reqs = {q1, q2}, Orders = OneType, Stock = 1, Quantities = {}, Shelves = {}, Capacity = 3, MaxPerUser = 9, SaleLimit = 0 |
| `Ticketing` | `LimitPerBuyer` | max_per_user is compared with the tickets already issued when a payment is initiated and never again, so payments initiated before either is fulfilled add up beyond it (`api/v1/endpoints/tickets.py:189`) | tickets.py:192 says "Maximum {ticket_type.max_per_user} tickets per user" | Types = {standing}, Free = {}, Refs = {r1, r2}, Reqs = {q1, q2}, Orders = OneType, Stock = 2, Quantities = {}, Shelves = {}, Capacity = 3, MaxPerUser = 1, SaleLimit = 0 |
| `Ticketing` | `WithinCapacity` | update_ticket_type adds the new quantity_available to what the other types have on offer and sold, and leaves out quantity_sold of the type it changes (`api/v1/endpoints/events.py:607`) | events.py:617 refuses what "would exceed the event capacity of {event.capacity}" | Types = {standing}, Free = {}, Refs = {r1}, Reqs = {q1, q2}, Orders = OneType, Stock = 1, Quantities = {1}, Shelves = {}, Capacity = 1, MaxPerUser = 9, SaleLimit = 1 |
| `Payouts` | `RequestsWithinEarnings` | request_payout reads has_pending and the totals and then inserts, with no lock and no unique index on pending rows, so two overlapping requests each get the whole balance (`services/payout_service.py:222`) | repositories/payout_request_repository.py:65: the totals are "subtracted from gross revenue so an organizer can't request the same money twice" | Rows = {p1, p2}, Transfers = {t1}, Organizers = {o1, o2}, Admins = {a1}, Sale = 6005, MaxRevenue = 12010, Rates = {1000}, Amounts = {4999, 5000}, MinPayout = 5000, MaxPayout = 10000, Answers = {"success", "pending", "otp", "failed"}, Verdicts = {"paid", "rejected"} |
| `Payouts` | `StatusIsTheTruth` | Only an immediate "success" sets status to paid, and no webhook or task follows a transfer answered "pending" or "otp", so the row stays pending after the money arrives (`services/payout_service.py:593`) | models/payout_request.py:25 says "`status` is the source of truth for whether the organizer has actually been paid" | Rows = {p1}, Transfers = {t1}, Organizers = {o1}, Admins = {a1}, Sale = 6005, MaxRevenue = 6005, Rates = {1000}, Amounts = {4999, 5000}, MinPayout = 5000, MaxPayout = 10000, Answers = {"success", "pending", "otp", "failed"}, Verdicts = {"paid"} |
| `Payouts` | `TransferredOnce` | The guard looks at status alone, which a queued transfer leaves "pending", and each call makes a new reference, so paying the request again orders a second transfer (`services/payout_service.py:538`) | the comment at services/payout_service.py:589 gives as the thing to avoid "retrying would call Paystack a second time for money that may already be moving" | Rows = {p1}, Transfers = {t1, t2}, Organizers = {o1}, Admins = {a1}, Sale = 6005, MaxRevenue = 6005, Rates = {1000}, Amounts = {4999, 5000}, MinPayout = 5000, MaxPayout = 10000, Answers = {"success", "pending", "otp", "failed"}, Verdicts = {"paid"} |
| `CheckIn` | `AdmittedOnce` | validate_ticket and mark_as_used decide on a status read without a lock and write it unconditionally, so two overlapping scans both answer "Ticket is valid. Entry granted." (`repositories/ticket_repository.py:120`) | tests/integration/events_tickets/test_ticket_scanning.py:162 test_second_scan_of_same_ticket_is_rejected expects "already been used" for the second one, and never overlaps them | Tickets = {t1}, Scanners = {s1, s2}, Holders = {}, Sweeping = FALSE, Grace = 1, EventDates = {0}, LastDay = 0 |
| `CheckIn` | `ExpiredWasUnused` | The task writes expired on every row it read as valid, whatever the row has become since, so a guest checked in meanwhile is taken off the register (`tasks/ticket_tasks.py:39`) | tasks/ticket_tasks.py:13 says it marks "still-"valid" tickets" | Tickets = {t1}, Scanners = {s1}, Holders = {}, Sweeping = TRUE, Grace = 1, EventDates = {0}, LastDay = 1 |
| `CheckIn` | `CancelledWasUnused` | cancel_ticket checks the status it read and writes cancelled later without a lock, so it can cancel a ticket a scan has used in between (`services/ticketing_service.py:1363`) | its own answer is "Only valid tickets can be cancelled" (services/ticketing_service.py:1360) | Tickets = {t1}, Scanners = {s1}, Holders = {h1}, Sweeping = FALSE, Grace = 1, EventDates = {0}, LastDay = 0 |
| `CheckIn` | `GoodForTheGrace` | check_expired_tickets expires valid tickets as soon as event_date is before today in UTC, and a scan of an expired ticket is not granted (`tasks/ticket_tasks.py:33`) | the comment at api/v1/endpoints/events.py:64 keeps the check-in link alive for SCAN_LINK_GRACE_DAYS because of "an event running past midnight" and "late check-ins" | Tickets = {t1}, Scanners = {s1}, Holders = {}, Sweeping = TRUE, Grace = 1, EventDates = {0}, LastDay = 1 |
| `Elections` | `VotedMeansStarted` | unpublish_election counts the votes in one statement and writes draft in a later one without a lock, so a vote in between ends up in a draft whose ballot can be edited again (`api/v1/endpoints/elections.py:596`) | its docstring says "Blocked once any vote has been cast" (api/v1/endpoints/elections.py:569) | Categories = {c1}, Candidates = {a}, Voters = {v1}, Members = {}, Sessions = {s1}, Organizers = {o1}, Operations = {"add_category", "add_candidate", "publish", "unpublish"}, Beat = FALSE, Salts = {}, LastTick = 2, MaxEdits = 0 |
| `Elections` | `BallotLocked` | remove_candidate, unlike add_candidate and update_candidate, does not look at the status, so a candidate with votes can be taken off a running election (`api/v1/endpoints/elections.py:825`) | the comment at api/v1/endpoints/elections.py:76 says "Once an election is active, its ballot (title, dates other than the end, categories, voting rules, access, venue/geo/tag) is locked so results stay trustworthy" | Categories = {c1}, Candidates = {a}, Voters = {v1}, Members = {}, Sessions = {s1}, Organizers = {o1}, Operations = {"add_category", "add_candidate", "publish", "remove_candidate"}, Beat = FALSE, Salts = {}, LastTick = 2, MaxEdits = 0 |
| `Elections` | `BallotLocked` | add_candidate checks a status read before activate_scheduled_elections commits and inserts the candidate after voting has begun (`api/v1/endpoints/elections.py:646`) | it answers "Cannot add candidates after voting has started" (api/v1/endpoints/elections.py:635) | Categories = {c1}, Candidates = {a, b}, Voters = {v1}, Members = {}, Sessions = {s1}, Organizers = {o1}, Operations = {"add_category", "add_candidate", "schedule"}, Beat = TRUE, Salts = {}, LastTick = 2, MaxEdits = 0 |
| `Elections` | `CompletedIsFinal` | The task writes active on every election it read as scheduled, whatever has become of it since, so an election published and closed meanwhile is started again (`tasks/vote_tally_tasks.py:142`) | VALID_TRANSITIONS at api/v1/endpoints/elections.py:437 ("active": ["completed", "draft"]) has no way out of completed | Categories = {c1}, Candidates = {a}, Voters = {v1}, Members = {}, Sessions = {s1}, Organizers = {o1}, Operations = {"add_category", "add_candidate", "publish", "schedule", "close"}, Beat = TRUE, Salts = {}, LastTick = 2, MaxEdits = 0 |
| `Elections` | `ResultsAreFinal` | cast_vote checks the status it read and inserts the vote later without looking again, so a vote can land after close_election has made the results available (`services/voting_service.py:243`) | the message at tasks/vote_tally_tasks.py:77 says "Voting has closed and results are ready." | Categories = {c1}, Candidates = {a}, Voters = {v1}, Members = {}, Sessions = {s1}, Organizers = {o1}, Operations = {"add_category", "add_candidate", "publish", "close"}, Beat = FALSE, Salts = {}, LastTick = 2, MaxEdits = 0 |
| `Elections` | `ReceiptIsFound` | cast_vote writes one receipt per vote and get_by_user_and_election calls scalar_one_or_none, which fails on two rows, so the receipt of a voter of two categories is never found (`repositories/vote_repository.py:99`) | get_receipt is "The signed-in voter's receipt for a vote already cast in this election" (api/v1/endpoints/voting.py:219), and services/voting_service.py:223 says the "voter can cast one free vote in each category of this election" | Categories = {c1, c2}, Candidates = {a, b}, Voters = {v1}, Members = {v1}, Sessions = {s1}, Organizers = {o1}, Operations = {"add_category", "add_candidate", "publish", "close"}, Beat = FALSE, Salts = {}, LastTick = 2, MaxEdits = 0 |
| `ReportExports` | `OneRenderAtATime` | Past the window two overlapping requests both find the stale job and both restart it and send a task, since restart is an UPDATE the unique index does not stop (`repositories/report_export_job_repository.py:73`) | models/report_export_job.py:21 says "a retried/duplicated request with the same key returns the existing job instead of enqueueing a second render" | Jobs = {j1, j2}, Requests = {r1, r2}, Tasks = {t1, t2}, Window = 1, Limit = 1, MaxWait = 0, MaxDeaths = 0, MaxLost = 0 |
| `Sessions` | `NoneOutlivesAKill` | two requests that end all sessions each load token_version and write it plus one, so when they overlap they share one version, and a session begun between the two commits outlives the second (`services/auth_service.py:384`, `:429`, `:443`) | services/auth_service.py:357: "Bumps token_version so every access/refresh token issued so far — across every device, not just the caller's — stops validating" | as `sessions`, Changes = {a1, a2} |
| `Sessions` | `AuthenticatorFits` | start_setup writes a new pending secret also on an account whose second factor is on, and the secret in use is that column (`services/two_factor_service.py`) | start_setup: "A re-scanned QR from an abandoned attempt just replaces the pending secret" | as `sessions` |
| `Organizations` | `MemberOnce` | an invitation and a direct addition, or two acceptances, each look for the member and then insert; (org_id, user_id) is not unique | "User is already a member", "You are already a member of this organization" | one manager, one joiner |
| `Organizations` | `MembersReachTheDashboard` | invite_member_by_email grants the platform role only for the role "admin" (`api/v1/endpoints/organizations.py:497`); the backfill repairs it once, at deployment | services/org_role_backfill.py:9: "Every member needs these to reach the organizer dashboard at all" | one manager |
| `Organizations` | `OneOwner` | two transfers, or a transfer and a removal, decide on the same loaded members | one owner_id, "Only the organization owner can transfer ownership" | Managers = {s1, s2} |
| `Nominations` | `BallotKeepsItsNames` | review_group approves a nomination, and creates its candidate, in an election of any status (`services/nomination_service.py:461`) | api/v1/endpoints/elections.py:360: "the rest of the ballot is locked so results stay trustworthy"; add_candidate refuses "Cannot add candidates after voting has started" | Forms = {f1}, Categories = {c1}, Nominees = {n1, n2}, MaxSubmissions = 1, Reviewers = {s1}, MaxSaves = 0 |
| `Nominations` | `OneCandidateEach` | a review reads the candidates and later creates one, while add_candidate creates the same name, or while another review of the group does, when neither has a row to write (the locks are on submissions, and (category_id, name) is not unique) | review_group looks for an existing candidate of the name first | Reviewers = {s1, s2} |
| `Nominations` | `RejectedPhotosAreGone` | a submission that comes in, or a form saved without its photo question, between load and commit keeps its file | "Delete stored photo files from all submissions in a rejected group" | Reviewers = {s1}, MaxSaves = 1 |
| `PromoCodes` | `AppliesToItsOwnOrg` | resolve_for_checkout applies a code without scope rows to any purchase; so does a code whose only scoped draft was deleted, its row gone by ON DELETE CASCADE (`services/promo_code_service.py:238`) | models/promo_code.py:26: "an empty list means it applies to everything the owning org runs" | Orgs = {o1, o2}, Activities = {k1, k2} |
| `PromoCodes` | `PaymentsKeepTheirCode` | a code is deleted while a payment that will redeem it is open, and fulfilment fails on the foreign key (`services/ticketing_service.py:1172`, `api/v1/endpoints/voting.py:809`) | "This code has already been used and can't be deleted" | Payments = {p1} |
| `PromoCodes` | `ScopeIsOneSave` | each of two saves deletes the scope rows it sees and inserts its own, so both stay | replace_scope replaces the list | Savers = {s1, s2} |
| `Financials` | `OrganizerNetsTheBase` | PayoutService takes gross * bps / 10000 of everything the buyers paid, the surcharge included, whoever pays the fee (`services/payout_service.py:152`) | core/financial_breakdown.py:44: "the commission is added on top so the organizer still nets the full base price" | the `office` part with the buyer as fee payer |
| `Financials` | `DrillInReconciles, RankingReconciles, ListsAddUp, ChartAddsUp` | queries of their own: list_all_events counts the money of votes only, windows begin at midnight or now, rates are read today or then | admin.py: "so the figures reconcile with the drill-in an admin has already seen" | the `office` part |
| `SupportChats` | `ClosedChatsArePurged` | purge_closed_chats is one bulk DELETE, which the foreign key of support_messages refuses while a chat has a message, and every chat has one (`tasks/support_chat_tasks.py:30`, `models/support_ticket.py:68`) | tasks/support_chat_tasks.py:14: "deletes chat-channel tickets (cascading to their encrypted messages)" | Tickets = {t1}, Agents = {a1}, Requests = {r1}, Watchers = {}, Retention = 1, LastDay = 3, MaxMessages = 1 |
| `LiveResults` | `StreamsCatchUp` | every way of casting a vote publishes after the INSERT and commits at the end, so a stream can read without the vote, cache what it read, and be woken by nothing else (`services/voting_service.py:260`) | api/v1/endpoints/voting.py:872: "pushes a fresh tally the instant a vote lands" | Categories = {k1}, Places = {1}, Votes = {v1}, Weights = {1}, Streams = {s1}, Polls = {} |
| `LiveResults` | `SharesAgree, TotalsAgree` | where a vote may choose several or nobody, the candidate's page divides by votes and the lists by choices; the console's total adds the choices of the categories, the public one counts votes | the pages show one election to its candidates, organizers and public | votes that choose two candidates or none |
| `Events` | `CapacityHolds` | update_ticket_type leaves out quantity_sold of the type it changes, which create_ticket_type counts (`api/v1/endpoints/events.py:605`) | events.py:616 refuses what "would exceed the event capacity of" | Types = {t1}, Requests = {r1}, Quantities = {1, 2}, Capacities = {3}, FreeStock = 9, LowStock = 20, MaxSold = 3 |
| `Events` | `LowStockSaidOnce` | _maybe_notify_low_stock takes the stock of the object in memory for the stock before the sale, but decrement_available is an ORM-enabled UPDATE that has already lowered it (`services/ticketing_service.py:264`) | ticketing_service.py:254: "Fires exactly once, on the sale that pushes remaining stock at or below the low-stock threshold" | Types = {t1}, Requests = {r1}, Quantities = {1, 2, 5}, Capacities = {9}, LowStock = 1, MaxSold = 9 |
| `Events` | `AnsweredOnce, OneSeatEach` | two answers to one invitation both read it pending, and both write (`services/event_invitation_service.py:128`) | "This invitation has already been responded to" | Invitations = {i1}, Requests = {r1, r2} |
| `Events` | `OnlyDraftsAreDeleted, LiveBallotHasCandidates` | delete and publish decide on what they read while the other commits | "published events must be cancelled instead"; "must have candidates before it can go live" | Requests = {r1, r2}, Categories = {c1} |
| `Backups` | `SnapshotIsAtHand` | restore_backup records the snapshot in backup_records, which pg_restore --clean then replaces by its state at the time of the dump: the record is gone and its file stays unlisted (`services/backup_service.py:206`) | "Pre-restore safety snapshot"; endpoints/backups.py:97: "this operation is irreversible without a subsequent backup" | MaxBackups = 2, Keep = 1, LastSecond = 2, MaxWrites = 2 |
| `Backups` | `SnapshotIsOfBefore, RestoreIsFree, CompletedHasItsFile, LifecycleIsKept` | the snapshot is only queued when the restore begins; pg_restore waits for locks of a transaction its own process holds; two dumps of one second share a file; a restore brings records back as "running" | "Owns the full lifecycle: pending -> running -> completed/failed" | as above |
| `VerifiedVotes` | `OneGoodCode, OneVotePerCode` | overlapping requests each invalidate what they see and add a code; overlapping checks of one code both find it unused (with revoting both cast) | "Invalidate any previous unused OTPs for this email+category" | as `ballots`, Revoting = TRUE for the second |
| `VerifiedVotes` | `InvitedIsListed` | add_eligible_voters queues the invitations before it commits, and the commit may fail | the invitation tells its reader that they may vote | as `ballots` |
| `Mailings` | `BroadcastsComplete` | the task module is missing from the worker's include list (`tasks/celery_app.py:12`), so no chunk is worked | the broadcast is "sending" until its chunks have reported | Registered = {} |
| `Mailings` | `NoticedInItsWindow` | a notice whose transaction is rolled back has taken the cooldown all the same (`services/org_notification_service.py:63`) | "tells the organizer at most once per cooldown window" | the notices part of `office` |
| `Monitoring` | `TailShowsEverything` | an entry captured by a transaction that began before the cursor and commits after it is passed over (`api/v1/endpoints/app_logs.py:97`) | "Streams new AppLog rows as they arrive" | the logs part of `console` |
| `Monitoring` | `PurgedIsGone, RetriedAsItWas, OneOpenIssue, ClearedIsCleared` | signals write a job in several commands; long arguments are kept shortened and a retry sends those; two captures both find no open entry; a probe under way stores its answer after the cache is cleared | queue_service: "Delete all tracked failed jobs for a specific queue"; app_log_repository: "Increment occurrence_count if fingerprint seen recently, else create new" | the parts of `console` |
| `Files` | `ApprovedAsSeen, ApprovedOnItsPapers, ApprovalClearsTheReason, NothingIsOrphaned` | verification does not compare with the papers that were opened; BaseRepository.update skips None, so rejection_reason stays (`api/v1/endpoints/admin.py:691`); a replaced picture keeps its file | admin.py's verify clears the reason by writing None | Tabs = {m1}, MaxFiles = 3 |
| `AdminConsole` | `SomeAdminRemains, AssignedWholesale, TogglesAreKept, SettingsAreAudited` | two admins take the role from each other; assign_roles deletes what it sees and inserts its own (`api/v1/endpoints/admin.py:244`); a toggle writes the whole list; settings are committed before their entry (`admin.py:834`) | "Replace a user's roles wholesale" | Requests = {r1, r2} |
| `AdminConsole` | `PagesMissNoOne` | list_users orders by created_at alone, and rows of one transaction tie (`repositories/base.py:30`) | repositories/base.py: without an order "a row can appear on two pages or on none" | MaxBatch = 2 |

Some instances pass and widen the picture: `Payouts` with organizers one at a time and admins who only
pay (`RequestsWithinEarnings`, `SuccessIsNotRepaid`), `CheckIn` with two overlapping scanners and nobody
else (`RegisterIsTrue`), `CheckIn` with one gate (`AdmittedOnce`), `ReportExports` with one request at a
time and a window as long as queue and render (`CompletedHasFile`, `OneRenderAtATime`, `NoRenderIsStranded`).

Seen while modelling, without a property: a payment verify finds short is marked failed and the
exception that answers rolls the mark back; the expired branch of a scan reads an attribute its
result does not have (`ticketing_service.py:1266`); the lockout counter and the bump for a replayed refresh
token are rolled back by the 401 that follows (`auth_service.py:201`, `:337`); an expired pending invitation
blocks a new one, to an organization and to an event alike; update_member_role clears org_role_id when it is
left out; two confirmations that overlap on a phone, or a redial after a JuniPay timeout, start two
charges, each as quoted; checkout by phone does not ask again whether voting is open; rejecting after approval
leaves the candidate, and approved nominees get no short code; a limit or expiry of a promo code
cannot be removed, since update skips None; a 100 % code makes an order of votes unbuyable; a commission override
rewrites past reports, which `PastSalesKeepTheirReport` excepts; a customer's message does not reopen a closed
chat; list ranks split ties; update_event may lower the capacity below what is sold; "Free Registration"
with its 999 999 seats keeps an event with a capacity from getting another type; the hard time limit of 300 s
is shorter than the dump's 600 s; the queues `emails` and `reports` have no worker in the compose files;
nothing writes abuse alerts nor evaluates log alerts; a failed transcode is served as the original with
a cache life of a year; several settings of the console are read by nobody.

## 6. What is left

Not modelled, and why: search, templates and the activity log read and write single rows that nothing else
reads; schemas are guards where they matter; rate limits, logging and headers only refuse; migrations, seeders
and deployment run around the program; the layout of exports, mails, PDF tickets and charts is text; row-level
security would need a model of PostgreSQL policies. Organizations leave out activation, KYC
review (in `Files`) and branding; `Nominations` the submissions to events, which no review reaches.

What a continuation would prove next: `SpentOnAVote` of `VerifiedVotes` and `RingHoldsTheLatest` of `Monitoring` (what a request in
flight knows is still so), `DecodableByItsClient` of `Files` from `IInv`, and `AdmitsOnce` of `Organizations`; then the
sums of `Financials` (`SurchargeIsTheFee`, `OrganizationsAddUp`, `PercentilesHold`), which need lemmas about
rounding, and `AccountsAreAudited`, which needs `SelectSeq` of a longer log.
