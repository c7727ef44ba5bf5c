# Formal models of the trading platform

This directory holds TLA+ models of the server side of the platform (the
trade application under `src/apps/trade`, with a look at the CRM under
`src/apps/crm`), the TLC configurations that check them on small instances,
and theorems about them that TLAPS checks for every value of the constants.

Everything is translated from the TypeScript source.  `PROJECT.json` maps each
definition to the lines it stands for, lists the runs, the defects that each
property has been seen to catch ("mutants"), the hazards of the code and the
theorems.

- [The system](#the-system)
- [The plan](#the-plan)
- [The modules](#the-modules)
- [The runs](#the-runs)
- [What is proved](#what-is-proved)
- [Disagreements between code and text](#disagreements-between-code-and-text)
- [What is not modelled](#what-is-not-modelled)

## The system

The repository is a monorepo of three Next.js applications.  The trade
application keeps the money.  It runs as one or more Node processes over
PostgreSQL (through Prisma) and Redis; the position engine lives in the memory
of one of them.

### Components

| Component | State | Operations | Hard part |
|---|---|---|---|
| Per-user lock, `locks.ts` | a map from user to the tail of a promise chain | `runExclusive` | calls that arrive between a release and a wake-up; a call that throws; growth of the map |
| Payment desk, `payments.ts`, wallet routes | `PaymentRequest`, `PaymentEvent`, ledger rows | submit, prepare, approve, reject, cancel, reverse, reconcile | late and repeated commands, several reviewers, funds shared with trading, retried transactions |
| Ledger, `ledger.ts` | append-only double-entry lines, idempotent by reference | post, reverse, balance | idempotency against partial failure |
| Transactions, `db.ts` | none | `withSerializableRetry` | the callback may run several times |
| Position engine, `engine/hub.ts`, `positionEngine.ts` | position rows, and their copies in memory; marks | open, close, protect, adjust, tick (triggers, stop-out, checkpoint), start-up | memory and rows drift apart: failed or unacknowledged transactions, unlocked tick, restart |
| Reconciliation, `reconciliation.ts`, `reconciliationScheduler.ts` | runs, cases, blocks, a Redis lease | claim, check, persist, open blocks, finalise, fail; release, resolve, resolve all | several replicas, crashes between transactions, lost leases, operators in between |
| Referrals, `referrals.ts` | referral rows, two credits | complete and pay out | status first, credits later |
| Administrative commands, `adminBalance.ts`, `accountingCommands.ts` | ledger rows | credit, debit, advance, repay | idempotency, overdraft |
| Maker-checker changes, `adminChanges.ts`, `adminPolicy.ts` | change requests, role rows, the flag `isAdmin`, risk rules and instruments | request, review, execute; the promotion script | reviews at the same time, roles revoked meanwhile, the last SUPER_ADMIN, the fallback for administrators without a role row |
| Audit chain, `audit.ts` | hash-linked rows | append, verify | concurrent appends |
| Email outbox, `email/` | delivery rows with claims, one pass per process | queue, send at once, recover, select, claim, deliver, record, requeue | several dispatchers over one table, old copies of rows, lost answers, a slow delivery taken for a dead one |
| Identity, `auth.ts`, `security/` | sessions, tokens, MFA codes, throttle counters | log in, revoke, verify, lock out | counters in two stores, single-use tokens |
| Documents, `security/kycDocuments.ts`, `storage.ts`, payment proofs | quarantined and promoted objects | upload, scan, promote, block | overlapping scans |
| WebSocket gateway, `ws/server.ts`, with the browser's `lib/ws/client.ts` | connections, subscriptions, the index by symbol, presence counts; the tab's socket and what it subscribes to | connect, authenticate, replay, handle, broadcast, heartbeat, close | frames and closes before the user is known, links cut silently, snapshots beside updates, reconnects |
| Market data, maintenance | caches | polling, deletion | little state of their own |
| CRM records, `apps/crm/src/server/records` | leads, contacts, tasks, notes | convert, merge, delete, bulk actions, new tasks | a look outside the transaction, then a write: conversion against merge |
| CRM events, receiving side | event log, notifications | ingest | notification outside the transaction |

### How they interact

- HTTP routes and WebSocket requests call the engine and the payment desk.
  Engine mutations and withdrawal submission of a user run inside
  `runExclusive(userId)`; the reviewers' payment commands do not, they rely on
  an advisory lock per request and on serializable isolation.
- Engine and desk share the ledger accounts of the user: available, margin and
  pending withdrawal.
- Reconciliation reads the books of all users and opens blocks, which the
  engine and the desk look at before they let money out.
- The desk and the engine tell the CRM of events, by an HTTP request nobody
  waits for.
- The tick of the engine runs beside all of that in the same process; only its
  closes take the user's lock.
- The engine broadcasts positions through the gateway to the registered
  connections of their user, and reads the gateway's presence counts.
- A business transaction inserts its emails; the dispatchers of the trade and
  the web application share the table.

### What makes it correct

- **Lock**: exclusion, arrival order, no starvation, no leak.
- **Desk**: every request moves its amount once and back once; nobody
  overdraws; pending equals what is requested; nobody decides on a payment of
  their own, nobody approves what they prepared (under strict review) or
  undoes what they approved; daily limits; a block stops withdrawals.
- **Engine**: each position is settled once; margin equals that of the open
  rows; free funds never go negative; memory and rows agree on protections;
  stop-outs and stop losses are enforced; a closed row is final.
- **Reconciliation**: one worker at a time unless it stalls; a reference is
  replay-safe; a completed run stays completed, unless the answer to its
  completion was lost; no crash stops a run for ever.
- **Outbox**: one dispatcher at a time has a mail; a mail recorded as sent was
  taken by the provider; attempts are bounded; every mail is settled.
- **Gateway**: presence and routing are exact; when nothing is on its way both
  ends agree, but for four cases with a name; a tab gets its connection back.
- **Maker-checker**: two people stand behind every change of authority or of a
  rule; the last SUPER_ADMIN row stays.
- **Leads**: a merge takes effect only on a survivor that is not converted.

## The plan

Order: most of the money first, then the mechanisms around it.

1. `Lock`, `KeyedMutex` – done.
2. `Settlement`, `Payments` – done.
3. `TradingEngine` – done.  It relies on `KeyedMutex` through the variable
   `job` (exclusion) and the fairness of `TickTakesLock` (arrival order).
4. `Reconciliation` – done.
5. `Delivery`, `EmailOutbox` – done.
6. `AdminChanges` – done.
7. `Gateway` – done.
8. `Leads` – merge, conversion, deletion and bulk actions done; the other
   records and the ingest of trade events are left.
9. `Referrals` (with the administrative credits): status first, credits later,
   the cap read before.  Abstract specification: a reward is paid at most once.
10. `PaymentProofs`: the quarantine, scan, promote and block steps that payment
    proofs and KYC documents share.
11. `Identity`: login throttle in Redis and database, sessions, recovery codes.
12. `PositionMath`: the pure functions of `positionEngine.ts` (profit, margin
    level, the dealer's adjustment) against a reference definition.

More runs wanted for the modules that exist: the checkpoint that writes an old
adjustment over an audited one, the close that is booked without the spread
markup, the card refund of a reversed deposit.

## The modules

### `Lock`, `KeyedMutex`

`KeyedMutex` is `locks.ts`.  `tails` is the map; a promise is represented by
the call that made it.  `Request` is the code up to the first `await`,
`Enter` the continuation after it, `Finish` the `finally` block, whether the
work returned or threw.  JavaScript runs each of these without interruption.
`arrival` and `clock` are history variables.

`Lock` says what callers rely on: same-key calls run one at a time, in the
order they were made.  `KeyedMutex!Abstract` is the refinement mapping.

### `Settlement`, `Payments`

A command of the desk is one serializable transaction under an advisory lock,
so it is one action, with its ledger postings and the event that records it.
A command stays available for ever: a late or repeated delivery is just
another step with the same record.  `Fresh` is the look-up of the key; a known
key changes nothing.  Both deployments that the code distinguishes by
environment variables (`strict` dual review, `simple` approval) are initial
states.

`AbortedAttempt` is a transaction whose callback ran to its end and whose
commit PostgreSQL refused: nothing remains but the CRM event already sent.
`MarginMoves`, `BlockOpens` and `BlockReleased` are what the engine and the
reconciliation (modules of their own) do to the desk: a reservation or release
of margin, a block opened or released at any moment.

`DualControl` compares just the pairs the code compares.  A reversal looks at
the owner and at `reviewedBy` (`payments.ts:827`), so whoever prepared a
request may reverse it after somebody else approved it.

`Settlement` is the promise to a customer: a request is opened, then settled
or closed, and a settled one may be returned; holdings change by its amount
just then.

Left out: upload and scan of proofs (only whether a live clean one exists),
money formats, the emails.  No request becomes a day old, so the velocity
window is everything.

### `TradingEngine`

One user.  `status` and `saved` are columns of the rows, `booked` and `cover`
what the ledger has booked and reserved under the reference of each order;
`mirror` is `openPositions`.  A mutation is a `job` that holds the user's lock
and goes through up to three steps: what it captures from memory (`OpenBegin`,
`CloseBegin`, `AdjustBegin`, `ProtectBegin`), its transaction (`Commit`,
`CommitRefused`, `CommitAckLost`), the update of memory (`UpdateMirror`).
`tick` is the place of `tickAll`: marks and triggers, the due closes, the
stop-out pass with its gate, the checkpoint, whose copy (`snapshot`) is
written later.  A mark uses the base rate if the user's settings cannot be
read.  The feed, the payment desk (`FundsMove`) and `Crash` run in between.
`lost` remembers that a commit was reported as failed since the process
started.

Abstractions: unit volume and one margin for all orders, so that
`MarginBacksOpenRows` counts reservations; swap is part of the profit; the
dealer's percentage is 0; a stop loss stands for the three triggers of
`markPosition`; pending withdrawals are not part of the equity; admission
checks that only refuse are left out, so every order that may be admitted is.

### `Reconciliation`

`lease` is the Redis key, `worker` the call each replica is in, `run` the
status of each run, `stale` the runs whose heartbeat is older than
`RUN_STALE_MS`.  `persistRunResults` is `PersistCases`, one transaction, then
one `OpenBlocks` per user and case.  The real code opens the blocks of a chunk
of users in one transaction; a finer grain allows every order that has.
`Throws`, `Crash`, `LeaseExpires` and `RunAges` may happen anywhere.
`FinalizeUnacknowledged` is a completion that committed and whose answer was
lost: `finalizeRun` is inside the `try`, so the `catch` marks the run as failed
without looking at it (`Misheard`).  An
attempt finds any set of findings, so nothing is assumed of the checks.
`finished` and `stalled` are history.  ACKNOWLEDGED cases are counted as
unresolved: nothing distinguishes them.  `leaseLost`, which the code only
reports, is left out.

### `Delivery`, `EmailOutbox`

`EmailOutbox` is `email/service.ts` with what the dispatcher needs of
`provider.ts`.  `status`, `attempts`, `due` and `old` are the columns of a row
as far as the code compares them; `pass` is the `dispatchOnce` of each process:
its place (`Recover`, `Select`, `Claim` or `PassOver`, `Deliver`, `RecordSent`
or `RecordError`) and the copies of rows it still has to do.  The update to
SENT is inside the `try` of the delivery: if it fails (`RecordSentFails`), or
takes effect and is not acknowledged (`RecordSentUnacknowledged`), the `catch`
records an error, whatever the status is by then.  Between two
places everything else may happen, since each is an `await`.  A claim compares
the status of the copy but not its count, and the count of the copy decides
whether an error is the last (`Terminal`).  `Abort` is a crash, or an error
thrown by the `catch` block; `LiveClaimExpires` is a process that stalls
beyond the processing timeout while it still has the mail, and `stalled`
remembers the mails it happened to.  `Queue`, `SendNow` and `Requeue` are the
writes of the rest of the application.

`Delivery` is the promise to those who queue a mail: it is sent only if the
provider took it, given up only after enough attempts since it was queued or
requeued, and settled for good unless an operator asks again.  Its exceptions
are part of it, one name each:

- `doubted`: a record of success whose acknowledgement was lost.  Its own
  attempt may replace SENT by RETRY or FAILED once; the mail is then sent again,
  under the same idempotency key.
- `hurried`: requeued while a pass held an old copy of the row (`Held`).
  Requeueing sets the count of attempts to 0, but the copy still decides by
  the old count, and may give up at the first attempt.
- `lapsed`: the claim expired under a live attempt (`stalled`).

### `Gateway`

Both ends of the WebSocket.  A tab has one `socket`, what it wants (`desired`)
and what its store shows; a connection has the state of its link, the place of
the server's `connection` handler (`auth`, `served`, `refused`), the frames on
their way in each direction, the early frames kept while the user is looked up,
and its subscriptions.  `registered`, `bySymbol`, `disconnected` and `online`
are the server's `clients`, `clientsBySymbol`, the closures' `disconnected`
and the engine's `onlineCounts`.

`Authenticated` registers and replays; a close event that came before it had
no listener, so the connection stays registered (`leaked`) although its peer
is gone.  Early frames beyond the buffer are dropped (`truncated`).
`account_subscribe` reads the positions, then awaits the account figures, then
sends: an update may be sent in between (`overtaken`).

The engine's part is one position per user.  `Opens` puts it into memory and
then awaits the account figures; `Announces` broadcasts it, and if the figures
failed the next mark does.  `ClosesPosition` broadcasts at once.
`DropsPosition` is the branch of a close that finds the row closed already, by a
transaction whose acknowledgement was lost: the position leaves the memory and
nothing is broadcast (`untold`).

`leaked`, `truncated`, `overtaken` and `untold` are ghosts that name the cases
the properties except, and `opening` are the positions not broadcast yet; the
properties say that there are no others.

### `AdminChanges`

`adminChanges.ts` with `adminPolicy.ts`.  `held` are the active role rows,
`isAdmin` the flag; `Roles` has the legacy fallback: an administrator without
any row counts as SUPER_ADMIN.  A review is its reads (`Begin`) and its commit
(`Commit`), which succeeds only if nothing it read was written in between;
that is what serializable isolation guarantees, and it is all the code relies
on.  `Promote` is `promote-admin.ts`.

The fallback has a corner: those who are SUPER_ADMIN only by the fallback are
not counted when the last SUPER_ADMIN row is about to be revoked, and lose the
power when any lesser role is assigned to them.  `SuperAdminRemains` speaks of
the rows, as the code's check does.

### `Leads`

Merge, conversion, deletion, bulk actions and new tasks of CRM leads.  Each
request looks at its leads first and writes in a transaction afterwards;
`call` is what a request has looked at.  The guards inside the transactions
(conversion has one, merge has none for its survivor) are conjuncts of the
second step.

### `Sums`

Not a model: lemmas on sums over finite sets for `Payments_proofs` and
`TradingEngine_proofs`.

## The runs

Runs with `expect: pass` check all the properties of their component.

| Run | Instance | Distinct states | Properties |
|---|---|---|---|
| `keyed_mutex` | 3 calls of one user, 1 of another | 9 065 | `TypeOK`, `MutualExclusion`, `Fifo`, `NoLeakedTail`, `EveryCallServed`, `ImplementsLock` |
| `payments` | a customer who is also a reviewer, 2 more reviewers, 2 deposits, 3 withdrawals, 17 commands, both deployments, 1 refused commit | 267 974 | `TypeOK`, `NoOverdraft`, `BooksMatchRequests`, `DualControl`, `VelocityLimit`, `ChangesAreRecorded`, `BlockStopsWithdrawals`, `ImplementsSettlement` |
| `trading` | 2 opposite orders, 2 rates, 1 failure or crash | 547 204 | `TypeOK`, `SettledOnce`, `MarginBacksOpenRows`, `NeverNegative`, `ProtectionIsDurable`, `StopOutEnforced`, `ClosedRowsAreFinal`, `StopLossHonoured` |
| `reconciliation` | 2 replicas, 1 reference, 2 attempts, 1 failure, 2 lapses, a critical finding about two users and a warning | 568 608 | `TypeOK`, `LeaseIsExclusive`, `NoDuplicateCases`, `FinishedAttemptsBlocked`, `CompletedIsFinal`, `RunsComplete` |
| `email_outbox` | 2 dispatchers, 2 mails in one batch, 2 attempts, 1 fault or stall, 1 requeue | 387 200 | `TypeOK`, `OneDeliverer`, `AttemptsBounded`, `ImplementsDelivery`, `EveryMailSettles` |
| `gateway` | 1 tab, 2 symbols and a limit of 1, 2 connection slots, 2 early frames, 1 break, 2 toggles, 1 trade from either position | 274 636 | `TypeOK`, `PresenceExact`, `QuietMeansAgreed`, `TabsRecover` |
| `admin_changes` | 3 people in 4 kinds of staff, 2 requests, 2 reviews at a time | 1 139 267 | `TypeOK`, `SuperAdminRemains`, `ChangesAreReviewed` |

### Bounds, and why they are enough

- `keyed_mutex`: with three calls there can be one at work, one released but
  not awake, and one just arriving, which is the situation that a wrong
  deletion of the map entry needs.  The fourth shows that users do not mix.
- `payments`: the withdrawals share a destination and together exceed the
  limits; the amounts are such that a deposit can be spent before it is
  reversed; one command key is used for two commands; every reviewer tries
  what the segregation of duties forbids.  `Command` is what may be sent,
  `Contended` which commits may be refused, `MaxAborts` how often.
- `trading`: `MaxFailures` counts refused and unacknowledged transactions,
  crashes and unreadable settings.  The funds pay for exactly both margins and
  commissions, a move between the two rates or a dealer's adjustment takes the
  account below the stop-out level, and the stop level lies between the rates.
  Two positions are needed for the loop of the stop-out pass.  `Sent` lists
  the requests; a request may be sent any number of times.
- `reconciliation`: two attempts suffice for a takeover, two lapses for a
  replica that loses both its lease and its run.  `Handled` restricts the
  blocks an operator releases one by one to one kind; `BulkResolveAll`
  releases the others.
- `email_outbox`: a pass may hold both rows, so that a copy gets old while the
  pass is busy with the row before; two dispatchers and two attempts let a row
  exceed its limit by an old copy.  `MaxFaults` counts crashes, errors, lost
  answers and stalls, `MaxRequeues` the operator's route.
- `gateway`: two slots suffice for one tab, as a slot is used again when
  nothing remembers its connection; one may leak and the other still serves.
  The limit of one subscription makes the server close a socket for each frame
  too many. Two toggles reach a subscription and its end on different sockets.
  The position is open or not at first, and is opened and broadcast, or
  closed, or dropped, once: each makes a snapshot older than what follows it.
- `admin_changes`: two requests can revoke each other's checker or the last
  two SUPER_ADMINs at once; the staffs include a fresh deployment, where only
  the script can promote somebody.
- `CHECK_DEADLOCK FALSE` stands in each configuration whose system may come to
  rest: all calls made, all requests decided, all bounds used up.

### Fairness

- `KeyedMutex!FairSpec`: `Enter` and `Finish` of each call are weakly fair.
  The event loop runs every continuation whose promise has settled, and the
  work of a holder is a transaction with a timeout.  New calls need not come.
- `TradingEngine!FairSpec`: weak fairness of the steps of a job and of the
  tick, which an interval timer starts again and again; strong fairness of
  `TickTakesLock`, because the lock may be taken by others repeatedly but is
  first come, first served (`KeyedMutex!Fifo`, proved).
- `Reconciliation!FairSpec`: a call runs to its end; a Redis key expires and a
  heartbeat ages in time; and a run that is not complete is requested again
  (strong fairness, since a replica and the lease are free only now and then).
  This last assumption is about the callers.  The scheduler asks for a window
  at its end and, after a restart, while it is the latest one; for an older
  window it is an operator who asks again with the reference.  `RunsComplete`
  says that asking helps, not that somebody asks.
- `EmailOutbox!FairSpec`: weak fairness of each dispatcher's steps (a timer
  starts passes for ever, and a request to the provider has a timeout), of the
  time a retry waits for and of the expiry of an orphaned claim.
- `Gateway!FairSpec`: frames arrive on a link that is up, calls return, a
  closed socket gets its event, the timers of both ends run (the heartbeat
  gives up a cut link, the tab notices a silent one), and a tab without a
  socket reconnects.
- `Payments!Spec` and `AdminChanges!Spec` have no fairness and no liveness
  property: nobody has to review a request.

## What is proved

`*_proofs.tla` hold theorems that TLAPS checks for every value of the
constants that satisfies the assumptions the modules name.

**`KeyedMutex_proofs`** – for any calls and users.  The inductive invariant
says that the arrival ranks are distinct, that a map entry is the latest call
of its key, that a call awaits the one made just before it, and that whoever
has begun has only finished calls before it.  From it: `TypeOK`,
`Fifo`, `MutualExclusion`, `NoLeakedTail`, and that the promise chain implements
`Lock`.  Arrival order is the heart: exclusion alone is not inductive.
`NoDeadlock` (`NeverStuck`): of the calls for a user that are not over, the one
made first is at work or awaits nobody.

**`Payments_proofs`** – for any customers, reviewers, requests, commands and
limits.  `Typing`; `Segregation` (`DualControl`: the pairs of people that the
code keeps apart stay apart over any sequence of commands) from an invariant
that ties the recorded events to `preparedBy`, `reviewedBy` and the status; and
`SettlesOnce`: the desk implements `Settlement`, step by step.  `Solvency` and
`Reservation` (`NoOverdraft`, and the part `PendingIsReserved` of
`BooksMatchRequests`) follow together: a pending
account equals the sum of the user's queued withdrawals, so a command that
takes a request off the queue finds its amount there.  `Conservation`
(`BooksMatchRequests`) adds that a customer's holdings and the cash account
differ from the start by just what is approved and not reversed (each command
changes the sum of the approved requests and the two accounts by the same
amount), and that the posted references follow from the statuses, so that the
ledger refuses nothing a status allows.  `Velocity`: the sum and
the number of the day's withdrawals stay within the limits.  `Idempotence`
(`ChangesAreRecorded`) and `BlockHolds` (`BlockStopsWithdrawals`) are about
steps and need no invariant beyond the types.  `OnlyRefusedCommitsMislead`: what
the run `payments_crm` denies is true as long as no commit was refused.

**`Sums`** – a sum over a finite set, which the community modules compute by a
CHOOSE at each step, does not depend on the order, and an element more adds
its term.  The induction on the size of the set is by least counterexample,
from the well-foundedness of the naturals.

**`TradingEngine_proofs`** – for any finite set of orders and any rates,
levels, requests and number of failures.  The invariant relates memory to the
rows at each step of a job: in step with them, or one write behind for the
order of the job, unless an acknowledgement was lost.  From it:
`ProtectionIsDurable`, `MarginBacksOpenRows`, `NeverNegative`,
`ClosedRowsAreFinal`; `SettledOnce`, with the fact that nothing is booked for a
row that is not closed; and `StopOutEnforced`: the gate that skips safe
accounts by what memory holds is sound, because the margin is that of the open
rows and free funds are never negative.  `NoDeadlock` (`NeverFrozen`): the job
that holds the lock or the market pass can go on, and a stop-out pass below the
level finds a worst position among any finite number.  `OnlyLostAcksHide`
(`Mirrored`): while no acknowledgement was lost, at most the order of the job is
open and not in memory.

**`Reconciliation_proofs`** – for any replicas, references, users, findings
and bounds.  The invariant numbers the attempts (no two workers share one, an
attempt that finished has no worker), says what the place of a worker implies
for the stored cases and blocks, and that a run whose heartbeat did not lapse
has a single owner.  From it: `LeaseIsExclusive`, `NoDuplicateCases`,
`FinishedAttemptsBlocked`, and `Completion` (`CompletedIsFinal`): an older
attempt never touches a completed run, nobody claims it, and the one attempt
that may mark it as failed is the one that just completed it and was not told.
Two more theorems say what is
behind the two disagreements found here.  `OnlyBrokenAttemptsLeaveGaps`: while
no attempt failed or died, `CompletedRunsBlocked` holds, since whoever claimed a
run then still works on it (`Calm`), and nothing is left to recover.
`OnlyLateBlocksRemain`: only a worker with a block still to open makes a
resolved case have an active one; it rests on the references of blocks to stored
cases (`Referenced`).

**`EmailOutbox_proofs`** – for any mails, dispatchers, limits and numbers of
faults and requeues.  The invariant says that a claim that did not expire
under its attempt has one holder, that whoever records a mail as sent has the
provider's answer, and that the copies of a pass lag behind the claims made
since the mail was queued or requeued, unless it was requeued under such a
copy; the last is why giving up by a copy is safe.  From it: `OneDeliverer`,
and that the outbox implements `Delivery`, with its three exceptions and no
other.  `RetriesBounded` (`AttemptsBounded`) needs more: it counts the
dispatchers whose copy of a row is old enough to try it without giving up.  A
claim by such a copy uses it up, a claim by any other is the last one, and so
attempts and stale copies together never exceed the limit.

**`AdminChanges_proofs`** – for any people, roles, requests and reviews at a
time.  The invariant says that whoever has a role row has the flag, and that a
review that may still commit decided on what is still true.  From it:
`SuperAdminRemains` and `ChangesAreReviewed`.

**`Gateway_proofs`** – for any tabs, users, symbols, connections and limits.
The invariant says that whoever is registered is served and `onGone` has not
run for it, that whoever is served and not registered has ended and gets no
more frames, that a connection whose user is not known yet has no
subscriptions, and that the counts and the index are those of the registered
connections.  A command keeps a connection and its entries in the index in
step (`HandleServes`); the replay of the early frames does so by least
counterexample over its length (`ReplayServes`).  From it: `Typing` and
`Presence` (`PresenceExact`). `Agreement` (`QuietMeansAgreed`) needs an
invariant about what is still on its way (`QInv`).  The frames that the server
of a live socket has not handled, the early ones before the others, lead its
subscriptions to what the tab wants: what is missing is asked for, and each
frame to the contrary is overridden by a later one.  Neither a frame handled
nor the replay of the early ones changes where they lead (`HearsAfterTail`,
`ReplayHears`).  In the other direction the last update sent is the position
as it is, unless a snapshot is being computed or came late, or the position is
still to be broadcast or was dropped.  `Limits` (`LimitsHold`): no connection
holds more subscriptions or early frames than it may, and the replay is held
to the same limit.

Only model-checked: the liveness properties (`EveryCallServed`,
`StopLossHonoured`, `RunsComplete`, `EveryMailSettles`, `TabsRecover`), since
the prover handles neither fairness nor ENABLED.  Of the first two, the two
theorems `NoDeadlock` prove what remains without either: some guard on the way
is always open, which TLC can say for its small instances only.

## Disagreements between code and text

Five runs have `expect: violation`.  Each checks what a comment or message in
the repository says, and TLC finds a behaviour of the code that denies it.

- `payments_crm`, `CrmHearsFacts`: `emitCrmEvent` is said to run after the
  transaction commits; the desk calls it from inside the callback, so the CRM
  hears of an approval that was rolled back.  Nothing else misleads it
  (`OnlyRefusedCommitsMislead`).
- `trading_mirror`, `OpenRowsGetMirrored`: open positions are said to be
  mirrored in memory; when the acknowledgement of an opening transaction is
  lost, its row is not, until the next start.  The run states fairness, and
  the process may live on for ever.  Nothing else hides a row
  (`OnlyLostAcksHide`).
- `reconciliation_atomic`, `CompletedRunsBlocked`: cases and blocks are said
  to be persisted atomically; an attempt that ends between their transactions
  leaves cases that the next claim takes for a complete run.  Nothing else
  does (`OnlyBrokenAttemptsLeaveGaps`).
- `reconciliation_resolve`, `ResolvedCasesHaveNoBlock`: a case cannot be
  resolved while it has an active block; but a block may be opened after it
  was resolved, by a worker that is still at it (`OnlyLateBlocksRemain`).
- `crm_leads`, `NeverMergedIntoConverted`: leads are never to be merged into a
  converted one; `mergeLeads` checks the survivor before its transaction, and
  a conversion that commits in between is not noticed.  `convertLead` guards
  its own write against just that.

A worker that stalls for longer than `RUN_STALE_MS` without dying may store
its cases beside those of its successor, or mark as failed a run the other
completed.  `NoDuplicateCases` and `CompletedIsFinal` therefore speak of runs
that did not stall; nothing in the code promises more.  A completion whose
answer was lost is marked as failed even without a stall; the next claim of the
reference then takes the stored cases for complete (`Recover`), or, if there
were none, checks again.  In the same way the
outbox may send a mail twice if a dispatcher stalls beyond the processing
timeout while it sends; its properties exclude the mails in `stalled`.

The exceptions in `Delivery` and in `QuietMeansAgreed` are observations of the
same kind, without runs of their own since no text of the repository denies
them: a mail recorded as SENT may go out again, a requeued mail may be given up
at once, and a tab may show a position that left the memory without a broadcast
(`hub.ts:1250`) until its next snapshot.

## What is not modelled

- The components 9 to 12 of the plan, for now.
- Of the outbox: the daily purge of settled rows and the templates.  Of the
  gateway: quotes, candles, intervals, `account_unsubscribe`, the shutdown of
  the server.  Of the CRM: records other than leads and the work on them.
- Market-data clients, maintenance, exports, CRM search,
  imports, mail and reports, the marketing site, the user interface: I/O and
  transformation of data with little state of their own.
- `src/apps/web/src/server` is an older copy of the trade server (its outbox is
  the same code).
- PostgreSQL, Redis and Prisma are taken at their word: serializable
  transactions, atomic scripts, a key that expires.  What they may do to their
  client is modelled: refuse a commit, lose an acknowledgement, expire a lease.
- Decimal arithmetic and rounding: amounts are integers.
