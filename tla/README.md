# Zentry in TLA+

Zentry sells services (examination results, PINs, form filling) for which a
requester pays from a wallet. Most orders are *manual*: the price is held in
escrow, an approved CBT center takes the order from a pool, uploads a result
before a deadline, and is paid two hours later unless the requester disputes
it. Wallets are funded through a payment gateway and paid out through it.
Resellers (tenants) run the shop under domains of their own. This directory
holds TLA+ models of that system, the TLC runs that check them and TLAPS proofs
about them. Everything is written from the code: `orders.service.ts` and the
queue and janitor files beside it (`src/apps/api/src/modules/orders/`),
`wallet.service.ts`, `auth.service.ts`, `users.service.ts`, `cbt.service.ts`,
`services.service.ts`, `tenant.service.ts`, and in the web application `api-client.ts`, `auth-bootstrap.tsx` and `create-order-modal.tsx`.

## 1. The system

| part | state | operations | talks to |
| --- | --- | --- | --- |
| Order life cycle (`orders.service.ts`) | `Order`, `Dispute`, `CbtTimeExtensionRequest`, `CbtJobBlock` rows | create, claim, start, complete, return to pool, reassign, unblock, request and review an extension, dispute, review a dispute, financial follow-up | both queues after each commit; storage; wallets |
| Delivery-deadline queue (`orders-deadline-queue.service.ts`, `orders-deadline.processor.ts`) | one Bull job per order in Redis | arm, cancel, warm-up on start; the worker returns an overdue order to the pool | order rows |
| Release queue (`orders-release-queue.service.ts`) | one Bull job per order in Redis | schedule, remove, recovery on start; the worker pays the center | order rows, wallets |
| Order creation, purchases, repricing | `Order`, `Wallet`, `Transaction` | `createOrder` locks escrow, `createAutomatedOrder` buys a PIN, the remediation reprices open orders | wallets, VTU provider |
| Uploaded documents and janitor (`orders-upload-janitor.service.ts`) | `UploadedOrderFile`, object storage | upload, attach, clean up | order form, order creation |
| Wallet funding (`wallet.service.ts`) | `Transaction`, `Wallet` | initiate, webhook, confirm, sweep, reconcile | payment gateway |
| Withdrawals (`wallet.service.ts`) | `WithdrawalRequest`, `Transaction`, `Wallet` | request, review, pay out, retry, payout webhook | payment gateway |
| Sessions (`auth.service.ts`; `api-client.ts`, `auth-bootstrap.tsx`, `auth.store.ts`) | hash of one refresh token per user, cookie, access token of the page | log in, refresh, log out, change and reset the password, restore a session on page load | key-value store |
| Tenants and their resolver (`tenant.service.ts`, `tenant-resolver.service.ts`) | `Tenant` rows, cached host names | create, change, suspend, verify a domain, resolve a host name | DNS, key-value store |
| CBT centers and their staff (`users.service.ts`, `cbt.service.ts`, `tenant.service.ts`) | `User`, `CbtProfile`, `CbtStaffMembership` rows, supported categories | register, approve, reject, assign categories, hire, dismiss, change a role, delete | job handlers and release |
| OTP, PIN | `User`, `OtpToken` | verify, set PIN | e-mail, SMS |
| Catalogue, analytics, notifications, configuration | rows of their own | CRUD and reads | - |
| Rest of the web application, shared packages, deployment | - | - | API |

What makes it hard:

* Handlers are `async`. They read rows, check them, wait (for storage, DNS, a
  gateway, the database), and then run a transaction whose updates are mostly
  `where: { id }`, at PostgreSQL's default isolation. Whatever was checked may
  be stale; balances are read and then written as sums.
* After the commit come one or two calls to Redis, storage or the cache. They
  may fail or the process may stop before them; some callers swallow the error
  and some do not.
* Two workers act on the same rows as the handlers; jobs are retried, found
  stalled, kept after they end (which keeps their job id taken) and re-created
  on startup.
* The same payment event arrives by webhook, by confirmation and by sweeps; a
  payout's answer may be lost after the transfer has gone out.
* The refresh token is replaced by every refresh, while requests, page loads,
  logouts and other devices use it at the same time.

What makes each part correct:

* Order life cycle: one center at a time; a barred center never holds the
  order; a delivered order has somebody to pay and something delivered; rows,
  dispute and ledger agree.
* Release: paid at most once, never before the window closes or over a standing
  dispute, and eventually paid when nobody disputes.
* Deadlines: a held job has the timer its row calls for, nobody inherits the
  timer of another, no job is held for ever.
* Wallets: no balance below zero, no money made or lost, escrow equal to the
  price of what waits for a decision.
* Funding, withdrawals: each payment counted once, whatever reports it; a payout
  only after approval, sent once, and paid or returned but not both.
* Documents: what an order points to is kept, the rest is removed.
* Sessions: nobody is signed out by his own requests, a session that was ended
  stays ended, no request waits for ever.
* Tenants: a domain serves only after it was proven; the cache catches up.
* Centers: a job earns the center it was accepted from, however accounts change
  meanwhile; an approved center is limited to its categories.

## 2. Modules

| module | what it is |
| --- | --- |
| `BullJob` | what Bull does with the one job id an order has in a queue (external library, modelled from its use) |
| `EscrowHold` | abstract: what an order promises about the money it holds |
| `OrderLifecycle` | the order handlers, both queues and their workers, restarts and time |
| `EscrowWallets` | the wallets these handlers move money between |
| `OrderUploads` | documents of an order: form, storage, rows, janitor |
| `WalletFunding` | funding transactions against the payment gateway |
| `PayoutPromise` | abstract: what a withdrawal promises about its amount |
| `Withdrawals` | withdrawal requests against the payment gateway |
| `Sessions` | refresh token on the server, cookie and page in the browser |
| `TenantDomains` | tenants' domains, their verification, the resolver and its cache |
| `CbtAccounts` | centers, their staff and categories, and whom a job earns |
| `MC...` | the instances of these for TLC: sample values and constraints |
| `..._proofs` | theorems about them |

How they fit. `OrderLifecycle` decides *when* an order is released, refunded or
charged and counts ledger rows; `EscrowWallets` takes the same transactions and
says *what* each moves, with balances as numbers. In the same way `Withdrawals`
and `WalletFunding` decide how often an amount is put back or credited, and
`EscrowWallets` has only the resulting writes of the wallet. What
`OrderLifecycle` takes as given of a center (approved, of the right category,
still there) and `EscrowWallets` of the one who earns is the subject of
`CbtAccounts`. `BullJob` is
instantiated twice by `OrderLifecycle`. `OrderLifecycle` implements
`EscrowHold`, and `Withdrawals` implements `PayoutPromise`, by a refinement
mapping in the module.

History. Some of what the code does breaks what it should keep: a row written on
a check that has come undone, a balance written over a change, a transfer sent
twice. The models do all of it. History variables, which no action reads, record
when and to what it happened, and a property names in its formula, and its
comment in words, what it leaves out. So each property says two things: what
holds, and that nothing but the recorded events breaks it. The variables are
`overtaken`, `deadlineOff`, `releaseOff` (orders), `lost`, `drift`, `overpaid`,
`shortfall` (wallets), `overlapped`, `unanswered`, `contested` (withdrawals),
`overlapped`, `unmarked`, `raced`, `stale` (domains), `parted`, `stripped`
(accounts). `OrderUploads` and `Sessions` choose in the beginning what may happen
to a document or session (`perils`, any set of them): the handlers are the same
whatever was chosen, a peril only lets a user or a failure do what they
otherwise do not, and each property names the perils under which it is not
claimed. For every exemption the property was checked without it, and TLC found
it violated.

### OrderLifecycle

State. `order[o]` is the order row with what hangs off it: `status`, `cbt`
(assignedCbtId), `deadline`, `result` (resultFileUrl), `window`
(disputeWindowExpiresAt), `released` (escrowReleasedAt set), `dispute`,
`penalty` (the PENALTY transaction), `extensions` (centers with a PENDING
request), `blocks`, and the number of ESCROW_RELEASE and REFUND ledger rows
(`releases`, `refunds`, counted up to two). `deadlineJob`, `releaseJob` are the
order's jobs in Redis, `storage` the uploaded results, `request[r]` a handler in
flight with what it keeps of what it read.

Actions. A handler `X` is `BeginX` (its read and checks), `CommitX` (its
transaction, with every write in it) and then its Redis calls
(`ScheduleDeadline`, `CancelDeadline`, `CancelDeadlineThrows`,
`ScheduleRelease`, `RemoveRelease`) in the order the code makes them.
Handlers whose check and write are one statement or that have no Redis call
(`CreateOrder`, `StartCbtJob`, `UnblockCbt`, `UnblockAll`) are one action. The
claim checks only the block ahead and commits with the conditional `updateMany`;
completion likewise re-checks assignee and status in its `updateMany`; a second
dispute fails on the unique key; the other commits are unconditional, as in the
code. `TriggerAllows` is the database trigger `prevent_order_reassignment`.
The workers are `...JobReads`, `...JobCommits` and `...JobEnds`: the read and its
check, the transaction by id, and Bull's note that the handler has returned.
Between any two of them other handlers, failures and restarts come in; a job
whose handler has returned and whose end is not noted yet can be found stalled
and is run again (`...JobStalls`, `Restart`). Failures are `AbortCommit`,
`DeadlineJobFails`, `ReleaseJobFails`, `ReleaseJobEvicted`, a throwing Redis call
and `Restart`. `reviewDispute` writes result and window back from the copy it
read and decides on the refund by that copy; so does the model.

Time. Dates are compared with now and nothing else, so each is the time left
until it (`NoTime` for null), and `Tick` moves them all. One unit stands for
both the delivery window and the dispute window.

Races. A handler's read and its commit are two steps, and so are a worker's, with
nothing between them excluded. `Commit` is any of the transactions together with
its history: the order joins `overtaken` when the transaction takes effect while
the checks the handler made no longer hold of the row, or the copy it writes back
differs from it (`StillFits`). This is how the deadline worker returns an order
to the pool that was delivered between its check and its update, the release
worker pays over a dispute opened in the same gap, and two decisions pay twice.
`SettlementAgrees`, `AssignmentAgrees`, `CompletedOnlyDisputed` and `HoldsEscrow`
are claimed of every other order; `AssigneeNeverSwapped` and `ReleasedAtMostOnce`
of all. `deadlineOff` and `releaseOff` are the orders whose delivery timer or
release job lost step: a queue call threw, found the job locked by its worker or
its deadline past, or was cut off by a restart; another handler or the worker
committed between a commit and its queue calls; a job's last attempt failed. A
release job that has failed for good keeps its id, so that neither
`scheduleRelease` nor the recovery on startup adds it again. The timer and
liveness properties exempt these orders.

Reassignment. `BeginReassign` and `CommitReassign` are the handler as it is
written, and the trigger refuses its update whenever another center holds the
order. See section 4.

Not modelled here: a job whose lock Bull takes away while its handler still runs,
so that two runs of it overlap (Bull's lock lasts 30 s and is renewed), and the
delivery window set when a claim arrives within the moment between a deadline
run's commit and its end, whose timer is not armed as the id is still taken; the
model has the latter, as `deadlineOff`.

Abstractions. One dispute window, one extension length; center approval and
categories are checks on rows this model does not change (`Cbts` are the centers
that pass them); tenants partition orders and add nothing; wallet rows are the
two counts of ledger rows; a refund assumes the requester's escrow balance
covers it, which `EscrowBacksOrders` says of the wallets. The remediation of
prices is in `EscrowWallets`. `FilesInUse` and the choice of an unused file in
`BeginComplete` only recycle names of files nobody refers to.

### EscrowWallets

State. `available` is the balance of each owner, `escrow` the requester's,
`aside` what withdrawals hold, `order[o]` the parts of the order row that decide
amounts: price, fee, tenant share, commission. `outside` counts what came in and
went out. `call[c]` is a handler with the row and the balances it read.

Actions. Every writer but two reads a balance and writes the sum it computed.
`Begins` takes that read (`createOrder` reads the wallet before its
transaction), `TransactionReads` the read of those handlers that read a wallet
inside it (`ReadInTx`: the platform's for a purchase), with the checks made on it
(`Affordable`), and the `Commit...` actions write. A remediation that leaves the
price alone writes no wallet. `Writes` is the one place that says what a stale
sum does: it overwrites, `lost` becomes true if what it overwrites had changed,
and `drift` is by how much. Only `CreditFunding` and `PayoutFailed` increment.
`Fails` ends a handler whose check or write fails.

Amounts. `Split` divides a release as `processReleaseEscrow` does: commission to
the center, share less fee to the tenant, the rest to the platform. The
remediation computes the fee of commission and share together, `createOrder` of
the share alone, and no code compares a price with what is earned on it: with a
fee above the share a release pays out more than it takes from escrow
(`overpaid`), with earnings above the price the platform pays the difference
(`shortfall`). Any price is admitted, and the samples have both.
`src/docs/ai-context/SESSION_LOG.md:528` describes yet another fee
(a percentage of the total price), which neither path computes.

Abstractions. Center and center staff member share one wallet (who earns is one
owner). That an order is released, refunded or charged at the right time, and a
withdrawal put back once, is the subject of `OrderLifecycle` and `Withdrawals`.
A purchase that the provider delivered and the wallet could not pay is left out.

### OrderUploads

State. `row[d]` is the state of an uploaded document, `rows` their order by
`expiresAt`, of which the first `expired` are past it; `blob` is what storage
has, `referred` what orders and disputes point to, `form[d]` what the web form
is at, `call[c]` a handler, `janitor` the cleanup with the rows it still has to
do, `due` whether its interval has passed.

Actions. An upload stores and then inserts, and undoes the one if the other
fails; `CommitOrder` attaches the row if it is still staged, and does not look
whether it was, as in the code; a refused order erases and marks, as does the
cleanup the form asks for; the janitor takes a batch of the oldest expired rows
and erases and marks one by one, or fails with its first query (`FindStaleFails`)
after the interval was used up. Answers may be lost. `Restart` ends what is in
flight, any number of times, and begins the janitor's interval anew, as
`lastCleanupAt` starts at the time of the start.

Nothing is assumed of the cron. The machine is suspended when idle
(`src/fly.toml:23-24`) and `orders-upload-janitor.service.ts:28-31` says that the
cron "cannot carry this on its own"; a process that restarts more often than
every six hours and is suspended at the cron's slots never cleans up. So
`StagedIsRemoved` is conditional: if cleanups come to their end again and again,
whoever starts them, then what no order took is removed.

Perils of a document: `impatient` (the form gives up on a running request),
`again` (it submits the document once more), `slow` (it submits after the
staging time), `stuck` (storage refuses to delete the file). One file stands for
the files of one request.

### WalletFunding

State. `row[f]` is the transaction with reference `f`: its status, and whether
its metadata still holds the fee, which decides what amount it expects.
`credited[f]` counts the increments of the wallet (up to two), `old` holds the
fundings past the cutoff of the sweep, `payment[f]` what the gateway knows of
the reference, `events` the webhooks it has sent and may deliver again at any
time. `recent` and `armed` are the throttle and the Redis key of the sweep.
`call[c]` is a handler in flight with the copies of rows it read, which is what
it goes by until it ends.

Actions. A handler starts by reading (`Starts`, `Asks`), asks `verifyPayment`
for one of its rows (`PaymentConfirmed`, `PaymentNotFound`,
`GatewayUnreachable`) and then writes (`CompleteFundingTransaction` and its two
early ends `AlreadyConfirmed` and `AmountMismatch`, `MarkFundingAbandoned`,
`MarkFundingTransactionFailed`) or fails to (`WriteFails`). Webhooks skip the
question. Loops go on with the next copy (`Processed`); a sweep whose write-off
fails ends there, as in the code. The preview of an admin's reconciliation goes
over into the reconciliation (`kind` "preview", then "admin") with a second
read and a second question.

The gateway. A reference is unknown, opened, shown to the user, paid, or
closed. `verifyPayment` reports success exactly for what was received, success
events are sent for what was received and failure events for what was closed
unpaid. A transfer in full while the checkout is open is "full". For the
fundings in `Irregular` the gateway may do worse: receive another amount, send
a failure event when the checkout closes, receive a transfer after that
("late"). What is claimed of "full" is claimed of irregular fundings as well.
An account is paid into only after it was shown to the user, and the cutoff (24
hours) comes after the checkout has closed (30 minutes) and the initiating
request has ended.

Abstractions. Amounts are what the check tells apart: the full amount, the one
without the fee, any other. Reads and writes of one process are interleaved at
every `await`; a second process would share `armed` and have a `recent` of its
own. The sandbox confirmation of development builds and the batch limits are
left out. The comment of the janitor that the three paths "cannot overlap or
double-run" is not assumed: an admin's sweep takes no notice of the throttle,
and runs beside the automatic one in the model as in the code.

### Withdrawals

State. `request[w]` is the row with its `gatewayRef`, `ledger[w]` the status of
the WITHDRAWAL transaction, `counted` and `returned` how often the amount was
added to totalWithdrawn and put back (up to two), `approved` the requests that
were ever approved, `transfer[t]` what the gateway has accepted, `events` its
webhooks, `call[c]` a handler with what it read.

Actions. A review is `ReviewWithdrawalRequest` (the read of its transaction with
the table of `Transition`) and then `CommitRejection` or `CommitDecision`; an
approval goes on to the payout, which a retry starts as well:
`InitiateTransfer` at the gateway, `AdvancePayout`, and `SettlePayout` where the
gateway settled at once. A webhook is `FindPayout` (by reference) and then
`RecordPaid` or `RecordFailed`, which do not look at the status; one whose
reference no request has is acknowledged (`IgnorePayout`). An admin may type a
reference (`HandRef`) or repeat the one he sees. `Fails` is every failing write,
lost answer and stop of the process.

History. `overlapped`: two handlers were at work on the request at a time;
`unanswered`: its transfer went out and the reference was not written;
`contested`: an admin decided by hand what the gateway had accepted, a webhook
was handled after it was settled, or its payout was reversed. A request is `Calm`
without an overlap, a contest or a second transfer.

The gateway. It may settle a transfer at once or later, fail it, reverse it, lose
its answer, and deliver a webhook at any time, again, or never. A webhook that
precedes the written reference is acknowledged and lost (`IgnorePayout`), and
nothing in the code asks how a payout ended: whether an outcome is ever recorded
is up to the gateway, and `src/docs/vps-cutover-runbook.md:17-19` says that
Zentry has never received its webhooks. No liveness is claimed here. Whether the
gateway would refuse a second transfer with the same merchant reference is not
in the code either.

### Sessions

State. `stored`: a refresh token's hash is under the user's key. A refresh token
is `live` while that hash is its own and `old` ever after; where one is copied
to (the cookie, calls and requests in flight) it is retired with the hash.
`user` and `access` are the auth store of the page, `refreshing` the flag of
`api-client.ts`, `req[r]` a request of the page, `call[c]` a refresh or login
with who made it and whether the page still listens. `ended` is history: nobody
gave the password since the last logout or reset. `resetting`: a reset has stored
the new password and not yet deleted the refresh token.

Actions. `CompareRefreshToken`, `IssueSessionTokens` and `RefreshThrows` are
`refreshTokens` on the server, `Granted` and `Refused` its answer in the page;
`Unauthorized` is the interceptor: the first 401 refreshes, later ones wait for
it, a retried one is given up. A wrong current password is a 401 as well.
`RestoreSession` is the bootstrap of a page; the login form restores in the same
way. `Navigate` cancels and repeats it, `Reload` empties the memory of the page.

A reset and a password change are two steps on the server: the new password is
stored (`ResetPassword`, `Serve`), then the token is deleted
(`DeleteRefreshToken`) or new ones are issued (`ChangeIssues`), or that fails
(`ResetThrows`, `ChangeThrows`) and the old session goes on.

Perils: a login on another device, a reset, a change of page during the
bootstrap, a reload during a call, failures of network or database, and a logout
or password change that overlaps a refresh. Access tokens expire at any time;
the expiry of refresh tokens after seven days is left out. A request whose page
left before it reached the server is not handled any more; one whose handler had
begun is handled to its end.

### TenantDomains

State. `row[t]` is the tenant, `cache[h]` the entry of a host name, `call[c]` a
handler with the row it read, `proven[t]` (history) the domains whose DNS record
was found since the tenant took them.

Actions. Creation, settings and the super admin's update check the domain, write
and forget the cached names. The super admin's update takes the verification
back in an update of its own (`ResetVerified`), before the one that may throw on
the unique column. What a request leaves out is written back as it was read. A
verification asks the DNS (any answer) between its read and its write. The
resolver caches what it read a moment ago; entries expire after 60 s.

Changes of one tenant overlap, tenants claim each other's domains, any step may
fail (`ChangeThrows`) and any name may stay undeleted. History: `overlapped` are
tenants a verification of which ran beside another change, which may mark a
domain nobody proved; `unmarked` those whose domain a failed change left
unverified (`tenant.service.ts:679` resets, line 685 throws); `raced` the
resolutions that ran beside a change of their tenant; `stale` the names such a
resolution cached, that could not be deleted, or that a change which failed after
its reset did not get to forget. Creation excludes only other changes of the
tenant that does not exist yet.
`verified` keeps the field as it is in the row, also while there is no domain.

### CbtAccounts

State. `account[u]` is the role of a user row (or that there is none yet, or no
more), `employer[u]` the membership of a member of staff, `profile[u]` approval
and categories of a center, `catalogue` the categories, `category[o]` the one of
the service of an order, `order[o]` status, assignedCbtId, whose wallet the
release credited (`earner`) and, as history, under whose approval the delivery
was accepted (`for`). `call[c]` is a handler with what it read.

Actions. As elsewhere `Begin...` reads and checks, `Commit...` writes by id and
has for a guard what the database refuses (a row that is gone, a foreign key, the
conditional `updateMany` of claim, start and completion, the trigger). `Throws`
ends a handler. `DeletesUser` is a deletion with its foreign keys: the profile
and the memberships of a center go, orders lose their assignedCbtId, and ledger
rows forbid it. `Earner` is whom the release pays: the center a member of staff
belongs to at that time.

No handler waits for another: dismissals, deletions, changes of role and of
categories happen at any time. `deleteStaff` asks for jobs that are ASSIGNED or
IN_PROGRESS, and a delivered one then has nobody to pay; the history check of
`deleteTenantUserForAdmin` counts the center's own orders, so that a center whose
jobs its staff did can be deleted, and their delivered job pays them in person
although the comment in `orders-release-queue.service.ts:271` says "The staff
earns on behalf of the center". History: `parted` are the jobs that were
delivered and unpaid, or being completed, when whom they earn for left (`Left`),
and those taken by somebody who was leaving (`Joins`); `stripped` the centers
whose last category was deleted since they were assigned any. The code prevents
neither, and the properties claim every other job and center.

Abstractions. Orders exist from the start, each for a service of its own, and
COMPLETED stands for delivered, disputed or not. Deadlines, disputes and blocks
are in `OrderLifecycle`; the deactivation of an account is left out, as no job
handler looks at it. The rule "CBT can only claim ONE job at a time per service
category" (`src/docs/ai-context/SECURITY.md:194`) is in no handler, so none is
in the model: a center can hold two jobs of one category.

## 3. Runs that pass

| run | instance | shows |
| --- | --- | --- |
| `orders` | 1 order, 2 centers, 2 requests, both workers, all faults | `TypeOK`; `SettlementAgrees`: money leaves escrow once, to the center only after the window and with no dispute standing, and the row says where to; `AssignmentAgrees`: also, no center holds what it is barred from; `TimerFollowsDeadline`: also, nobody inherits a timer; `ReleaseIsQueued`; `CompletedOnlyDisputed`; `AssigneeNeverSwapped`; `HoldsEscrow`: the handlers implement `EscrowHold` |
| `orders_live` | 1 order, 1 center, 1 request, both workers, all faults, fair | `ReleasedAtMostOnce`; `UndisputedIsReleased`, `JobNotHeldForEver` |
| `wallets` | 2 orders, 2 handlers, 2 prices that are not sound | `TypeOK`; `NeverOverdrawn`; `Conserved`; `EscrowBacksOrders`, until a write is lost |
| `uploads` | 2 documents, 2 handlers, fair | `TypeOK`; `ReferredIsKept`; `StagedIsRemoved`: the janitor gets past files that cannot be deleted, if its cleanups end again and again |
| `funding` | 2 fundings (one irregular), 2 handlers, fair | `TypeOK`; `CreditedAtMostOnce`, `LedgerAgrees`: a transfer in time and in full is credited once and its row agrees, whatever confirms it; `NothingForNothing`: no credit without a transfer; `PaidIsCredited`: the armed sweep credits what no webhook reported |
| `withdrawals` | 1 request, 2 handlers, 2 transfers | `TypeOK`; `NeverPaidUnapproved`, `LedgerCovered`; `NeverResent` but after an overlap or an unwritten reference; `BooksAgree`, `KeepsPromise` of a calm request |
| `sessions` | 2 requests, 2 calls, 11 sets of perils, fair | `TypeOK`; `EndedStaysEnded` unless overlapped; `SessionKept` without perils; `RequestsSettle` |
| `domains` | 2 tenants, a domain with and without www., 2 handlers, 4 changes | `TypeOK`; `VerifiedIsProven`: a verified domain is one whose record was found; `CacheAgrees`: the cache answers what the rows say |
| `accounts` | 1 center, 1 member of staff, 2 orders, 2 categories, 2 handlers | `TypeOK`; `EarnsForCenter`; `ApprovedHasCategories` |

Bounds.

* One order is enough for `OrderLifecycle`: no handler of it reads another
  order's row. Two centers are the least for a hand-over and a block, two
  requests for a race between handlers (the workers are actors of their own).
  Windows of one time unit let every deadline lie ahead, at hand or in the
  past; `MaxDeadline` bounds how far extensions reach; `ReleaseAttempts` (3 in
  the code) is 2 where only "a retry happens" and "the retries run out" matter.
* `InStep` (`orders`) and `NotOvertaken` (`orders_live`) stop following an order
  once a history variable holds it. The properties that exempt such an order say
  nothing of what comes after, as there is one order and the variables never
  shrink; `TypeOK`, `AssigneeNeverSwapped` and `ReleasedAtMostOnce`, which exempt
  nothing, were model-checked up to there, and their theorems cover the rest.
  `orders` stops at any of the three variables; what `SettlementAgrees` and the
  like claim of an order whose jobs only are off is left to their theorems.
  Interchangeable are the centers and the
  requests; no property of `orders` is a liveness property.
* Two orders are the least for which escrow is a sum. `SamplePrices` has two
  prices that may each be repriced to the other: at the one the remediation's fee
  exceeds the tenant's share, at the other center and tenant earn more than the
  price. `FewLosses` stops following large sums and second orders once a write
  was lost. `MaxOutside` bounds the deposits.
* Two documents and a batch of two: one document that cannot be deleted and one
  that can. `Overlapping` lets handlers overlap over one document at a time, as
  two documents share only the janitor.
* Two handlers are the least for a race over a funding, and one handler can deal
  with two, which is what a sweep does; `RaceOrSweep` keeps these two cases.
* Withdrawals share nothing, so one is enough. Two transfers are the least for a
  second one to go out. Its only liveness would be the gateway's.
* Two requests of a page are the least for one to wait for the other's refresh;
  `SampleAllowed` has each peril alone and the combinations that touch the same
  state.
* Four changes let two tenants take a domain from each other and back; the
  fourth is followed where nothing was recorded before (`FewLosses`). Neither the
  two names nor the handlers differ.
* A center and a member of staff are the least for a job to earn somebody else
  than who did it, two orders for one to keep accounts from being deleted while
  the other is in work. `OneByOne` has one unpaid job at a time, as jobs share
  only whom they keep from being deleted, looks at categories before there are
  jobs, and stops where a job was parted, of which nothing is claimed; `Together`
  lets handlers overlap where they touch the same rows, changes of account with
  all of them. All properties are invariants, so the symmetry of orders,
  categories and handlers is sound.

Fairness. No user, admin or webhook is fair unless said so.

* `OrderLifecycle`: handlers in flight get weak fairness (the event loop runs
  them), the workers and the clock strong fairness: other requests and restarts
  can come between, but Bull keeps a due job until it has run.
  `JobNotHeldForEver` excepts an admin who extends the deadline for ever.
* `WalletFunding`: handlers go on and the cutoff passes (weak fairness); the
  interval passes and a wallet load or the cron comes again and again; neither
  the gateway, the database nor restarts cut off every single sweep (strong
  fairness). `Calls` is a bound of the model and not of the process, so the
  interval is also required to pass while a handler is free.
* `OrderUploads`: handlers go on while the process runs; users end what they began
  (`Abandon`); the write that marks a row, and the passing of a staging time
  which other forms interrupt, do not fail for ever (strong fairness). Neither the
  janitor nor the cron is fair.
* `Sessions`: network and server answer or fail.

## 4. Runs that are violated

| run | what the repository says | what the code does |
| --- | --- | --- |
| `funding_twice` | "Never process the same payment twice (duplicate webhook protection)" (`src/docs/ai-context/SECURITY.md:106`) | writing FAILED is unconditional and FAILED rows can be claimed: a failure event handled after the credit of a late transfer lets the redelivered success event credit it again |
| `orders_reassign` | reassignJob "Works at any time, including before the current delivery window expires, and reschedules the deadline timer to the new CBT" (`orders.service.ts:2157-2159`) | the trigger of migration `20260522120000` refuses every update that replaces one center by another, so it works for orders in the pool only |
| `withdrawals_resent` | "Retry is safe only when no transfer has actually gone out yet ... never re-send that" (`wallet.service.ts:2028-2031`) | status and reference are what is checked, and both are written after the gateway's answer: a transfer whose answer was lost leaves an APPROVED request that can be retried |

The first needs a gateway that misbehaves for the funding (`Irregular`); the
passing runs say what holds nevertheless. The second is the other side of
`AssigneeNeverSwapped`: the trigger that keeps a claim from overwriting another
also keeps an admin from doing so. For the third, `NeverResent` says when a
second transfer goes out, and that it does not otherwise.

## 5. Proofs

The theorems hold for every value of the constants that the assumptions admit:
any numbers of orders, centers, requests, wallets, transfers, handlers, any
windows and prices. Each invariant that TLC checks is strengthened to one that
is inductive; the proof that a step keeps it has one step per action.

`OrderLifecycle_proofs`, from `CbtAssumption`, `FileAssumption` and
`TimeAssumption`. No theorem restricts how handlers, workers and failures are
interleaved.

* `TypeCorrect`: `TypeOK`.
* `AssigneeStays`: `AssigneeNeverSwapped`. Each action either leaves the
  assignee alone, sets it to nobody, or passes `TriggerAllows` or the claim's
  condition.
* `NoSecondRelease`: `ReleasedAtMostOnce`. `ReleaseInv` adds that a release is
  booked together with escrowReleasedAt, that a job is between check and commit
  only while it is not, and that nothing but its read makes a job active.
* `SettlementSound` (`SettlementAgrees`), `AssignmentSound`
  (`AssignmentAgrees`), `DeliveredStays` (`CompletedOnlyDisputed`) and
  `EscrowHeld` (`HoldsEscrow`, the refinement of `EscrowHold`), of orders that
  are not overtaken. The two invariants alone are not inductive. `RowFits` says
  of each row how status, assignee, dispute, window, result, money and penalty
  go together; `ReadFits` what the copy of a handler in flight is worth as long
  as the row it was made of is the row: a commit that is not recorded in
  `overtaken` rests on checks that still hold. `RowStep` is what every commit
  does to the row, as one relation, from which the action property and the steps
  of `EscrowHold` (`HoldStep`) follow.

`WalletFunding_proofs`, from `FundingAssumption`.

* `FundingTypeCorrect`: `TypeOK`.
* `CreditedOnce`, `LedgerAlwaysAgrees`, `NothingUnpaid`. `FundingInv` says of a
  clean funding (paid in time and in full) which statuses its row can have, what
  each handler in flight may have been told by the gateway (`GoodCall`), and
  what the gateway may still report (`GatewayInv`), so that the unconditional
  write of FAILED meets no credited row.

`Withdrawals_proofs`, from `WithdrawalAssumption`.

* `WithdrawalTypeCorrect`: `TypeOK`.
* `ApprovalFirst` (`NeverPaidUnapproved`) and `RowsCovered` (`LedgerCovered`):
  of every request, whatever happens to it.
* `SentOnce` (`NeverResent`) of requests that are neither overlapped nor
  unanswered, and `BooksAgreeAlways` (`BooksAgree`) of calm ones.
  `SentLocal` keeps of a request, as long as one handler at a time deals with it,
  what tells a retry that its transfer has gone out: a written reference, a
  decision, or a handler about to write the reference. `CarefulInv` adds to it,
  for calm requests, how row, ledger and wallet go together (`BooksInv`), what
  each handler has still to rely on (`HandlerInv`) and what the state of the one
  transfer says of the row (`TransferInv`). `ApprovalInv` is what the first two
  theorems rest on.
* `PromiseKept` (`KeepsPromise`): the refinement of `PayoutPromise`. Every step
  is a step of the promise or leaves it alone.

`EscrowWallets_proofs`, from `WalletAssumption`: any prices at all.

* `WalletTypeCorrect`: `TypeOK`.
* `NoOverdraft`: `NeverOverdrawn`, also after lost writes. What a handler took
  as the balance was the balance at some time, and it checked it (`Solvent`,
  `Anchored`); the platform's balance is compared with `shortfall`.
* `MoneyConserved`: `Conserved`, of every state. A step that writes a stale sum
  changes the wallets by what it moves and `drift` by how far the copy was off;
  a release gives out what it takes and `overpaid`.
* `EscrowIsBacked`: `EscrowBacksOrders`, for a finite set of orders. `BackInv`
  adds what a handler has read of its order and will make of it (`Exact`), and
  that an order belongs to the handler that creates it until it exists and is
  never taken back into escrow (`Owned`). A step changes one order, and
  `BackingChanges` says that the sum follows it. The sum is a fold
  over a set; `SumsExist`, `SumsUnique` and `SumRemove` establish that it exists
  and does not depend on the order of the elements. The library's induction
  theorems cannot be used, so each of them argues by a smallest set for which it
  fails (`Smallest`, from `WFMin`).

`OrderUploads_proofs`, from `UploadAssumption`.

* `UploadTypeCorrect`: `TypeOK`, with what kind of handler can be at which step.
* `ReferredKept`: `ReferredIsKept`. For a document without perils of its form,
  `CallInv` says that its handler tells where its form is and that it has one
  handler at a time; `JanitorInv` that the janitor only has to do with forms
  that are done and with what no order took; `FileInv` that what a form may
  submit, or an order is about to take, is staged and stored.

`Sessions_proofs`, from `SessionAssumption`.

* `SessionTypeCorrect`: `TypeOK`; a handler at rest is listened to by nobody.
* `EndStays`: `EndedStaysEnded`. `SessionInv` says that no live token is anywhere
  without a session, that a logout or password change which overlaps no refresh
  has the server to itself, or waits for its own refresh, that a reset has it to
  itself between its two writes, and that after an end only who gave the password
  is issued tokens.
* `SessionsAreKept`: `SessionKept`, of a session without perils: requests,
  expiring access tokens and shared refreshes. `KeptInv` adds that there is one
  call at a time, by the page as it is, and that it and the cookie carry the live
  token whenever a refresh may begin.

`TenantDomains_proofs`, from `DomainAssumption`.

* `DomainTypeCorrect`: `TypeOK`, the unique key on domains with it.
* `VerifiedProven`: `VerifiedIsProven`, with contested domains and failures at
  any step. `MarkInv` says, of tenants no verification of which ran beside another
  change, that a verification finds the domain it read, that other changes find it
  too or nothing is proven of what replaced it, and that mark and proof are in
  step but between the two writes of a change.
* `CacheAgreement`: `CacheAgrees`, of names that are not stale. `CacheInv` says
  that an entry is either current and known to every change under way, or some
  change is still going to forget it, and that a resolution beside which no change
  ran has read what is.

`CbtAccounts_proofs`, from `AccountAssumption`.

* `AccountTypeCorrect`: `TypeOK`; every assignee and employer is an account.
* `ApprovedIsLimited`: `ApprovedHasCategories`. `CategoriesInv` says that an
  approval in flight is of a center that has categories, that lost its last one
  since, or whose profile is gone for good.
* `JobsEarn`: `EarnsForCenter`. `EarningInv` says, of jobs that no leave has
  parted, that a completion in flight acts for somebody who is there and works for
  the center it was checked for (`InWork`), that a delivered job has somebody to
  pay (`Earned`), and that who is about to be dismissed or deleted has none in
  work (`Departing`).

No hypothesis of these theorems excludes an interleaving or a failure: what is
exempted is an order, a request, a tenant, a name, a job or a center, by what
happened to it, and for documents and sessions by the perils the formula names.

Every invariant, action property and refinement of a passing run is a theorem,
but for `TimerFollowsDeadline` and `ReleaseIsQueued`, which are model-checked.
So is liveness under fairness, which the provers cannot express:
`UndisputedIsReleased`, `JobNotHeldForEver`, `PaidIsCredited`, `RequestsSettle`
and `StagedIsRemoved`.

## 6. Plan

Done, in this order: orders with their queues; funding; withdrawals; wallets;
documents; sessions; tenants; centers and staff; the proofs above. Next:

1. `TimerFollowsDeadline` and `ReleaseIsQueued` as theorems;
2. what the abstract specifications promise (each amount leaves once, decisions
   are final), as theorems about `EscrowHold` and `PayoutPromise`;
3. OTP tokens and the attempts at OTP and PIN;
4. automated orders whose PIN was delivered and whose payment fails.

## 7. Not modelled

* OTP, wallet PIN, the forms of registration: counters and tokens of one user;
  next in the plan.
* Notifications, push and sockets: best-effort output that no handler reads back.
* Analytics: reads only.
* Payment, VTU, storage, e-mail and SMS adapters: HTTP calls without state; their
  outcomes are inputs of the modules that use them.
* Controllers, guards, interceptors: stateless.
* The administration of services, categories, branding, tenant admins and
  configuration, where it is one checked write to one row.
* The rest of the web application and the shared packages: presentation of what
  the API returns.
* Deployment: restarts are actions of the models.
