# Verification of the student platform backend

The repository is the backend of a course platform: a NestJS application over
PostgreSQL (through Prisma), Redis and BullMQ. Students buy courses, redeem
printed cards, keep wallet credit, watch protected video, read documents and write
to support; staff build courses, confirm payments, refund, grant, transfer and
revoke; jobs ingest, announce, sweep and prune. This directory holds TLA+ modules
that model it, the TLC configurations that check them, and TLAPS proofs of the
properties that matter most. `PROJECT.json` maps every definition to the lines it
models, and lists runs, mutants, hazards and theorems.

Paths below are relative to `src/src/modules/` unless they say otherwise.

## 1. Inventory

| Component | State | Operations | Hard part |
|---|---|---|---|
| Money (`wallet/money.ts`, `wallet/discount.ts`) | none | parsing to piastres, basis points, half-up percentages, discounts | rounding, the ceiling, a discount above the face value |
| Wallet ledger (`wallet/wallet.service.ts`) | `wallets` (cached balance, lifetime totals), `wallet_transactions`, `recharge_revenue` | open, credit, debit, redeem a recharge card, adjust, verify | balance and ledger are two writes; two debits race; a request is repeated; a student is looked up before the transaction |
| Printed codes (`codes/codes.service.ts`) | `access_codes`, `code_batches`, `access_code_redemptions` | print access and recharge runs, cancel a card or a run, expire, redeem | the last use of a card is raced; a run is cancelled while it is redeemed |
| Course payments (`payments/payments.service.ts`, controller) | `payments`, `revenue_ledger` | open a checkout, capture, confirm by hand, fail | the access check precedes the transaction; a confirmation arrives after a revocation |
| Refunds (`payments/refunds.service.ts`, `refund-state.ts`) | `payment_transactions`, `idempotency_records` | refund now, promise a refund, complete or fail the promise | promises and payouts compete for one amount; a retry after its record was pruned; rounding of contra lines |
| Webhooks (`payments/payment-webhook.service.ts`) | `idempotency_records` | Paymob and Stripe events | duplicates in flight at once, contradictory events, a status read before the write |
| Enrollments (`enrollments/enrollments.service.ts`, `revoke-enrollment.ts`) | `enrollments`, section grants, cached `courses.studentCount` | join (free, approval, payment), redeem a card, grant, reject, revoke, extend, transfer, expire | every request reads before it writes, in different transactions |
| Course access (`courses/course-access.service.ts`) | none of its own | decide, assert content access, whole course or sections | derived from rows that other components are changing |
| Course parts (`course-parts/`) | `course_parts`, part entitlements | create, price, activate, remove, order, grant from a card | percentages that must add up, validated at READ COMMITTED |
| Playback (`playback/playback.service.ts`) | `playback_tickets`, counted plays, stream slots in Redis | issue, claim a play, heartbeat, release, expire | access is checked before the ticket is inserted; limits are counted before they are taken |
| Protected delivery (`playback/drm-*.ts`, `videos/gumlet-*.ts`) | the asset, its state and its proof on `videos` | adopt, replace, sync, webhook, verify, sweep, migrate | a proof written after the asset changed; a provider that is silent or contradicts itself |
| Video pipeline (`videos/videos.service.ts`, `src/src/jobs/processors/video.processor.ts`) | `videos`, the BullMQ queue, uploads in the store | presign, complete, enqueue, process, retry, recover, remove | jobs lost or delivered twice; a worker that dies; rows nobody finds again |
| Course content (`sections/`, `lessons/`, `videos/lesson-video.service.ts`) | `sections`, `lessons`, `lesson_videos`, counters on `courses` | create, order, publish, hide, attach, detach, remove, recount | one video serves several lectures; counters are recomputed from reads; positions of deleted rows stay taken |
| Course administration (`courses/courses.admin.service.ts`) | `courses`, `course_teachers` | draft, staff, price, publish, archive, restore, delete | restore must tell the approved from the waiting |
| Pages (`courses/courses.service.ts`, `library/library.service.ts`) | none | lists, detail, locks | a lock drawn by other code than the door behind it |
| Progress (`progress/progress.service.ts`) | `watch_progress` | report, batch, complete | reports late, repeated, crossing; nothing on the player's word |
| Library (`library/`) | materials, parts, packages, purchases, entitlements | buy with wallet credit, edit, remove, open a document | removal checks for holders outside its transaction |
| Documents (`attachments/`, `library/library-documents.service.ts`) | signed links, `attachments` | issue, judge on every request | the second decision is made by other code, later |
| Uploads (`storage/`) | the object store | sign, upload, register, replace, delete | no common transaction with the database |
| Account deletion (`account-deletion/`) | deletion requests, settlements | request, cancel, sweep, settle, erase | a sweep races a cancellation, another sweep, and a late credit |
| Accounts (`auth/`, `users/`) | `users` | register, create staff, sign in, lock, suspend, reset, delete | a sign-in works on an account it read long before it writes |
| Sessions (`auth/`, `sessions/`) | sessions, refresh-token families | sign in, rotate, reuse detection, sign out | two refreshes present one token; a sign-in races a password change |
| Devices (`devices/devices.service.ts`) | device bindings, change requests | bind at sign-in, request, approve, revoke, reset | the limit is a count followed by an insert |
| Academic catalogue (`catalog/`) | units, ladders, rungs, cached lists | edit, deactivate, replace a ladder, resolve, list | a cached list after a change far from it; a rung somebody stands on |
| Announcements (`notifications/announcements.service.ts`) | `announcements`, dispatch rows | draft, schedule, claim, send, advance, recover, cancel | a worker dies between any two of these |
| Notifications (`notifications/notifications.service.ts`, push processor) | inbox, push tokens | create once, register a phone, push, give up a token | caps and failures computed from earlier reads |
| Support (`support/support.service.ts`) | tickets, messages, unread counters | open, write, reply, note, set the status, read | every writer stores a status computed from its own read |
| Maintenance (`src/src/jobs`) | none of its own | nightly and hourly sweeps | runs against everything above |
| Audit, settings, search, analytics, home | their own tables, or none | append, read | nothing decides on them |

The components meet in the database. Three mechanisms decide what is atomic:

* `withSerializableRetry` (`src/src/database/serializable-retry.ts`) runs its
  closure at SERIALIZABLE isolation and repeats it on a conflict. Such a closure
  is **one action**, and a throw inside it rolls everything back.
* Everything outside a closure is a statement of its own. A value read there and
  used in a later statement or closure **may be stale**; such a request has two
  actions and a slot (`request`, `task`, `hook`, `call`) that keeps what it has read.
  Plain `$transaction` closures run at READ COMMITTED: they commit whole, but what
  they read may be stale when they do.
* Conditional `UPDATE`s (the debit's `balance >= amount`, the code's
  `status = ACTIVE`, the verifier's `gumletAssetId = ...`) and unique constraints
  hold whatever the isolation.

What makes each component correct: the ledger explains every balance and no balance
leaves its range; a card is consumed whole; the revenue lines add up to the money
kept; refunds never exceed what was paid and a retry never refunds twice; access
rests on a standing payment and a revocation holds; a card gives what is printed on
it and nothing else; a due deletion is carried out or comes before an administrator,
and a settlement is paid once; what a student holds of the library is exactly what
was charged; nothing is played without encryption, and no video is stuck; restoring
a course approves nobody; no ticket outlives what it plays; the parts of a course
cost what the course costs; nothing is announced twice; nobody is credited for what
was not seen; a transfer creates no access; a list, a page and a link say what is
still true; and the phone, the session, the file and the ticket that somebody relies
on are still theirs.

## 2. Modules

| Module | Models | Extends |
|---|---|---|
| `Platform` | what money and access share: the constant `Students`; piastres, basis points, `percentOf`, `resolveDiscount` | |
| `Handlers` | requests in flight: `call[p]`, begun, gone on and ended | |
| `Codes` | the table of printed codes and the operations of the codes service on it | `Platform` |
| `Wallet` | wallets, ledger, recharge cards, adjustments | `Codes` |
| `Access` | enrollments, grants, part entitlements, tickets, the payments table, and the operators shared by everyone who grants or removes access: `decide`, `grantAccess`, `revokeEnrollmentInTx` | `Platform` |
| `Payments` | checkout, capture, refunds, revenue ledger, webhooks | `Access` |
| `Enrollments` | every way into and out of a course, transfers included, composed with `Payments` and `Codes` | `Payments`, `Codes` |
| `Transfers` | the rules of a transfer: departments, targeting, what may go where, and two transfers of one source | `Handlers` |
| `AccountDeletion` | deletion requests, the sweep, settlement and erasure, composed with the wallet | `Wallet` |
| `Library` | materials, parts, packages, purchases, composed with the wallet | `Wallet` |
| `Sessions` | refresh tokens, the end of sessions, and the devices of one student account | |
| `Accounts` | registration, staff accounts, failed sign-ins and the lock, suspension, passwords | `Handlers` |
| `Playback` | counted plays, playback tickets, heartbeats, rotation, and the sweeps, for one student and one video | |
| `Protection` | abstract: a video holds one asset, and a proof of encryption is about the asset it holds | |
| `Delivery` | adoption, replacement, syncing, webhooks, migration and verification of the provider's asset; implements `Protection` | `Protection` (instance) |
| `Videos` | uploads, the queue, the worker, the recovery and the removal of a video | `Delivery` |
| `Content` | sections, lectures, the videos attached to them, their tickets, the course counters | `Handlers` |
| `Ordering` | positions of sections, lectures and parts | |
| `CourseAdmin` | the life of a course and of the enrollments it is archived with | `Handlers` |
| `PartPrices` | the allocation of a course's price to its parts | `Handlers` |
| `Announcements` | one announcement, its claims and the workers that send it | `Handlers` |
| `Notices` | the inbox, reminders, push tokens, push delivery | `Handlers` |
| `Progress` | a student's progress in one lecture | `Handlers` |
| `Catalog` | units, ladders and rungs, what applies to a student, the cached lists | `Handlers` |
| `Documents` | links to attachments and to library documents, issued and judged again | |
| `Pages` | what the pages say can be opened, beside what opens | `Documents` |
| `Uploads` | the object store beside the rows that name its files | `Handlers` |
| `Support` | support tickets | `Handlers` |
| `SumTheorems` | lemmas about sums over finite sets and about quotients, for the proofs below | |
| `SessionsProofs`, `PlaybackProofs` | theorems and proofs | the module they are named after |
| `WalletProofs` | theorems about `Wallet`, and about `Library` and `AccountDeletion`, which move its credit | `Library`, `AccountDeletion` |
| `PaymentsProofs` | theorems about `Payments` and `Enrollments` | `Enrollments`, `SumTheorems` |
| `CourseProofs` | theorems about `Ordering`, `Content`, `PartPrices`, `Progress` | those, `SumTheorems` |
| `DeliveryProofs` | theorems about `Videos` and `Delivery` | those |
| `HandlersProofs` | theorems about the small components: `CourseAdmin`, `Uploads`, `Support`, `Accounts`, `Transfers`, `Announcements`, `Catalog`, `Documents`, `Pages`, `Notices` | those |
| `MCAuthoring` | finite instances of `Ordering`, `CourseAdmin`, `Content`, `PartPrices`, `Announcements`, `Progress`: a behaviour is about one of them, chosen in the initial state | those |
| `MCFrontDesk` | the same for `Transfers`, `Catalog`, `Pages`, `Notices`, `Accounts`, `Uploads`, `Support` | those |
| `MCWallet`, `MCPayments`, `MCEnrollments`, `MCAccountDeletion`, `MCLibrary`, `MCSessions`, `MCPlayback`, `MCVideos` | finite instances | the module they instantiate |

### State

A table is a function from identifiers to records. A row that does not exist yet
has status `"NONE"` or `"UNISSUED"`. An enrollment is identified by its unique key
(student, course). Amounts are piastres. `Forever` is `accessEndsAt = null`, and
time in `Access` is a day counter that only `Tick` moves.

* `code[c]`, `redemptions`: `access_codes` and `access_code_redemptions`. A
  card's expiry date is two bits: it has one (`expires`), it has passed
  (`lapsed`); `ExpiryPasses` is the clock.
* `wallet[u]`, `ledger[u]`, `revenue[c]`: `wallets`, the student's
  `wallet_transactions` oldest first, `recharge_revenue`. A ledger row keeps its
  idempotency key: two requests with one key are told apart only by that.
* `enrollment[e]`: state, `coversAllSections`, `accessEndsAt` and the section
  grants. `entitlement[e]`: the parts held live; `moved[e]` (history, in `Enrollments`): the
  parts the student was transferred into. `ticket[e]`: whether a playback
  ticket is ACTIVE. `studentCount[k]`: the cached count.
* `payment[p]`: owner, status, amount, `refundedAmount`, and whether it is younger
  than the hour in which a checkout is handed back (`fresh`; `CheckoutAges` is the
  clock). `refunds[p]`: the refund rows of `payment_transactions`;
  `revenue[p]`: the revenue lines; `recorded`, `processed`: idempotency records.
* `deletion[q]`: `account_deletion_requests`, with its three dates as bits (`due`,
  `failed`, `held`). `sweep`: the one sweep the Redis lock admits, the statement it
  is at and the rows it read when it started.
* `shelf[x]`, `price[t]`, `items[g]`, `audience[m]`: materials, parts and packages
  of the library; `owned[u]`: `library_entitlements`; `purchases`:
  `library_purchases` with the price and parts frozen in them.
* `session[s]`, `token[t]`, `device[d]`, `change[i]`: `sessions`, `refresh_tokens`,
  `devices` (by key), `device_change_requests`. Of `usedAt` a token keeps whether the
  reuse grace window has passed (`aged`; `GraceEnds` is the clock), and instead of
  `createdAt` the number of the password it was issued under. A token family is
  identified with its session, because every sign-in starts one of each. `resets[d]`
  counts how often the row of device key `d` was deleted: a row written before the
  last reset has another id. A transaction that ends sessions by user or by device
  (`logoutAll`, `suspend`, `softDelete`, `revokeDevice`, `resetBinding`) is a `WithdrawRows`
  in flight between its statement about sessions and its statement about tokens; `late`
  (history) marks a session opened meanwhile.
* `play[n]`, `ticket[t]` (in `Playback`): `video_plays` by attempt number and
  `playback_tickets` in the order they are issued, their times as ages in heartbeat
  intervals; of `watchedSeconds` a play keeps whether it has reached
  `minCountedPlaySeconds` (`long`), and RELEASED, REVOKED and EXPIRED tickets are all
  ENDED. `stale`: what a running `reclaimStaleSlots` has read; `crossed` (history): two
  `claimPlay` met in one of the two ways section 3 describes.
* `row`, `asset[a]`, `stored`, `job[j]` (in `Delivery` and `Videos`): the `videos` row,
  what the provider holds, the source objects in the bucket, the queue. A proof is
  `fresh`, `stale` (past its TTL, honoured while the provider is silent) or `none`;
  `served` is a history: the assets a playable verdict was given for. So is `row.dropped`: the
  row was put beyond the recovery by one of the three writes of section 3.
* `course`, `staff`, `enr`, `records` (in `CourseAdmin`): the course row, its
  teachers, the enrollments, the archive records not restored yet.
* `section`, `lecture`, `clip`, `links`, `playing`, `counters` (in `Content`).
* `part[q]` and `price` (in `PartPrices`); `sold` remembers what each part was sold
  for since the structure last changed.
* `ann`, `claims` (in `Announcements`): the row and the dispatch rows; time is
  counted in leases. `fanouts` counts what was sent.
* `seen[t]`, `mark` (in `Progress`): what the heartbeats recorded on each ticket, and
  the `watch_progress` row, in units of `POSITION_TOLERANCE_SECONDS`.
* `unit`, `system`, `ladder`, `pinned`, `cached` (in `Catalog`): one branch of the tree,
  the ladders filed on it and the Redis lists.
* `seat`, `paper`, `stock`, `client` (in `Documents`): the facts that the two decisions
  look at, a HIDDEN course among them. What other modules do to them is one change of a fact at
  a time. A link is judged for the edge of today and, as `legacy`, for one deployed before
  links named their device (`playback.service.ts:1631`).
* `phone[t]`, `touched` (the order of `updatedAt`), `inbox`, `queued` (in `Notices`); `object[k]`, `signed`,
  `picture`, `document` and `minted[k]` (who asked for a key, and what for: an image, a
  document, or nothing, `invented`) (in `Uploads`); `thread[t]` (in `Support`); `account[n]`,
  `openAs[n]` (in `Accounts`: the passwords its open sessions were opened with).
* `request[r]`, `hook[h]`, `task[t]`, `order[o]`, `call[c]`: requests in flight and what
  they have read. History variables such as `crossed`, `skewed`, `hasty`, `raced`,
  `crowded`, `changed`, `reused`, `crossing` and `outdated` record that one
  request wrote what another had read and not yet written.

### Actions

Names are the names of the methods; a method whose read and write are separate
statements has two actions (`JoinChecks`/`joinWithPayment`,
`AdjustChecks`/`adjust`, `RejectReads`/`rejectRequest`, `ExtendReads`/`extend`,
`FailReads`/`FailWrites`, `issueTicket`/`mintTicket`, `RedeemChecks`/`redeemCode`,
`PurchaseChecks`/`purchase`, `RemoveChecks`/`remove`, `PackageReads`/`updatePackage`,
`retryProcessing`/`ClearRetried`, and `BeginX`/`x` in the modules that extend `Handlers`).
The deletion sweep has one action per statement, and `SweepCrashes` may come between
any two. `erase` runs at the default isolation, so its check (`EraseChecks`) and its
commit (`erase`) are two actions too. A sign-in is `login`, the resolution of the
device (`handleKnownDevice`, or `CountDevices` and `handleUnknownDevice`, then
`EnsureReads` and `ensureChangeRequest` when the device is parked), `OpenSession` and
`establishSession`; a refresh is `refresh`, then one of `rotateRefresh`,
`RotationLost` with `RetryReads`, `reissueFromSuccessor`, or `FamilyReads` with
`revokeFamily`; a review of a device change is `ReviewReads` and its verdict; what ends sessions by user or by device goes on
as `WithdrawUser`, `WithdrawDevice` or `WithdrawBinding`. A transfer is `BeginTransfer`,
`TransferChecks` if it names a part, and `transfer` or `TransferConflicts`. Publishing an
announcement by hand is `publishLegacy`, `PinInstant` and `BeginPublished`; `sendNow` goes
straight to `dispatch`. A request for a ticket is `issueTicket`, `claimPlay` as `PlayFinds` (which resumes) or
`PlayCloses`, `PlayCounts`, `PlayNumbers`, `PlayCreates`, and `mintTicket`; a heartbeat
is `heartbeat`, `BeatChecks`, and for a rotation `RotateReleases` and `RotateMints`.
A call to the provider (`gumletAdopt`, `sync`, `gumletVerify`, ...) reads the row, asks,
and writes in three steps; the worker goes through `process`, `processFromJob` and
either the hand-over to the provider or `Transcode`, and may die between any two.
A refusal that only rolls back is `RequestRefused` or `RedeemRefused`. Operators
whose name ends in `_Something` and whose comment begins with "Mutant" are
deliberately wrong variants: they show that each property can fail, and no
specification uses them.

Abstractions: text never appears (a code, a reason, a reference is an identifier);
an amount is given in piastres and the parser is reduced to its range check; the
signature check of a webhook is left out, so an event that reaches the model is
genuine; in `Access` courses are published (`decide` looks at the enrollment only;
publication, targeting and locks are in `Documents` and `Pages`). `TeacherShare` keeps what floating point
does: an exact half may round either way. `Online` is the `PAYMENT_PROVIDER`
switch; the deployed configuration accepts only `none`, so webhooks, and with
them FAILED payments, exist only in the runs and theorems that say so. In the
library, the academic rule of a material is the set of students it admits, free
previews are left out, and credit comes from adjustments only. In `Sessions`
tokens do not expire and are not pruned, and the playback tickets that end with a session are left out. In
`Playback` the stream slots are outside (a request passes `acquireStreamSlot` or ends
there, `RequestDies`), `withdrawAccess` stands for everything that ends the tickets of
the student together with the access, and a rotation on a device that is no longer
authorized may end the ticket at any time. Cutoffs of the video recovery are not counted:
it may find any row old enough. In `Catalog` a write and the deletion of the cached lists are
one step, and the deletion succeeds.

## 3. Runs

Three specifications have fairness. `DeletionSpec` has weak fairness of
`SweepStep`: every API process schedules the sweep hourly
(`account-deletion/account-deletion.scheduler.ts`), the lock lapses when its holder
dies, and a sweep that does not crash goes on to its next statement. Crashes are
bounded by `MaxCrashes`; a crash and a failure inside `erase` carry no fairness.
`PlaybackSpec` has weak fairness of each request in flight and of the two sweeps the
maintenance processor repeats, and strong fairness of the clock (which no
stream of requests stops) and of the player's requests: a server that dies in every
one of them for ever is excluded. `VideosSpec` has weak fairness of every request and
execution in flight and of the provider, which settles every asset, and strong
fairness of the worker's taking of jobs (BullMQ hands out what waits) and of
`recoverStrandedVideos`, which a repeatable job runs however busy the service is.
Nothing students or staff do carries fairness. All other properties are safety properties.
`CHECK_DEADLOCK FALSE` is set in every configuration because
the bounds (payments, requests, days) are used up and the system then simply has no
more work.

| Run | Instance | Checks |
|---|---|---|
| `wallet` | 2 students, a print run of 2 cards at 4 price settings, 3 requests, ceiling 3 | the ledger chain, the range of balances, whole consumption of cards |
| `payments` | 1 student, 1 course, 2 payments, 2 join requests in flight, 2 refund keys, 3 refund rows per payment, no provider | revenue equals money kept, one refund per key, access is paid for, a revocation holds |
| `webhooks` | a provider is configured: 1 payment, 1 join request and 2 deliveries in flight, 2 refund keys, 3 refund rows | what is refunded never exceeds what was paid, under duplicated, delayed and contradictory events; that keys are used once is proved with a provider too |
| `enrollments` | a one-day section card and a lifetime part card, 1 payment, 3 days, and one of three scenes: 1 student at 1 course of 2 sections, one other request in flight (`seat`); 2 students and 2 requests at 1 course, cards of 1 or 2 uses (`race`); 1 student, 2 courses and 2 administrators who transfer (`move`) | grants and parts come from redeemed cards or from a part one was transferred into, a card is not used by more students than printed, a section card never opens the whole course |
| `deletion` | 1 student, 1 card, 3 wallet requests, 2 deletion requests, 2 attempts, 1 crash | a hold blocks erasure, a settlement is paid once and as recorded, and (liveness) a due request is handled |
| `library` | 1 student, 1 material with 2 parts and a package, 2 orders in flight, prices 1 and 2, ceiling 2 | entitlements equal purchases, purchases equal debits, only what is on sale is sold |
| `sessions` | 1 session with 3 tokens, 1 device, 1 change request, 2 requests in flight, 1 password change, 1 reset of the binding | a token is rotated once, reuse ends its family, revoked tokens belong to ended sessions, an open session keeps its device |
| `playback` | 2 tickets, 2 plays under a limit of 1, 2 requests for a ticket and 2 of the player in flight, three at once at most, lifetime 2, grace 1, resume window 5 intervals | counted plays stay within the limit, a ticket that is accepted has an open play, and (liveness) lost access ends every ticket |
| `delivery` | 2 uploads, 2 assets, 2 calls in flight | `Delivery` implements `Protection` (refinement), and no license is signed for an asset that is not encrypted, except one the row had left meanwhile (below) |
| `videos` | 1 upload, 1 asset, 1 job that may be stalled or lost, 1 request, 1 worker that may die | (liveness) no video stays in the pipeline, but for those dropped by one of three writes (below) |
| `authoring` | 2 requests in flight and, by part: 3 rows on 3 positions; 1 student, 2 teachers, 2 archive records; 2 lectures in 2 sections sharing a video; 2 parts of 40, 60 or 100 % of a price of 0 or 3; 2 occurrences and 2 workers; 2 tickets of a lecture 2 tolerances long | order of neighbours, restore approves nobody, tickets and counters follow the content, parts pay the course, nothing is sent twice, progress on evidence |
| `frontdesk` | 2 requests in flight and, by part: 3 courses with and without departments; 2 ladders, 4 edits, 1 cached list; 1 document or lecture of each kind; 2 phones under a cap of 1, 2 users; 1 number, a lock after 2 failures, 2 passwords; 2 keys, 2 courses, 1 document row; 2 tickets, 3 references | transfers create nothing, listed years are current, live links are earned, pages tell the truth, the newest phone rings, sessions match the account, registered files are there, unseen is unread |

In `authoring` and `frontdesk` the parts share no table except the requests in
flight, so a behaviour of several parts at once shows nothing that one of them
alone does not; `desk` chooses the part and the others stand still. Where a property
holds only as long as no two handlers cross (the history variables of section 2), a
behaviour is followed up to the first crossing (that of `playback` up to the crossing of two
requests for a ticket, which `LostAccessEndsPlayback` is not checked beyond either; that of an
announcement until `raced`).

Why these bounds are enough to be interesting. Two students and two cards let each
of "one card, two students" and "two cards, one student" happen, and three
requests let a third one arrive between them. The ceiling of 3 is reached by two
cards, so the refusal at `MAX_PIASTRES` happens, and so do a rounded half (50 % of
3), a giveaway and a refused discount. Two students and two tasks at a card of one use are the race for its last use. Two
payments are the least on which a stale
join matters; three refund rows are a promise, its failure and a second promise,
or a promise, a payout and a completion. A price of 2 allows partial refunds.
Three days are the least on which a one-day card and a course that ends on day two
disagree. Two webhook deliveries are a duplicate in flight, or a success and a
failure that cross. Three wallet requests are a credit that puts a deletion on hold,
a debit that empties the wallet behind it, and a credit after the settlement; with
two attempts and one crash a request can crash, fail and be stopped. Two parts and
a package let a package and one of its parts be bought in either order, while two
orders let a second tap, a package edit or a removal fall between check and
purchase. Two requests and three tokens are two refreshes of one token, of which
one rotates and the other retries, reissues or revokes the family; a second session
or a second device multiplies the states beyond what a run can visit, and both are
covered by the proofs. A ticket lifetime of two intervals leaves heartbeats that
rotate and heartbeats that do not, and the resume window is the shortest the
assumption allows; two tickets are a rotation, or the last visit of one play and the
first of the next. Two assets and two calls are the least on which a proof for one
asset can meet the other; two uploads let a source be replaced under a call. Two requests for a ticket are the least that race for a play. One
job that stalls is two executions of it; with two uploads instead of one (2.4 million states,
beyond the time of a run) `VideoSettles` holds as well, the third write of the list below
included. Three rows leave a gap in the middle and a
row after it. Two archive records are an archive of an archive. Two lectures that
share a video show that ending one leaves the other alone. 60/40 of a price of 3
rounds. Two workers and a lease are a takeover; two occurrences are an advance. Two
administrators, three courses: one transfer, two to one course, two to different
ones. A cap of one phone is exceeded by the second. Two keys and two courses are
needed for the file of one course to be deleted by another. What no bound of this
kind shows is covered by the proofs where they reach (section 5). Symmetry is used
only where no property or constant tells the permuted values apart.

### Disagreements between the code and what it says of itself

Met while modelling. The steps are in the modules; where a property would be
violated by one, it says so in its comment and excludes exactly that.

Money and access:

* "two taps ... cannot produce ... two payments" (`enrollments.service.ts:67-69`):
  `join` reads the access decision before its transaction (`:201`), so a second tap
  whose check precedes the first payment's capture opens a second checkout, and the
  paid enrollment goes back to PENDING_PAYMENT (`JoinChecks`, `joinWithPayment`).
* "no path ... can erase an account whose wallet still holds money"
  (`account-deletion.service.ts:747-751`): `erase` reads the balance at READ
  COMMITTED, and an adjustment commits between that read and the commit
  (`EraseChecks`, `adjust`, `erase`).
* A fully discounted card "still has to be consumed" (`wallet.service.ts`), but it
  moves no credit, so nothing opens the wallet the closure reads last: for a student
  who never opened theirs the redemption rolls back, every time
  (`redeemRechargeCode`, `RequestRefused`).
* The lines of a refunded payment "always net to zero" (`refunds.service.ts`), but
  each contra line is rounded by itself: four refunds of 1 piastre of a payment of 4
  at 50 % charge the teacher 1 + 1 + 1 + 0 against 2 earned (`ContraTeacher`).
* Access is "only ever widened here, never narrowed"
  (`enrollments.service.ts:545`), but `grantAccess` overwrites `accessEndsAt`: a
  one-day section card on a longer enrollment brings its end forward.
* "leaving one open would let a late confirmation silently undo the revocation"
  (`enrollments/revoke-enrollment.ts:33`), but `rejectRequest` writes REVOKED without
  that helper, and the checkout the same student opened meanwhile stays: a
  confirmation of it re-opens the course (`RejectReads`, `rejectRequest`, `confirm`).
* `extend` writes an end computed from an earlier read and makes any row ACTIVE
  (`enrollments.service.ts:1616`): of two extensions one is lost, and one that raced a
  removal undoes it.
* `transfer` reads the scope of the source outside its transaction
  (`enrollments.service.ts:1294`), so a source exchanged meanwhile for a section
  gives a whole course. A lapsed enrollment that no sweep has expired yet is ACTIVE
  and gives fresh access. A transfer into a course without departments leaves the
  student without one, and `updateOwnProfile` then refuses for ever. A transfer gives sections
  and a part without a card, so `HoldingsAreRedeemed` counts what was moved (`moved`) beside the
  cards.
* With a valid 60/40 no single part can be added, changed, removed or deactivated:
  `revalidate` looks at the whole structure after each (`course-parts.service.ts:862`).
  The validations run at READ COMMITTED, and two that cross leave a structure that
  does not add up, for which `allocatePartPrices` charges 0.
* `removePart` refuses to delete a document somebody holds, but the purchase may
  come between its check and its write (`RemoveChecks`, `remove`).
* The deletion scheduler says that a second sweeper "finds nothing to claim", but a
  PROCESSING row is taken up again unconditionally
  (`account-deletion.service.ts:377`); only the lock keeps sweepers apart, for as
  long as a sweep stays within its 30 minutes.

Playback, video and content:

* The license and the manifest of a ticket are those of the asset on the row the
  request read first (`playback.service.ts:880-981`), while the DRM gate judges the row
  as it is by then: an asset replaced in between is signed on its successor's verdict
  (`BeginPlayback`, `ensurePlayable`, `resolvePlaybackTarget`; recorded as 0 in `served`).
* The migration plans its whole batch before it carries any of it out
  (`gumlet-migration.service.ts:319`), so a video is adopted or replaced on a plan that
  its row may have outrun; the claims in `BeginAdopt` and `BeginReplace` decide (`run`, `runOne`).
* "racing the endpoint cannot manufacture a fourth play"
  (`playback.service.ts:508`). The count and the highest attempt number are two
  statements: a request that counted before the other one's insert and numbers its row
  after it collides with nothing (`PlayCounts`, `PlayCreates`, `PlayNumbers`), and TLC
  exceeds the limit in 12 steps. And a request that found no open play closes the one the other
  has just opened or resumed. `PlaysWithinLimit` and `RunningPlayIsOpen` are about
  everything up to such a crossing (`crossed`); what crosses otherwise, such as two
  requests that took one number, does not harm them.
* The resume window must be longer than the lifetime of a ticket
  (`config/env.validation.ts:460`), so that an expiring ticket does not cost a play. A
  heartbeat is accepted two intervals longer, so that `RunningPlayIsOpen` needs a window
  longer than that; `PlaybackAssumption` says so, and the defaults satisfy it.
* "A second concurrent stream is refused" (`docs/SECURITY.md:188`), but the
  count of the slots and the insert are two commands to Redis, and
  `touchStreamSlot` puts back a slot that was lost to another session.
* `reclaimStaleSlots` ends every ticket it read, also one that was heard of since.
* Access is said to end at once, ACTIVE tickets included, but a ticket whose access
  check preceded the removal is inserted after it (`issueTicket`, `mintTicket`).
* A video whose job is gone sits in QUEUED or PROCESSING, and the recovery "is what moves
  it again" (`videos.service.ts:655`). It finds a PROCESSING row by its start or its asset, and
  three writes leave one without either, for good once its job is gone. A retry of a video without an
  asset clears the start and, when the queue refuses its job, keeps PROCESSING
  (`:1136-1144`, `ClearRetried`, `enqueueTranscode`). An upload confirmed again while its job runs
  clears the start before it looks at the job (`:456-463`, `FinishUpload`); the worker then dies
  and the queue forgets the job. A poll that ends after the video was uploaded anew writes
  PROCESSING on a row whose asset is gone (`gumlet-ingest.service.ts:1206`, `PollBudgetSpent`).
  `VideoSettles` is about every video in the pipeline and lets these three rows go
  (`Abandoned`), no others. An API process that dies between clearing the start and adding the job
  leaves such a row too; in `VideosSpec` a call that was begun ends.
* Two adoptions that cross create two assets, of which the provider keeps the loser;
  `markAdopted` and `markReady` write without a condition.
* `remove` of a section closes the gap with one UPDATE (`sections.service.ts:381`),
  over a unique index that counts deleted rows: it meets the row just removed, so only
  the last section can be removed, and the next append meets it too. The same holds of
  an append to the parts. The reordering of lectures is "injective, so two rows can
  never meet" (`lessons.service.ts:718`), deleted rows apart.
* `recountCourse` counts and stores in two statements: of two that cross, the older
  count may win. Attaching a video may cross its removal, and accepts an ARCHIVED one.
* `restore` tells the approved by `approvedAt`. A student who was approved, archived
  twice and asked again comes back ACTIVE on the old date; `extend` on a pending row
  gives access without a date, and `restore` takes it back. Two concurrent
  `removeTeacher` leave a course without one.
* Progress is called monotonic (`progress.service.ts`), but two reports that cross
  overwrite one another: credit is lost, never gained.

Accounts, sessions and devices:

* Approving a device change is a swap, "so the account never ends up with two live
  devices because of a race" (`devices/devices.service.ts:530`). The count at sign-in
  and the insert are two statements: two first sign-ins from two devices both bind,
  and so do a sign-in that counted before an approval and the approval
  (`CountDevices`, `handleUnknownDevice`, `approveChange`). With two devices and a
  limit of one, TLC reaches two ACTIVE devices.
* "One pending change request per student" (`devices.service.ts:451`) is a read
  followed by an insert, without a unique index (`EnsureReads`,
  `ensureChangeRequest`).
* `approveChange` ends the sessions whose `deviceId` differs from the approved device.
  In SQL that excludes sessions without a device, which stay open; and, unlike
  `revokeDevice`, it leaves the refresh tokens unrevoked, so that they are refused
  only because their session is.
* "Anything less leaves a reset that looks complete on screen and is not"
  (`devices.service.ts:762`). `resetBinding`, `revokeDevice`, `logoutAll`, a suspension and a
  deletion end the sessions in one statement and revoke the tokens in a later one, in a
  transaction at READ COMMITTED (`:676-717`, `:768-808`, `auth.service.ts:802-823`,
  `users.service.ts:611-622`, `:758-775`): a sign-in that commits between them is left with an ACTIVE
  session and a revoked token, and its access token works until it expires.
  `RevokedTokenIsOfEndedSession` excepts the sessions opened in that gap (`late`). (For a
  deletion the gap is wider in the model than in the code: the update of the unique phone
  holds the user's row against the session's foreign key.)
* A sign-in that verified the old password before a reset opens its session after it,
  and the token it gets is newer than `credentialsChangedAt`; its rehash may even write
  the old password back (`auth.service.ts:268`). The count of failures is written from
  an earlier read (`:293`), so guesses made at once count as one.

Messages, files and lists:

* A cancelled announcement can be overwritten by the recovery (`announcements.service.ts:402`);
  an abandoned claim is never finished, so that each tick advances the schedule once
  more; a crash between `:471` and `:475` leaves a published one SENDING; one that is both
  scheduled and published by hand can be sent twice.
* "Pressing this twice sends once" (`announcements.controller.ts:137`): a second press on a one-off
  takes the instant of the press for its occurrence (`announcements.service.ts:414`), so it
  claims and broadcasts again, also long after it was SENT (`sendNow`). And "a send happens at most
  once" (`src/src/jobs/processors/maintenance.processor.ts:69-71`), but a worker that listed the row
  while it was due and reads it again after it was SENT claims a new instant. `NothingSentTwice` says of each
  occurrence that it is sent once, whatever happens; of a one-off as a whole until `raced` marks one of these.
* `createOnce` decides what is new before it inserts (`notifications.service.ts:204`):
  two overlapping sweeps push a reminder twice, and a failure of the queue after the
  insert pushes it never. Two overlapping registrations exceed the cap, and a push
  that failed on an older registration gives up the new one (`:505`).
* A signed upload link stays valid after the size check (`attachments.service.ts:311`).
  The image key of any course may be registered with another, and is deleted when its
  own course replaces it (`courses.admin.service.ts:211`). A picture may also name a key nobody
  uploaded: `assertCourseThumbnailKey` (`:156-170`) asks for the form only, so
  `RegisteredFileIsThere` is about the pictures whose keys were signed for an image.
* Opening a support ticket marks as read a message that arrived after it was read
  (`support.service.ts:274`); every writer stores a status computed from its own read.
* A list loaded before a change of the catalogue and stored after it stays for 15
  minutes. A university that was deactivated and then updated with `isActive` is
  active and deleted. A Redis that
  refuses to delete the lists is ignored (`src/src/redis/redis.service.ts:120-122`), and they stay
  until they lapse, although "a cache outage is a latency problem, never a correctness one" (`:126`).
  Two concurrent creations give one unit two ladders.
* The liveness of an attachment link accepts any ACTIVE device and session, and
  a preview of an ARCHIVED course stays open although a new link would be refused. The
  course page draws the attachments by course access only (`courses.service.ts:415`), so
  the holder of a part sees those of other sections unlocked; a preview lesson draws
  all of its attachments unlocked; handouts of a section that is not released yet open.
  A HIDDEN course is "unchanged for those already in" (`course-access.service.ts:254-276`), whose
  lectures open while the page of the course refuses them (`courses.service.ts:63-67`, `:324`). A preview lesson
  opens on a paused or unpublished course for anyone without an ACTIVE enrollment, and on no page.
  `LiveLinkIsStillEarned` and `PagesTellTheTruth` are about the rest.

One more is only latent, because no provider is configured: `fail()` reads the
status and writes FAILED in two statements, so a failure event that crosses a
capture turns a PAID payment into a FAILED one, which a duplicate success event
captures, and books, a second time. `RevenueMatchesMoney` and `AccessIsPaidFor`
are therefore checked and proved without a provider only, and `webhooks` checks
what holds with one.

## 4. Mutants

Every property of a passing run has a mutant: a wrong variant of a mapped
definition, such as a dropped guard or a lost write, under which TLC finds the
property violated in the run's own configuration.

## 5. Proofs

The theorems hold for every set of students, courses, cards, requests, deliveries,
prices and shares, and every bound, under the named assumptions on constants
(`AccessAssumption`, `PaymentsAssumption`, `WalletAssumption` and so on), which TLC
evaluates in each run. An assumption says what kind of value a constant is, and
otherwise only what the code sees to: a cap of push tokens is at least one
(`env.validation.ts`), the window to resume a play outlasts its tickets
(`PlaybackAssumption`, section 3), and a missing key is no key. Some theorems have a
hypothesis beside that, `~Online` (no payment provider), which is explained below.

Where a run stops at the first crossing of two requests, the theorem does not: the
specifications of the components (`CatalogSpec`, `SupportSpec`, ...) go on, and the
invariants say what survives a crossing and what does not.

**Wallet** (`WalletProofs`): `WalletTypes`, `LedgerIsTruth`,
`BalanceStaysReadable`, `TotalsAlwaysAgree`, `CardsRedeemedWhole`. The inductive
invariant `WalletIInv` is the type invariant together with the first three properties: the
range of a new row needs the chain of rows to end at the cached balance, and the chain
needs the row types. `MoveKeepsInv` does the work once for `Move`, and the actions that
move credit cite it; `DiscountSound` shows that an accepted discount leaves amounts
that are not negative. `CardsRedeemedWhole` adds `CardInv`: the students who took a card,
its use count, its revenue lines and the ledger rows under its key are the same in number,
and each row is at the price printed on the card. The property speaks of one card at a time;
what makes it inductive is that a key in the ledger belongs to a redemption, so that the
credit of a first redemption is never mistaken for a replay.

**Library and account deletion** (`WalletProofs`) rest on `WalletIInv`, since a purchase
and a settlement are debits. `LibraryInv` gives `HoldingsAreBought`, `PurchasesArePaid` and
`LibraryKeepsWallet`; its own part is `KeyIsPurchase` (a ledger row under a target's key is a
recorded purchase, so a debit is never a replay of one that is not on record).
`SalesAreOnSale` is an action property: what a purchase hands out is on sale in its last
step, whatever its first step saw. `DeletionInv` gives `HoldsBlockErasure`,
`SettlementsArePaid` and `DeletionKeepsWallet`. It needs `SweepIsClear`: what the running
sweep is about to do to a request agrees with the row, which only the steps of
that sweep, a crash or a cancellation can change.

**Payments** (`PaymentsProofs`): the inductive invariant `Inv` is the type invariant,
"a payment that exists has an owner" (`Owned`), and
`RefundedNeverExceedsPaid`, `RefundKeyUsedOnce`, `RequestResolvedOnce`, with
`HookOwned` (a delivery in flight is about a payment that exists). It gives `PaymentTypes`,
`RefundsAreBounded`, `RefundKeysAreUsedOnce` and `RequestsAreResolvedOnce`, with
or without a provider.

For `AccessIsBought` and `RevocationIsFinal` the theorem assumes `~Online`, and
the invariant is strengthened by `Quiet`: no delivery in flight, no FAILED
payment, no refund row on a payment that was never captured, no PENDING checkout
on a revoked enrollment. The last part is what makes `RevocationHolds` an
action property one can prove: a confirmation finds nothing to capture. It is also
exactly the statement that `rejectRequest` breaks once it is in the system, so the two
theorems are about `Payments`, where payments are the only way in.

`RevenueIsMoneyKept` is about a sum over the revenue lines of a payment and assumes `~Online`
too. Its invariant `Booked` says of every payment that its lines sum to what the row says was
kept, and adds what the property leaves open: a payment that was not captured has nothing
refunded, and none is FAILED, so that a capture always books on lines that sum to nothing. `GrossAppend`
(one line more adds its amount) carries each capture and refund. `EnrollmentsKeepBooks` extends
it to cards, grants and administrators: they write no line, and of payments only cancel
PENDING ones.

**Enrollments** (`PaymentsProofs`): with every other way into a course beside payments,
`EnrollmentsInv` is the payments' invariant, rows of requests that mean something, and
`Covered`: the sections and parts of an enrollment are printed on cards its student has
redeemed, or belong to parts the student was transferred into. Most steps only narrow an
enrollment (`Narrows`), which keeps `Covered`; the redemption and the transfer widen it.
`CardsInv` adds that the use count of a card is the number of students who redeemed it and no more
than it was printed for. It gives `GrantsAreRedeemed`, the action property
`SectionCardsStaySections`, and `EnrollmentsKeepPayments`: the theorems about refunds
survive the composition.

**Sums** (`SumTheorems`). The sums of the models are folds of the community modules, and a fold
is a recursive function given by `CHOOSE`: nothing follows from its definition until a function
with those equations is known to exist, and the library's induction theorems cannot be
instantiated here. The existence is proved without them: partial sums over the sets of at
most n elements exist for every n, because the least n without them has a predecessor with them
(`PartialSums`); together they are the sum over all finite sets (`PartialEquation`). The
rest follows by taking a least set on which a statement fails: the order of summation does not
matter (`PartialAny`), one number more or less (`SumMore`, `SumLess`, `SumChange`), sums and
multiples (`SumOfSums`, `SumTimes`), order and bounds (`SumOrder`, `SumBounds`), zeros that do not count
(`SumOutside`), and ones that count the elements (`SumOfOnes`).

**Courses** (`CourseProofs`).

* `OrderIsKept`, for lists of any length: `OrderInv` says that no two rows, deleted ones
  included, share a position, and that live ones start at 1. What the code shifts out of the
  way and back, one row after the other, comes out as one shift of all (`ShiftedKeepsInv`).
* `ContentIsInOrder`, for any tree and any number of handlers: `ContentInv` says, as long as nobody crossed
  (`crossed`), that what a handler in flight has read of its rows still holds, that every
  ticket plays something open unless its revocation is under way, and that the counters
  are those of the tree unless somebody is about to count again.
* `PartsPay`, for any parts, shares, prices and number of handlers: `PartInv` says, as
  long as no write slipped between another's check and its commit (`skewed`), that the allocation
  adds up, now and after each validated write that is about to commit, and that what was paid is a line
  of it. That the lines sum to the price is `AllocationPays`; for percentages it is the proof of the
  largest-remainder method: the floors fall short by at most one piastre for each part
  (`RemaindersMakeUp`), the places in the order of remainders are 0, 1, 2, ... without gaps or
  ties (`PlacesAreTaken`), so exactly as many parts get one more as piastres are left
  (`LargestRemainders`).
* `ProgressIsOnEvidence`, for any number of plays and requests: `ProgressInv` says of the row, and of a
  row a request is about to write, that it banks no more than was watched, and
  shows no completion, nor a percentage beyond the furthest point, without the evidence. What was
  evidence once remains so (`MoreEvidence`), since the watched sum and the furthest point only grow.

**Sessions** (`SessionsProofs`): `SessionsTypeCorrect`, `RefreshRotatesOnce`,
`NoOpenSessionOfRevokedToken`, `SessionActsAsItsDevice`, `NoResurrection` and
`ReuseRevokesFamily`, for any
number of sessions, tokens, devices and requests in flight. The inductive invariant
`SessionsIInv` adds three things to them. `TokensSound`: a token that exists belongs to
a session that exists, and one that does not is empty. `ParentIsUsed`: a token
with a successor is used, which is what makes the claim of `rotateRefresh` exclusive.
`CallSound`: what a request has read still names existing rows, and the family a
request is about to revoke has its session among those to end or has ended. The last
part is the heart of `ReuseRevokesFamily`: the sessions to end are read from tokens
that are not revoked yet, and if a concurrent logout leaves none, then
`RevokedTokenIsOfEndedSession` says the session is over already, or opened late.
`WithdrawSound`: of the sessions whose tokens a transaction in flight is about to revoke, every
one is among those it has ended, but those opened late, and on a device row that a reset has
deleted no session is opened at all. `GraceEnds` waits for such transactions:
the grace window of a used token is minutes and outlasts them. `Grows` (rows do not vanish, an
ended session stays ended, its device key and its `late` stay) is proved of every step together with the
invariant; it frames the requests that do not move, and it gives `NoResurrection`.

**Playback** (`PlaybackProofs`): `PlayLimitHolds` and `AcceptedPlayIsOpen`, for any number of
tickets, plays, heartbeats and requests for a ticket, any limit and any lifetimes, until two
requests cross (section 3). `PlaybackInv` says that what a request
has read still holds when it writes, because a play is closed only when no
ticket of it can still be accepted (`PlayFollowsTicket`), that a request past its count finds the
plays under the limit when it takes its number, and that when it inserts the number, either a play
has it already, which refuses the row, or the plays are still under the limit.

**Video pipeline and protected delivery** (`DeliveryProofs`): `PipelineServesEncrypted`,
`PipelineProtects` and the same for delivery alone. `PipelineInv` has `ProofIsTrue` (a proof
on the row is about an encrypted asset), and, for every call in flight, that what it is
about to record is about the asset it read (`ReadOffAsset`); the conditional writes compare that
asset with the row. `PipelineProtects` is the refinement: `[]`-steps of the pipeline are
`Protection` steps or stutter. The theorems are about `PipelineSpec`, the worker, the requests and
the provider together with the uploads, which is beyond TLC; the run `delivery` checks
`DeliverySpec`, where no upload is replaced during a call, and `DeliverySpec` implies `PipelineSpec`.

**Components with handlers** (`HandlersProofs`). Each invariant describes what a request that
has read may still rely on.

* `RestoreApprovesNobody`: `CourseInv` keeps `NeverLetIn`: who was never let in carries no
  approval, and if waiting, or put away while waiting, asked for one. The property alone
  is not inductive, since archiving forgets the state a row had.
* `RegisteredFilesStay`: `UploadInv` follows a key from minting to deletion: what a request is
  about to delete is what a row has just left, and as long as no key is registered twice
  (`reused`) no other row shows it; a key that was made up is never in the store, and the theorem speaks of the
  pictures that were signed for.
* `UnseenStaysUnread`: `SupportInv`: references are unique; as long as nobody crossed, what a
  writer has read of a ticket is the ticket, and unread is unseen except while staff look.
* `SessionsStayCurrent`: `AccountInv`: as long as nobody crossed (`hasty`), what a sign-in read is
  the account (`StillTrue`), and every open session has its password (`Matched`).
* `TransfersCreateNothing`: `TransferInv` counts: open places are no more than the grants, and,
  while nothing changed under a transfer, whole courses no more than whole grants.
* `NobodyHearsTwice`: `ClaimInv` (a claimed occurrence has one owner at most, and none once it was
  sent) gives one fan-out for each occurrence, whoever crosses or presses; `OnceInv` (whoever is about
  to claim holds the next occurrence, or nothing was claimed before) gives one at all for a one-off,
  until `raced`.
* `YearsAreCurrent`: `CatalogInv`: no write drops a rung, because a rung is in use or retired and
  never both (a rung in both would be lost when it is switched off and on); and a list in the
  cache, or on its way into it, is what its ladder says.
* `LinksStayEarned`, `PagesAreTrue`: consequences of the types of the facts, for any devices. They
  show that the two decisions agree in every combination of facts, reachable in a run or not, but
  for the differences that section 3 lists and the properties name.
* `LastPhoneRings`: `PhoneInv` has the order of the active phones by their last write, from which
  `LatestAreFew` derives that a registration keeps no more than the cap, its own phone among
  them; `PushInv` says that a reminder a sweep has in hand was never pushed.

`ClaimInv`, `OnceInv`, the invariants of `Playback`, `Delivery` and `CourseProofs`, and whatever
else was in doubt were checked by TLC on the small instances before they were proved.

Every invariant and action property of the runs is stated by a theorem. Only model-checked:

* Liveness (`DueRequestIsHandled`, `LostAccessEndsPlayback`, `VideoSettles`): the prover does
  not treat fairness or ENABLED.

## 6. Not modelled

* Audit log, security events, platform settings, search, analytics, home: they append
  or read, and nothing decides on what they write. Settings are constants here.
* Stream slots in Redis, whose lifetimes are the point of them, and the manifests.
* The bytes: transcoding, captions, thumbnails, hashing, signatures, the license exchange
  with the DRM provider, mail.
* The calendar of recurring announcements and the audience of an announcement; the
  academic rule behind the audience of a library material.
* In modelled components: editing a batch of cards, listings, exports and formatting.
* `prisma/seed.ts`, controllers and DTOs: validation of input shapes and data for
  development.

## 7. Plan

1. An abstract specification of the money of a course (collected, returned, kept) that
   `Payments` implements.
2. Stream slots of several sessions beside `Playback`.
