# SwiftShare backend: TLA+ models and proofs

SwiftShare is a file-sharing server: Express routes and Socket.IO handlers in
one Node.js process, MongoDB for transfer documents, Cloudflare R2 for the
bytes, node-cron for the cleanup. This directory models the parts of it in
which steps of several actors interleave, model-checks them with TLC and proves
the most important properties with TLAPS. Line numbers refer to the repository.

JavaScript runs a handler without interruption from one `await` to the next.
That is the grain of every model here: **an action is one database or storage
call with the synchronous code around it, and whatever a handler read before an
await is kept in a variable of its own** (`snap`, `newExpiry`, `registering`,
the closure of a timer), because the code goes on to decide on it when the
document may have changed.

## 1. Inventory

| Component (source) | State | Operations | Hard behaviour | What makes it correct |
|---|---|---|---|---|
| Burn claim and download (`routes/download.js`) | transfer document: `claimantToken`, `burnClaimOwner`, `downloadSessions`, `downloadCount` | download, single, preview, verify; `claimBurnDownload`, `finalizeDownload` | requests decide on copies; long streams; lost races retried | one claimant; only it is served; counts match |
| Transfer routes (`routes/transfer.js`) | document, countdowns, status and activity caches | extend, cancel, burn-finalize, status, activity, verify-password | guard and update apart; R2 and MongoDB in two steps | one cause of deletion; one extension; no orphans |
| Cleanup (`services/cleanupService.js`) | `isCleanupRunning` | `runCleanup`: `expireOne`, `finalizeStaleBurn`, batches | deletes what others use; failures swallowed | claimed and expired transfers disappear |
| Claimant sockets (`config/socket.js`) | `gracePeriodTimers`, `socket.data` | register-claimant, disconnect, grace timer | timers against registrations, old against new socket | only an absent claimant's transfer is burned |
| Countdown (`config/socket.js`, `server.js`) | `countdownMap` | schedule, clear, tick, restore | cleared and scheduled around awaits; a restoration that gives up | never too long, missing only when something failed, true when it ends |
| Upload pipeline (`routes/upload.js`) | parser state of one request, R2 objects | parse parts, limit, validate, upload, abort, publish | background validation and uploads, abort paths | what is published is stored, checked, within limits; every upload is answered |
| Text and clipboard (`routes/text.js`, `upload.js`) | document | one upload, `inlineContent` update | update races the unawaited insert | text belongs to its own transfer |
| Codes (`services/codeGenerator.js`) | partial unique index | draw until free | check and insert apart; three views of who has a code | an answered code leads to its transfer |
| Sender presence, nearby (`config/socket.js`, `routes/nearby.js`) | `senderSocketId`, rooms | register-sender, disconnect, stale sweep, list | sweep clears by code what was read before; late registration | a connected sender is found, a gone one forgotten |
| Limits (`middleware/rateLimiter.js`) | windows, lockouts | check, record, clear | check and count apart; boundaries of windows | what one address can do is bounded |
| Passwords (`routes/transfer.js`, `routes/download.js`) | `passwordAttempts` | check, compare, count, reset | check on a copy, bcrypt in between | guesses are bounded, none is lost |
| Lookups (`routes/file.js`) | `codeLookupLockoutMap`, `recentViews` | metadata, text | in-flight requests, polling | misses bounded, views counted once |
| Caches (`routes/transfer.js`, `routes/stats.js`, `services/adminAnalytics.js`) | maps with expiry, promises in flight | get, fill, invalidate, join | filled after invalidation; failure in flight | no answer older than its age; one computation |
| Admin (`routes/admin.js`, `utils/adminAuth.js`) | sessions, settings, lockouts | login, setup, verify, disable, logout, force-expire | marks by index and versioned saves overlap | spent codes stay spent; one setup |
| Page views (`routes/analytics.js`) | `pvDedupMap`, `pendingVisits`, timer | beacon, batch | repeats, failing inserts, a timer used once per batch | every queued visit is announced |
| Lifecycle (`server.js`, `config/db.js`) | listener, connection, `isShuttingDown` | listen, connect and retry, health, shutdown | failing callbacks, endless requests, the force exit | requests accepted before a clean end were answered; the database outlives them |
| Middleware, scripts, aggregations | - | validation, logging, queries | - | - |

Components meet in three places: the transfer document in MongoDB (every
handler), the process memory keyed by transfer code (`countdownMap`,
`gracePeriodTimers`, caches) and the objects in R2 (upload writes, downloads
read, four paths delete). `PROJECT.json` lists every component with its status
and every hazard at its line.

## 2. Modules

| Module | Models | Composes |
|---|---|---|
| `TransferDoc` | the document and the predicates every handler uses (`isBurnClaimOwner`, `validateOwnershipToken`, deletion marks) | used by `BurnDownload`, `GracePeriod` |
| `ClaimOnce` | the abstract promise of burn-after-download: one owner, downloads for the owner alone, previews for the owner and for those who asked before anybody else claimed, no claim after the end | implemented by `BurnDownload` |
| `BurnDownload` | downloads and previews, claim, stream, finalize, burn-finalize, cancel, cleanup, crash | `TransferDoc`, `ClaimOnce` |
| `GracePeriod` | claimant sockets, registrations, disconnects and the grace timer against the rest of the server | `TransferDoc` |
| `ExtendCountdown` | extend, `countdownMap` and its timer, expiry, deletion, restart and restore | - |
| `UploadPipeline` | one multipart upload with its background validations and R2 uploads | - |
| `CodeRegistry` | drawing codes, the unique index, the unawaited insert, the text of a snippet, deletion and reuse of a code | - |
| `SenderPresence` | register-sender, disconnect, stale-socket sweep, crash | - |
| `TransferCache` | status and activity caches: fetch, fill, invalidate | - |
| `SingleFlight` | `getStats`, `withAdminCache`, the health check | - |
| `ServerLifecycle` | listening, the connection to MongoDB, `gracefulShutdown` | - |
| `VisitBuffer` | page views and their batches | - |
| `CleanupPool` | passes, batches and runners of the cleanup | - |
| `RateWindow` | the fixed window of an address | - |
| `LookupGate` | looking up a code, its lockout, the view count | - |
| `PasswordGate` | the password counter of a transfer | - |
| `LoginLockout` | the progressive lockout of the admin login | - |
| `AdminLogin` | logins, backup codes, setup, verify and disable | - |
| `AdminLogin_proofs`, `BurnDownload_proofs`, `CodeRegistry_proofs`, `ExtendCountdown_proofs`, `GracePeriod_proofs`, `UploadPipeline_proofs` | theorems about the module of that name | extends it and `TLAPS` |
| `Limits_proofs` | theorems about `RateWindow`, `LookupGate`, `PasswordGate`, `LoginLockout` and their composition with `AdminLogin` | `MCLimits`, `AdminLogin_proofs` |
| `Services_proofs` | theorems about `TransferCache`, `SingleFlight`, `ServerLifecycle`, `CleanupPool`, `SenderPresence`, `VisitBuffer` and their composition with `CodeRegistry` | `MCServices`, `CodeRegistry_proofs` |
| `MC*` | instances for TLC; `MCLimits` and `MCServices` hold several small modules each | extends the module |

### How state and actions correspond to the code

`BurnDownload`: `doc` is the document, `r2` the objects, `snap[r]` the lean
object in request `r`, `pc[r]` the await at which the handler is. `FindTransfer`
is `findTransferByCode`; `Reject...` and `Admit` the checks up to the claim;
`ClaimAsOwner`, `ClaimDenied`, `ClaimOpen` and `ClaimAfterLostRace` the
branches of `claimBurnDownload`; `OpenStream`, `CompleteStream`, `AbortStream`
the stream; `AnswerHead`, `RejectRange`, `HeadPreview`, `CompletePreview` the
preview, which claims nothing and decides on the copy it read
(`download.js:968-1086`), so that it may go on after somebody else has claimed; `FinalizeDownload` the session record and the count. The routes
that delete are cut between marking and R2 in the order each route has:
burn-finalize deletes the objects first, cancel marks first. The clock is two
facts, `expired` and `lastActive`. A request profile says how a client
authenticates: header, query string or not at all, which the code tells apart
(`isOwnerViaQuery` accepts a query token, the burn check does not). It leaves
two writers out: the grace timer (in `GracePeriod`) and the admin's
force-expire (see the hazards).

`GracePeriod`: a timer carries the name of the socket whose disconnect armed
it; `tracked` is the entry in `gracePeriodTimers`, so a timer that is pending
but not tracked can no longer be cancelled. `conn[s] = "closing"` is the time
between a disconnect and the end of its handler's first await, during which the
same client may already be registering anew. Claim, cancel, burn-finalize and
cleanup are single guarded updates here.

`ExtendCountdown`: documents carry a date; `countdown` is `endsAt` in
`countdownMap` or `NoCountdown`. `ExtendStart` clears the countdown before the
update, `ExtendReschedule` schedules what was written (won) or what had been
read (lost). `RestoreFind` and the steps behind it are `restoreActiveCountdowns`, and
`RestoreGivesUp` is its other end: the connection is not ready, the query throws, or the
document is not among the first 2000 (`server.js:444-457`). It is called once in
the life of a process, so nothing makes up for that. `DeleteMark` and `DeleteClear` are the two halves of cancel,
burn-finalize and force-expire; `GraceBurn` has no second half in the code.

`UploadPipeline`: a part is a record of name, size in chunks and kind, a form
is a sequence of parts. `settled` is the parser's promise, `aborted` the flag,
`put`, `object` and `check` the R2 upload, the stored object and the validation
of each part. `AbortAll` is `abortAll`; a rejected validation fulfils its
promise, as `.catch(abortAll)` does.

The small modules use one prefix for their variables (`rateVars`, `lookVars`,
...) so that they can be extended together. A map entry that may be absent is a
set of at most one record. `CodeRegistry` keeps three views of a code apart: the
generator looks for unexpired documents, the index for undeleted ones, object
keys are code and title; `contested` remembers that a code was drawn while
somebody still had to do with it. In `SenderPresence` the sweep takes the ids,
then reads the database, then clears, as in the code, and `settled` remembers a
registration that no sweep was running beside. `TransferCache` and the lockouts
carry a clock, since what they promise is a duration; `TransferCache`
bounds the time from a query to its fill by `Latency`. `AdminLogin` names
secrets and batches of backup codes by the number of the setup that made them;
`Saved` is what Mongoose does on `save`: the changed paths are written, and a
changed array demands the version that was loaded. Updates by query, like the
mark of a used code, demand nothing. The history variables (`letThrough`,
`misses`, `wrongSince`, `spent`, `worked`) are written and never read by actions;
`resets`, `faults` and `rateRestarts` also bound the instance.

Definitions called `Mutant...` are broken variants of the definition that
follows them. Nothing uses them; replacing the definition by its mutant breaks
the properties `PROJECT.json` pairs it with.

## 3. Runs

| Run | Instance | Shows |
|---|---|---|
| `burn_race` | 3 requests (two receivers' downloads, a preview, burn-finalize, cancel), 2 tokens and fingerprints, 1 file, 1 fault | all safety properties of `BurnDownload` and that it implements `ClaimOnce` |
| `burn_reaped` | 2 requests (also the sender's own downloads), 2 files, 1 fault, fairness | claimed and expired transfers are deleted, objects of deleted ones go |
| `burn_tokenless` | 2 receivers without token | **violation** of `SingleClaim` |
| `grace_timers` | 3 sockets, 2 tokens, 1 fault | who may burn, who is spared, status of deleted transfers stands |
| `grace_connected` | 2 sockets, 1 token | **violation** of `ConnectedClaimantIsSpared` |
| `grace_purged` | 1 socket, fairness | **violation** of `ExpiredIsPurged` |
| `extend_expiry` | 3 requests (2 owners, 1 stranger), extensions 1 and 2, clock to 5 | one extension, countdown never late, missing only when an update threw or the restoration gave up |
| `extend_announce` | 2 owners | **violation** of `ExpiredIsTrueWhenAnnounced` |
| `upload_mixed` | 9 forms of up to 3 parts, 3 chunks, 2 files | what is published; every upload is answered |
| `upload_samename` | 2 parts of one name | **violation** of `PublishedFilesAreStored` |
| `limits` | 2 routes, 2 lookups, 3 guesses, 2 attempts, 2 logins, 2 changes, clocks to 6, 8 and 9 | what one address, viewer or client can do is bounded; the second factor stays of one setup and spent codes stay marked |
| `services` | 3 shares of one code and title, 2 sockets, 2 readers, 3 callers, 2 requests, 4 visits, 3 items on 2 runners, fairness | codes, sender, cache, computations, answers before a clean end, visits and cleanup batches |

`limits` and `services` check several modules in one run each. The modules share
no variable, so the behaviours of one are the same whatever the others do;
the variable `focus` picks one of them at the start and leaves the others in
their initial states, which explores each completely instead of the product. No
property relates two of them. What does interact is in one module:
a code's insert, index, text and deletions in `CodeRegistry`, logins and changes
of the settings in `AdminLogin`.

**Bounds.** Two requests show a race, a third one an outsider who meets its
result (a claim lost, retried, denied; a cancel between). Three sockets
are an old one, a new one and a stranger's; two overlapping timers need two
disconnects. A clock to 5 covers the first expiry (2), both extended ones (3
and 4) and the time after. A form of three parts has a part before and after
the one that goes wrong; three chunks let two files together exceed what each
alone does not. The limits are scaled down (5 attempts to 2, 10 failures to 4, hours to
2 and a day to 6 units) so that every threshold is met, exceeded by requests in
flight, and met again after a lockout has passed. One code for three shares makes
every draw meet a predecessor, alive, expired or half deleted; a longer supply of
codes only takes such meetings away. `MaxFaults` bounds crashes and failing calls; one fault at any
point is what the recovery paths are for. Request identities are used once, so
a client that retries is another request with the same profile. Sockets,
requests and tokens are symmetric where the cfg says SYMMETRY (never with
liveness).

**Deadlock** is checked in the burn runs. In the others the system may really
stop: every socket closed, every request answered, the clock at its bound.

**Fairness.** `BurnDownload!Fairness`: node-cron starts the cleanup for as long
as the process lives, each of its steps is an await that returns, and a handler
of burn-finalize or cancel that has begun goes on. Clients owe nothing: no
fairness for requests, streams or claims. `GracePeriod!FairSpec`: cleanup and
armed timers. `UploadPipeline!FairSpec`: the rest of a request body arrives or
the connection breaks, R2 answers or times out, promises resume. In `services`
only two things are counted on: the sweep of the sockets (an interval of five
minutes, its queries return or throw) and the timer of a batch of visits (1 s).
Requests, callers, sockets, the shutdown and MongoDB owe nothing; `MaxFaults` makes the faults of `SenderPresence`
finitely many, without which a sweep could fail every time.

### What the violations say

1. **`burn_tokenless`**: the filter of `claimBurnDownload` (`download.js:543`)
   accepts an empty `claimantToken`, and a client without a token writes the
   empty token back, so a second client wins the same update. README.md:80
   promises exactly one claim. With tokens the promise is proved.
2. **`grace_connected`**: a reconnecting claimant whose old socket's disconnect
   is handled after its new registration loses the transfer 15 seconds later
   (`socket.js:828`). When the disconnect is handled first the claimant is spared,
   which is proved (`SoleClaimantSpared`).
3. **`grace_purged`**: the grace timer marks the document and leaves objects and
   secrets (`socket.js:835`); no sweep selects a deleted document. The secrets stay in
   MongoDB. The objects stay as far as this code goes; a lifecycle rule of the R2
   bucket, which `cleanupService.js:9-20` asks for and the code does not set (line 205 warns
   when the operator has not declared it), would remove them after a day.
4. **`extend_announce`**: a lost extend race (`transfer.js:319`) or a restart
   (`server.js:454`) schedules an outdated expiry and `transfer-expired` is sent for
   a transfer that goes on.
5. **`upload_samename`**: two files of one name share an object key
   (`upload.js:253`), the metadata promises both.

Observations that no run is spent on: an abort caused by a later part leaves the
object of an earlier one, which the comment at `upload.js:535` denies; a text
written by code alone (`text.js:120`) may land in a deleted document of the same
code, where it stays (`CodeRegistry` has the step, `OnlyOwnTextIsShown` speaks of
live transfers); two logins in flight with one backup code are both accepted
(`admin.js:139`); `file.js:227` compares a password without counting; a second
first-load health request is answered with an error status (`server.js:371`).

## 4. Proofs

All theorems hold for every value of the constants that satisfies the ASSUMEs of
the module (`ConstantsAreSound` and its like: `"none"` is no token, profiles are
well-formed, limits and bounds are numbers, sets of requests that are counted
are finite); TLC evaluates them in the runs. Every safety property that a
passing run checks is the statement of a theorem. Where a run refutes a safety
property a theorem states its complement, the hypothesis under which it holds or
what is left of it: `ClaimedOnce` (tokens are sent), `SoleClaimantSpared` (one
socket at a time), `PrematureAnnouncement` (what a premature announcement is),
`PublishedStored` (names are distinct).

`BurnDownload_proofs`
- `TypeCorrect`: `TypeOK` is inductive by itself.
- `DeletedOnce`: `SingleCauseOfDeletion` is inductive with `TypeOK`, since every
  mark is written under `isDeleted: false`.
- `ClaimIsConsistent`, `ClaimedOnce`: `SingleClaim` alone is not inductive: a
  request about to claim holds a copy. `ClaimInv` adds that a token once seen
  in any copy is the document's token, that an owner is recorded with its
  token, and that whoever was let through carries it. Both theorems assume
  `TokensAreSent`, without which `burn_tokenless` refutes them.
- `RefinesClaimOnce`: initial states map to initial states and every step to a
  step of `ClaimOnce` or a stutter, under `ClaimInv`. A client may be served after
  the transfer is closed, as a stream goes on when burn-finalize runs. Of a preview
  the promise is weaker, because the code's is: it is served without a claim to
  anyone whose copy was read before the claim. `ClaimInv` ties every preview under way
  to what allowed it (`MayBeShown`).
- `FilesOutlive`, `NoOrphans`: from `FilesInv`, which says where a handler
  is when objects and document disagree. Both exempt faults: a failing R2
  delete is swallowed by the code.
- `DownloadsAreCounted`: `CountMatchesDownloads` is not inductive, because a copy
  decides whether a download is counted. `CountInv` adds that no copy is ahead of the
  document in sessions or count and that a stream about to be counted has not
  been counted yet. The cardinality steps are lemmas of their own (`CountGrows`,
  `OneMoreCounts`, `NothingCounted`).

`GracePeriod_proofs`
- `TimersAreConsistent`: `TimerInv` is inductive. It ties a timer's
  captured token to the document once the timer has found it, says that a
  tracked timer is pending, and, as long as the history `crowded` is false,
  that every pending timer is tracked and that no two sockets act for a token.
- `OnlyClaimantBurns`, `SoleClaimantSpared` are its parts; `TypeCorrect`.
- `StatusStands`: the action property `DeletedStatusStands`, from the type and a
  case split over every step on a deleted document.

`ExtendCountdown_proofs`
- `ExtendInvariant`: `TypeOK /\ ExtendInv` is inductive, neither part alone: that a
  computed expiry is one of the finitely many possible ones follows from
  the copy not having been extended, and that from `RequestInv`.
- `ExtendedOnce`, `NeverLate`, `CountedDown`, `TypeCorrect` are its consequences.
  `CountedDown` has two exceptions: an extension whose update threw, and a process
  whose restoration gave up.
- `PrematureAnnouncement`: an action property that says what the violation of
  `extend_announce` amounts to. Whenever a live transfer is newly announced as
  expired before its time, it had been extended and the announcement comes
  at its first expiry. `DatesInv` adds that every copy and every countdown carries
  the first expiry or the document's.

`UploadPipeline_proofs`
- `TypeCorrect`: `TypeOK` needs `TotalInv` beside it: the total of bytes stops at
  the chunk that breaks the limit only because that chunk aborts.
- `PipelineHolds`: `PipelineInv` is inductive. While the parse is unsettled
  nothing was aborted or lost and only the close handler resolves it (`SettleInv`);
  what breaks a limit rejects it for good (`LimitInv`); a verdict is true, and a bad
  one rejects the parse or is late (`VerdictInv`); the handler goes on only
  behind a resolved parse (`HandlerInv`).
- `PublishedWithinLimits`, `LateVerdictsOnly` are consequences of it.
- `PublishedStored`: from `StoredInv`, under `NamesAreDistinct`: with distinct names
  every key has one writer, and without it `upload_samename` refutes the property.

`Limits_proofs`
- `TwiceTheLimit`: `letThrough` is a running total per route and time, so that the
  requests between two times are a difference and not a sum over a history. `RateInv`
  bounds what was let through within one and within two window lengths, with an
  entry (`WindowOf`: the route's share of its count) and without (`FreshFor`).
- `LookupsBounded`: from `LookInv`. Without an entry few misses are recent
  (`NoEntryInv`); an entry counts those since its first, and its recent ones with the
  lookups still past the check keep within what one entry allows (`EntryInv`). The
  induction did not go through for a smaller bound, `2 * (MaxFailedLookups - 1)` and
  the lookups, and TLC has a counterexample to it with three lookups: requests
  in flight exceed the limit at both ends of a window. The bound that is stated is
  attained with two lookups and with three.
- `GuessesBounded`: a guess is let in below the limit and only guesses in flight
  can raise the counter after that.
- `FailuresBounded`: from `LockoutInv`. An entry past the day's limit has a number
  of lockouts behind it, each of which lasted its hour (`Lockouts`), and
  for each of them no more than the requests in flight failed (`Budget`).
- `EachRunsAlone`: a behaviour of `MCLimits` is one of each of its modules, as no
  step of one changes a variable of another; `LimitsTypeCorrect` and `LimitsHold`
  carry the bounds over to the composition, which is what the run checks.

`AdminLogin_proofs`
- `SpentStayMarked`, `OneSetup`: from `AdminInv`. A pending batch has not been
  installed, presented or spent (`Unused`), and settings that were loaded at
  the present version agree with the document on `enabled`, `secret` and on
  that (`LoadedInv`). A save of verify always overwrites an array, so it needs
  that version and then bumps it (`Bumped`), which outdates every other copy; a
  save of disable either does the same or changes a pending field only.

`CodeRegistry_proofs`
- `UncontestedIsWhole`, `OwnTextShown`: from `RegistryInv`, inductive with
  `RegistryTypeCorrect`. `CodeInv` and `ShareInv` give the order of a share's life.
  `ExclusiveInv` says that nobody else inserts, writes or deletes under the code of an
  uncontested share while that share does or is on record; from it follow that
  its object stays its own (`OwnObjectInv`) and that its insert is not
  rejected (`NotRejectedInv`).

`Services_proofs`
- `OldStatusGoes`: from `CacheInv`, which dates what readers and cache
  hold back to a read before the change and at most `Latency` before the fill.
- `ComputedOnce`: `OneComputation` is inductive with the type.
- `SenderIsKnown`: from `PresenceInv`: a sweep has a settled, connected sender among the
  ids it took, so what it finds stale is not that sender.
- `DatabaseOutlives` (`AcceptedAreAnswered`): MongoDB is closed, and the process ends
  cleanly, only when every accepted request is answered and no other can be accepted.
  From `LifeInv`, the order of the stages: nothing is accepted once the shutdown began,
  and nothing is left when MongoDB is closed. The force exit is exempt, since it
  is what cuts off an endless request. The type of that module says that the countdowns are restored at
  most once.
- `WorkedOnce`: from `PoolInv`: the cursor divides worked items from others, and
  a runner is done only when it has reached the end of the batch.
- `QueuedAreKept`: a queued visit has an armed timer and leaves the queue for a
  batch alone. It leaves of `VisitsAreAnnounced` only the fairness of the timer.
- `EachServiceRunsAlone`, `ServicesTypeCorrect`, `ServicesHold`: as in
  `Limits_proofs`, for `MCServices`. Those of its modules with fairness enter with
  the safety half of their specification.

**Only model-checked**: liveness (`ClaimedTransferIsReaped`,
`ExpiredTransferIsReaped`, `DeletedFilesAreRemoved`, `EveryUploadIsAnswered`,
`DeadSenderIsForgotten`, `VisitsAreAnnounced`). Fairness speaks of
ENABLED, which is out of the prover's reach.

## 5. Limits

- Cryptography, MIME sniffing, name sanitizing, zip format, ranges, wording,
  activity entries, telemetry and logs are left out; a good or dangerous file
  is a kind, a token is a value.
- One transfer per model. MongoDB updates are atomic and linearizable, as the
  server uses a single primary; R2 operations succeed, fail or are lost in a crash.
- `CountMatchesDownloads` states a bound, not equality: two concurrent downloads
  of one session each count, as the code decides on copies.
- `OnlyLateVerdictsSlip` allows what the code allows: a verdict that
  arrives after the parse is settled, when a cold validator meets a short body.
- `UncontestedShareIsWhole` and `OnlyOwnTextIsShown` exempt contested codes: the
  generator's view and the index differ by design until the cleanup has run, and
  a code drawn in that time may lose its insert after the sender was answered.
- `GuessesAreBounded`, `MissesAreBounded` and `FailuresPerDayAreBounded` include the
  requests in flight, since every check is on a copy.
- `FilesOutliveTheTransfer` and `NothingIsOrphaned` exempt faults, as a failing
  R2 delete is swallowed and a crash after the mark is not made up for; that
  an object can be orphaned that way is the code's behaviour, not covered by a run.
- `ImplementsClaimOnce` speaks of receivers. The sender's own previews are no part of it,
  nor are the text routes of `routes/file.js`: the metadata shows a snippet
  until it is claimed, `GET /:code/text` without asking for a claim.
- The guarantee of `SenderIsKnown` is for registrations that no sweep was running
  beside; `EachItemOnce` is about one pass, since `isCleanupRunning` keeps two passes
  of one process apart.
- That the process ends after the force timer is one statement (`server.js:602`) and
  no property.
- `OldStatusFades` is stated for a query that takes at most `Latency`; the code
  sets no such limit itself, the driver does (`socketTimeoutMS`, `config/db.js:53`).

### Not modelled

- Subnet matching and the listing of nearby transfers (`routes/nearby.js`), which
  compare strings of addresses; the switch of `nearbyVisible`.
- The aggregations of `services/adminAnalytics.js` and `routes/stats.js`, the
  listing, audit and export routes of the admin: queries and formatting.
- Tokens, TOTP, bcrypt, validators, headers, logging and metrics.
- `utils/cache.js`, the limiter that counts in Redis, Socket.IO rooms.
- The admin's force-expire against the reason of a deletion: it updates
  without `isDeleted: false`, so `SingleCauseOfDeletion` would not hold with it.

## 6. Plan

1. Admin force-expire in `BurnDownload`, with what still holds of the cause.
2. Pure functions as operators: ranges and the LRU cache.
