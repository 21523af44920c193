# Verification of the HotStock backend

HotStock's backend (`src/`) is a NestJS service over PostgreSQL (through
Prisma) and Redis: accounts and sessions, subscription plans, articles and
portfolios that a plan opens, a mail queue, and a rate limiter. This directory
holds TLA+ modules of the parts in which requests, time and failures meet, the
TLC configurations that check them on small instances, and proofs that TLAPS
checks for instances of any size.

Paths below are relative to `src/src/` in the repository.

## 1. The system

Every request is an asynchronous handler. Between two awaits of one handler
any other request may run, on the same server or on another one (the staging
stack runs two replicas), so the unit of atomicity is one statement, one
transaction, or one Redis command. Nothing else is shared: all state is in
PostgreSQL and Redis.

| component | state | operations | what is hard about it |
|---|---|---|---|
| Authentication sessions (`modules/auth/auth.service.ts`) | `User`, `RefreshToken` rows | login, register, refresh with rotation, reuse alarm, logout, changePassword, resetPassword | several refreshes with one token; a check (blocked, revoked) made before a slow hash and used after it; statements over many rows that miss uncommitted ones |
| Account administration (`modules/users/users.service.ts`) | `User`, `RefreshToken` rows | updateRole, blockUser, unblockUser, assignPlan, adminUpdateUser, deleteUser | races with the sessions above; decisions taken from a row read before the transaction; lock order |
| Password reset codes (`auth.service.ts`) | Redis `otp:<email>`, `otp_attempts:<email>` | forgotPassword, verifyOtp | two keys with two expiries, a limit checked before it is counted, requests that act for an older code |
| Reset tokens (`auth.service.ts`) | a JWT, Redis `blacklist:<jti>` | resetPassword | check and use far apart, times cut to seconds |
| Scheduled cleanup (`modules/jobs/cleanup.service.ts`) | rows past a date | three cron jobs | deletes rows that a request has just read |
| Articles (`modules/articles`) | `Article`, `ArticlePlan` rows, Redis `articles:*` | findAll, findBySlug by plan level, create, update, remove | a cache filled by reads and emptied by writes with no order between them; premium text must not reach a lower level's key |
| Cache invalidation (`common/interceptors/cache.interceptor.ts`) | Redis keys of a pattern | SCAN and UNLINK | not a snapshot; errors are only logged |
| Rate limiting (`common/throttler/redis-throttler-storage.ts`) | a counter and a block key per client and route | one Lua script | three times that end apart; boundaries |
| Portfolios (`modules/portfolios`) | `Portfolio` and its children, Redis `portfolio:*` | findLatestByPlan by plan level, create, update, remove | the plan is checked in one statement and the portfolio read in the next |
| Seed (`prisma/seed.ts`) | plans, their texts, the admin, a portfolio for each plan | main, statement by statement | may run beside the service, be cut short, and be started again; tells no cache |
| Plans (`modules/plans`) | `Plan`, `PlanFieldVisibility`, Redis `plans:active:*` | findAll, create, update, field visibility, remove | a removal counts users first; foreign keys null or refuse |
| Categories, tags (`modules/categories`, `modules/tags`) | their rows, Redis `categories:all:*` | lists and writes | rows found by slug and written by slug; a removal that counts first; a cached list with counts that articles change |
| Mail queue and audit log (`modules/queue`, `common/interceptors/audit-log.interceptor.ts`) | BullMQ jobs, Redis `email:sent:<job>`, `AuditLog` | send_otp, audit_log | delivery at least once, three attempts |
| Access control (`common/guards`, `modules/auth/strategies`) | none: role and plan are reloaded for every request | role, plan and optional guards | |
| Dashboard, site settings, contact form, health | a cached summary; settings rows; none; none | reads, one upsert per setting | figures counted without a common snapshot |
| Bootstrap and HTTP plumbing | none | start, stop, envelopes, errors, logging | |

Sessions and account administration share rows and are one module. The reset
code hands out the reset token, whose use changes a password and drops
sessions: three modules, each seeing the others as an environment that may act
at any time. Articles and portfolios use cache invalidation. Plans, categories,
tags and articles refer to one another by foreign keys and share a module.
Every request passes the limiter, the guards, a handler and the audit
interceptor, which adds jobs to the queue; that path and the queue are
composed in one module, in which the guards and the queue meet the accounts
that handlers change and delete. The limiter's storage shares nothing with the
rest.

### What makes each part correct

- Sessions: one login is one line of tokens, however often its tokens are
  presented; reuse is always noticed and never imagined; failing requests cost
  nobody a session; blocking and deleting end sessions; requests wait for each
  other in a circle only where one deletes the user or changes its address,
  and every request ends.
- Reset codes: as long as no command of a pipeline fails unnoticed, the number
  of guesses at a code is bounded and a code dies for its own reasons only; a
  consumed code is gone in any case.
- Reset tokens: a token that was honoured is refused from then on.
- Articles: the plans that were checked for an entry open it to its level, and
  they are those of its text or the entry is out of date; what is out of date
  has a reason and an end.
- Rate limiter: bursts are bounded, waits are honoured up to the second they
  are rounded to, blocks end.
- Portfolios: as articles; each list nested in a portfolio is of one update; a
  seed that ends has left what its file says of the plans that nobody else
  wrote, whatever was cut short before.
- Plans, categories, tags, articles as rows: slugs stay unique and references
  whole; nobody loses a plan, or an article, that a check had protected.
- Queue and audit: nothing is done twice without a fault; done means delivered;
  every job ends; what succeeded is accounted for and nothing else is.
- Access: an account changes only for a caller who has the role now, not when
  his token was made.

## 2. Modules

| module | stands for | proofs | instance |
|---|---|---|---|
| `Sessions` | refresh tokens and the accounts that own them | `SessionsProofs` | `MCSessions` |
| `Logins` | what `Sessions` promises of a login, abstractly | in `SessionsProofs` | |
| `Otp` | the code of a forgotten password | `OtpProofs` | `MCOtp` |
| `ResetToken` | the reset token and its blacklist | `ResetTokenProofs` | `MCResetToken` |
| `ArticleCache` | an article, its cached copies, reads and writes | `ArticleCacheProofs` | `MCArticleCache` |
| `CacheAside` | what a cache of this kind promises, abstractly | in `ArticleCacheProofs` and `CatalogProofs` | |
| `Throttler` | the limiter's script | `ThrottlerProofs` | `MCThrottler` |
| `Portfolios` | portfolios, their nested rows and cached copies | in `SeedProofs` | `MCPortfolios` |
| `Seed` | `prisma/seed.ts` beside `Portfolios` | `SeedProofs` | `MCPortfolios` |
| `Catalog` | categories, tags, plans, articles, as rows with slugs and foreign keys, and the cached lists | `CatalogProofs` | `MCCatalog` |
| `EmailQueue` | the queue's jobs and the slots that work them | `EmailQueueProofs` | `MCEmailQueue` |
| `Requests` | routes, limits, guards, handlers' effect on accounts, and the audit interceptor, over `EmailQueue` | in `EmailQueueProofs` | `MCRequests` |

In all of them `req[p]` is the request a process serves: `at` names the next
await, and the other fields are the local variables the handler keeps across
it. An action is what runs between two awaits. `Fail` ends a request at any
point (a rejected promise, a wrong password, a server that stops): open
transactions are rolled back, what was committed stays. Variables declared
under *History* are read by no action; only properties use them. Operators
with an underscore and a comment *Slip* are plausible mistakes in the operator
they precede; no specification uses them, they show that a property would
notice.

### Sessions

State: `account` (does the row exist, role, blocked), `row` (a token is free,
active, revoked or gone), `expired`, `owner`, the row locks of open
transactions, and the requests. PostgreSQL runs at its default, READ
COMMITTED: a statement sees what was committed when it starts, waits for
locked rows, and re-checks them. A statement over many rows is therefore two
actions, one that picks its rows and one that changes those that still match.

- `Login`, `Register`, `UserCreate`, `SaveRefreshToken`: the check, the slow
  hash between, and the insert, which the foreign key may refuse.
- `Refresh`, `Consume`, `Create`, `Recheck`: the lookup, the conditional
  `updateMany` that takes the row, the insert and commit, and the second look
  of a request that lost the race. `RejectRefreshTokenReuse` and
  `RevokeActiveRefreshTokens` are the alarm.
- `TxUpdate`, `TxDelete`, `Commit`: blockUser, changePassword, resetPassword
  and adminUpdateUser, one transaction each. `Update` and then the same
  deletion without a transaction is assignPlan; `Update` alone is updateRole and
  unblockUser. `DropTokens`, `DropRows`, `DropUser` are the statements of
  deleteUser: the deleteMany sees its rows, then takes and keeps their locks,
  and user.delete wants the user's row with the token rows still held.
- `HandleExpiredTokens`, `Purge`: the nightly job.

Locks. The handlers do not take them in one order. blockUser, changePassword,
resetPassword and adminUpdateUser hold the user's row and want the token rows;
deleteUser holds the token rows and wants the user's. An adminUpdateUser that
changes the address (`rekey`) takes the lock that a new token row of this user
has to wait for, and an exchange holds the token it consumed while it waits.
`Blockers` names whom a statement waits for, `Deadlocked` two that wait for
each other. PostgreSQL finds such a circle and rolls one of the two back with
an error, which is `Fail`; nothing in the code expects it or tries again.
`DeadlocksAreKnown` says there are no others.

Abstracted: passwords, addresses, JWT contents; the order in which one
statement locks its rows (it takes all at once, so two statements over the
same tokens do not meet halfway); articles and audit rows that deleteUser
touches; a caller's authorization is decided when its handler starts, as the
JWT strategy does.

History: `missed` names the tokens that a block may leave active, and is added
to where that happens: at an insert by a request that had passed its check
before the block, or made inside the blocking transaction, and at the commit of
an adminUpdateUser that blocks a user it had read as blocked already, when
another admin unblocked him in between.

`Logins` has one variable, what became of each login: none yet, open, over.
Mapping: a login is a chain of tokens, named by its first; it is open while
one of its tokens is active, over when it was opened and none is.

### Otp

One address. Keys carry their value and the time left in thirds of a second:
Redis' `TTL` rounds to the nearest second, and thirds are the coarsest unit
that is rounded both ways. Every await of forgotPassword and verifyOtp is an
action, and a pipeline is one await. Its commands may fail one by one: ioredis'
`exec()` does not reject then, and the code does not look at the errors, so
`lost` names the commands that failed and the request goes on. A GET that
failed reads as no code or no attempts, a TTL as none; an INCR leaves the
guess uncounted and the comparison takes place; a SET leaves the old key, and
the code is mailed all the same. A DEL, and a pipeline that has no result at
all, end the request (`Fail`). A user may submit any code that was mailed, or a
wrong one. Two codes with the same digits are not modelled.

History: `undisturbed` holds the codes that were issued while no verifyOtp had
something left to write, and about which no command has failed since. What
bounds guesses, and what keeps a code until it has a reason to go, holds for
these; for the others the code has nothing that would. `ConsumedIsGone` holds
for every code.

### ResetToken

Signing cuts the time to seconds, so a token may have less than its lifetime;
the blacklist entry gets `exp` less the time now, both in seconds.
`Begin` (verification and blacklist), `Reset` (the transaction), `Blacklist`.

### ArticleCache

One slug with its list page. `Get`, `Find`, `FindPlans`, `Set` are the steps
of a read: Prisma reads the article by one SELECT and its plans by the next, so
a write may come between the two (`LevelsOf` says what the second may find,
also when the article has left this slug meanwhile). `Commit` is what the writes' transactions leave, `Scan`, `Unlink`, `ScanEnds`
are clearCache. SCAN promises only keys that are there during the whole scan:
`todo` holds those, and a batch may or may not hold others. A version stands
for the text, `need` for the lowest level of the plans that were read for an
entry, and the history `own` for that of the plans it had when the text was
read. Entries that an old
release left with too much of the author are in the initial states, as the
code that cleans them on a hit expects. Changing a slug removes the article
from the old one. One lifetime stands for five and ten minutes.

`CacheAside` knows what each key shows now, the entries, and what was read and
may yet be stored: an entry is something its key once showed, or nothing.

### Throttler

The script is one action, with three outcomes: `Refuse` (a block is there),
`Admit`, `Block`. Times are PTTLs, -1 for no key: a key whose PTTL is 0 is
still there, since Redis expires it when the clock has passed its expiry. An
answer that is lost has counted all the same. Waits are told in whole seconds
(`HeaderSeconds`, rounded up), so a client may be let through up to a second
before the wait it was told is over; `told` is the longest such wait, in ticks.
`passed` holds the ages of the last
requests let through, the youngest first, each up to the window's length. In the one millisecond in which
block and counter both stand at 0 a request is counted, and blocked once more
when the burst before it had fitted into one millisecond; the properties speak
of the time from the next millisecond on, when both are gone. No route configures a block
duration, so it is the window's length; the module asks only that it is not
shorter.

### Portfolios and Seed

`plan` (is there, level, primary key), `folio` (a portfolio's plan, date,
version and the batches that each of its nested lists has: the rows one request
inserts into one list are one batch), `cache` and `req`. `FindPlan`,
`FindFolio`, `FindParts`, `FindLevel`, `Set` are the awaits of
findLatestByPlan: the level is compared with the plan's row of the first, the
portfolio comes from the second, each list that hangs on it and its plan from
further statements. A plan that was found may be gone by then, and another may
have its slug, under a new key (`Stands`).

An update's dto names the lists it replaces: each of stocks, information,
reasons and signals is optional, and may be empty (`Changes`). `Wipe`,
`Wiped`, list after list, and `Replace` are its transaction at READ COMMITTED:
a deleteMany sees the rows that are committed when it starts, and waits for
those that another transaction has deleted. Lists the dto leaves out keep the
rows of earlier requests, so a portfolio as a whole may show several updates;
that is what the dto asks for, and `PartsOfOneUpdate` is about each list.
`overlapped` holds the lists that two updates replaced at the same time.
`updates` numbers the updates as they begin. `Scan`, `Unlink`, `ScanEnds` are
clearCache again.

`Seed` adds the script: `UpsertPlan`, `FindVisibility`, `UpsertVisibility`,
`UpsertAdmin`, `FindPlanOfPortfolio`, `DeletePortfolios`, `CreatePortfolio`
are its statements, `Exit` its end anywhere, `Start` another run. `PlanSeeds`,
`PortfolioSeeds` and `VisibilitySeeds` are the file's tables; the order of
their plans is left open. Beside it the service serves requests, and its admins
insert plans, remove them and write their texts (`InsertPlan`, `DeletePlan`,
`WriteTexts`; their lookups are in `Catalog`). A plan that is removed between
two statements of the seed is skipped with a warning or, where the foreign key
refuses, ends it; `touched` holds the plans that the service has written, or
whose portfolios it has, since the seed wrote their row. Nothing of the seed is
told to Redis, so an entry may outlive what the seed changed; `missed` says so,
and `raised` the plans whose level changed.

### Catalog

Rows have a primary key and a slug. The handlers find a row by slug and act in
a later statement, on the id they found (`Count`, `Upsert`, `Wipe`) or on the
slug again (`Rename`, `Delete`): the two may be different rows by then. An
update of an article that comes with plans, and a removal, are transactions:
`Wipe` is the deleteMany with the pivot rows it sees, `Wiped` its end, once
nobody else has deleted one of them and not committed, and `Rename` or `Delete`
the second statement with the commit. `seen` holds the pivot rows until then:
the transaction itself sees them no more (`Pivots`), everybody else does.
`DeleteUser` is deleteUser as far as plans and articles are concerned. `Insert` and `Rename` are
refused by the unique index, `Restricted` is what the foreign keys refuse, and
`Delete` what they do else: a user's plan becomes null, a plan's texts go.
`ListFind`, `ListParts`, `ListSet` fill the two lists; a plan list is read in
two statements. Left out: names and other columns, sorting; locks other than
those of the pivot rows (an update or a removal takes its second statement and
the commit in one step, deleteUser all of its transaction); tokens and audit
rows of a user who is deleted.

The two lists implement `CacheAside`: the categories with the numbers of their
articles, the plans without their texts. The texts come from the second
statement (`ListParts`), so that plans and texts in one entry may never have
been together in the database. The same holds for a portfolio and its nested
rows, which is why `Portfolios` does not implement `CacheAside`; there
`StaleIsExplained` and `PartsOfOneUpdate` are all that can be said.

### EmailQueue and Requests

A slot takes a job and holds its lock; `Stall` is the lock that ran out, with
the slot still at work or not; `Die` the end of a process; `Error` anything
thrown; `Send` may throw although the mail has left. `Finish`, `Throw`, `Retry`
are BullMQ's: the outcome counts only for the slot that holds the lock. By
itself the queue gets its jobs from `Enqueue`, and `DeleteUser` takes the user
a row would name.

In `Requests` the services do both, except for the audit jobs that login,
logout, changePassword and resetPassword add themselves (`writeAuditLog`,
auth.service.ts): they go through the same queue, and what `EmailQueue`
promises holds for whatever jobs there are, but the properties of `Requests`
are about the jobs of the interceptor. `Routes` is the table of all controllers:
method, guard, roles, what the handler does to accounts or the queue, and the
limits of the three throttlers. `Arrive`, `Limit`, `Guards`, `Handle` (and its
variants), `Audit` are the way of a request. Routes that no step tells apart
are one `Sort`.

## 3. Runs

| run | instance | shows |
|---|---|---|
| `SessionsChains` | 3 requests, 1 user, 3 tokens, 1 expiry; login, refresh, logout, purge | `OneActivePerChain`, `AlarmReachesSuccessor`, `NoFalseAlarm`, `ExchangeKeepsSession`, and `EndedStaysEnded`: `Sessions` implements `Logins` |
| `SessionsAccounts` | 2 requests, an admin and a user who registers, 2 tokens; login, register, refresh, block, unblock, delete | `DeadlocksAreKnown`, `BlockEndsSessions`, `NoOrphanTokens`, `EveryRequestEnds` |
| `SessionsWrites` | 2 requests, 2 users, 1 token; login, password changes, role, plan, adminUpdateUser | `SessionInv`, the invariant of the proofs |
| `OtpGuesses` | 2 requests, 2 codes, 1 attempt, 2 seconds, 1 pipeline with failed commands | `GuessesBounded`, `CodeEndsForCause`, `ConsumedIsGone`, `OtpInv` |
| `ResetTokenHonoured` | 2 requests, 2 tokens of 2 seconds, 3 ticks a second | `HonouredIsRefused`, `ResetTokenInv` |
| `ArticleCache` | 2 requests, levels 0 and 1, 2 writes, entries of 2 ticks; readers of level 0 and of the list | `EntriesAreCovered`, `StaleIsExplained`, `StaleEntriesDie`, and `OnlyWhatWasRead`: `ArticleCache` implements `CacheAside` |
| `Throttler` | limit 3, window and block 4 ticks, 3 ticks a second | `BurstBound`, `WaitIsHonoured`, `AfreshAfterBlock`, `ThrottlerInv` |
| `Portfolios` | 2 requests, 1 plan of the file, 2 portfolios of 2 lists, 2 dates; 2 seeds, updates or writes of plans in any mixture | `EntriesAreCovered`, `StaleIsExplained`, `PartsOfOneUpdate`, `SeedConverges`, `SeedInv` |
| `PortfolioUpdates` | 2 updates of 1 portfolio, each of one list or of both | that `UpdateReplaces` does not hold (section 5) |
| `Catalog` | 3 requests, 2 at a time, deletions of users among them, 2 slugs, 2 articles, 2 plans, 1 category, 1 tag, 2 users | `CatalogInv`, `StaleIsExplained`, `RemovalSparesCounted`, `ProtectedIsRemovedByItsOwn`, and `OnlyWhatWasFound`: the lists implement `CacheAside` |
| `EmailQueue` | 2 slots, a job of each kind, 3 attempts, 3 faults | `RepeatsAreFaults`, `DoneIsDelivered`, `MarkedIsSpared`, `JobsEnd` |
| `Requests` | 2 requests over all sorts of routes, 2 users of any role, 1 slot, 2 attempts, 1 fault | `WritesAreAccounted`, `ChangesAreAuthorised` |

Why the bounds are enough to be of use. Every race of the sessions needs two
requests and at most one that undoes the first's work, and a chain of three
tokens has a first, a middle and a last. `SessionsWrites` needs no chain, only
one token that a login makes while the account changes. Two codes make an old
and a new one. Two writes make a read that was overtaken twice, and two ticks
an entry that can be stored again before it dies. A limit of three tells the
first hit, one in between and the last apart, and a second that does not divide
the window makes the rounding show. One failed pipeline is enough for what it
may do to a code, and the other requests go on. Of seeds, updates and writes of
plans there are two in any mixture (`MaxWork`): a seed that is cut short and one
that ends, two updates that overlap, a seed and a plan removed beside it. With
`MaxWork` 4 and one request the run finds no error either (624,382 states).
Two lists make one that is replaced and one that is left; two portfolios one
that is the latest and one that is not. For a slug to pass from one row to another while a request is between its
lookup and its write, two more requests are needed: three in all, two at a
time, and two rows. Two slots work one job at once after a lost lock, and three
faults are more than the two stalls that end a job. In `Requests` one demotes
or deletes the other between guards and handler.

Number of tokens, codes, versions, rows, requests, faults and expiries are the
bounds (`Tokens`, `MaxCodes`, `MaxVersions`, `MaxFolios`, `MaxUpdates`,
`MaxIds`, `MaxWork`, `MaxRows`, `MaxRequests`, `MaxFaults`, `MaxStalls`,
`MaxExpired`): an action
that would exceed one is not enabled, so where a run can use them up, it does
not look for deadlock (`CHECK_DEADLOCK FALSE`). In `SessionsWrites` the system
may stop because adminUpdateUser may block everybody, and in
`SessionsAccounts` because everybody may be blocked or deleted. Symmetry is
over requests, token rows, slugs and users where they are alike, and never
where liveness is checked. `BurstBound` and `GuessesBounded` are tight: with
one less, TLC finds a violation.

`SessionsAccounts` leaves adminUpdateUser out, which `SessionsWrites` has in all
its races: `SessionInv` contains what `BlockEndsSessions` rests on, and the
theorem `BlocksEndSessions` is about all operations at once. The circle of an
exchange and a change of address needs an exchange beside adminUpdateUser, which
no run has together; it is the theorem `DeadlocksAreFew`, checked beforehand on
an instance with both. `SessionsWrites` knows two roles: an editor is to the
sessions another role that is not admin, and `confirmed` stands for any dto
that drops them. The largest runs are `OtpGuesses` (3.1 million distinct states),
`SessionsWrites` (1.7), `Portfolios` (1.3) and `Catalog` (0.3), each within
three minutes.

Fairness. `Sessions` assumes strong fairness of the next step of each request:
PostgreSQL hands a lock to its waiters in their order, so a request that could
take it again and again takes it; a failure may still end it at any time, and
new requests need never arrive. Of two transactions that wait for each other
PostgreSQL ends one after its deadlock_timeout: that is weak fairness of `Fail`
for a pair that is `Deadlocked`. `ArticleCache` assumes weak fairness of the
next step of each request (promises are settled) and of the clock.
`EmailQueue` assumes weak fairness of each slot's work (a worker polls, and its
promises are settled), of the end of a delay (BullMQ's timers), and of the end
of a lock that no slot renews, which BullMQ's stalled check finds. No fairness
is assumed of arrivals, failures, or success.

## 4. Proofs

All for any number of processes, users, tokens, codes, levels, rows, jobs and
any lengths of time that satisfy the ASSUME of the module.

| theorem | says |
|---|---|
| `SessionInvariant` | `SessionInv`, from which `TypeCorrect`, `ChainsAreLines`, `AlarmIsEffective`, `AlarmIsJustified`, `BlocksEndSessions`, `UsersTakeTokensAlong`, `DeadlocksAreFew` |
| `RefreshKeepsSession` | the action property `ExchangeKeepsSession` |
| `EndedSessionsStayEnded` | `Sessions` implements `Logins` |
| `OtpInvariant` | `OtpInv`, from which `GuessesAreBounded`, `ConsumedCodesAreGone` and the action property of `CodesEndForCause` |
| `ResetTokenInvariant` | `ResetTokenInv`, from which `HonouredTokensAreRefused` |
| `ArticleCacheInvariant` | `ArticleCacheInv`, from which `PremiumStaysCovered`, `StaleEntriesAreExplained` |
| `CacheImplementsCacheAside` | `ArticleCache` implements `CacheAside` |
| `ThrottlerInvariant` | `ThrottlerInv`, from which `BurstsAreBounded`, `BlocksEnd` and `WaitsAreHonoured` |
| `SeedInvariant` | `SeedInv`, from which `PortfoliosStayCovered`, `PartsAreOfOneUpdate`, `SeedsConverge` |
| `StaleFoliosAreExplained` | `StaleIsExplained` of `Seed` beside `Portfolios` |
| `CatalogInvariant` | `CatalogInv`: slugs are unique, references hold |
| `CountedKeepTheirPlan`, `ProtectedAreKept` | the action properties `RemovalSparesCounted`, `ProtectedIsRemovedByItsOwn` |
| `StaleListsAreExplained` | `StaleIsExplained` of `Catalog` |
| `ListsImplementCacheAside` | the lists of `Catalog` implement `CacheAside` |
| `QueueInvariant` | `QueueInv` of `EmailQueueProofs`, from which `OnlyFaultsRepeat`, `DoneJobsAreDelivered` and the action property of `MarkedAreSpared` |
| `RequestsInvariant` | `RequestsInv` of `EmailQueueProofs`: `QueueInv` again, with the requests that fill the queue; from it `WritesLeaveTheirRow`, `OnlyWritesLeaveRows` and the action property of `OnlyTheAllowedChange` |

Arguments in short.

- Sessions. That a chain has one active token is not inductive. `LocksHeld`
  adds that an uncommitted exchange is the only holder of the row it
  consumed, which still reads as active, so its commit replaces one active
  token by another; `Lineage` adds that a parent is spent and of the same
  owner, so no new row enters a chain otherwise; `Remembers` adds what a
  request may still rely on of what it read. The alarm reaches the successor
  because a request raises it only after it saw the token revoked, which is
  after the commit that made the successor visible to its statement. Deleting
  a user commits only when the statement's rows are all the user has. A login
  never comes back because the only row added to a chain comes with the
  revocation of the active one before it, in one commit. `BlockInv` is
  a second invariant beside the one about tokens (`TokenInv`), and `SessionInv`
  is both. It follows a block: when the transaction is about to commit, every
  active token of the user is among the rows its statement picked or already
  in `missed`; a request that may still insert one for a blocked user is in
  `overtaken`; and an adminUpdateUser that blocks without dropping sessions has
  read the user as blocked, which he still is, or it is in `overtaken` too.
  That deadlocks are few (`DeadlocksAreFew`) is read off what a request may
  hold at each place: a user's row only behind `TxUpdate`, token rows only an
  exchange before its create and a deleteUser before its commit.
- Otp. A command that fails takes the code it is about out of `undisturbed`. A
  request that has something left to write for an undisturbed code has read
  that very code, and the counter never exceeds the comparisons made
  (`CodeInv`). For the bound (`GuessInv`, `WithinRun`): the counter and the
  requests that are past the limit but have not counted yet stay together
  within one run, which is the limit and one more for every other request. The
  counter is never given less time than the code has, but for the rounding of
  TTL, so it holds every comparison until the code's last tick. It lapses at
  most once, and the comparisons are those of two runs at most.
- Reset tokens. Both times are cut to seconds in the same direction, and the
  token's own expiry is a whole second: what is cut off the entry is cut off
  the token too.
- Article cache. A request about to store carries an entry whose plans its key
  covers; between its two SELECTs the plans are still those of its text, or a
  write has made the text an old one (`RequestIsSound`), so text and plans of
  different times are only ever stored as an entry that is out of date. A stale
  entry is either on the list of some scan, or a scan is yet to begin,
  or it is recorded as missed.
- Throttler. A counter over the limit has less time left than the block, and
  nobody was told of a second more than the block has left. For bursts (`BurstInv`):
  the requests that the running window has let through reach back to its
  beginning, and of those let through before it fewer than the limit are
  younger than a window's length. A window lets through no more than the limit,
  so that the next one finds the same room when it begins.
- Catalog. References hold because every write checks them in the statement
  that makes them and every removal is refused or sets null. That no counted
  user is hurt needs `CountedAreSpared`: between the count and the delete the
  plan's users are only those assigned since. Articles lose the pivot rows of
  one that was found only at a commit (`Wipes`). `AllowedIsOwn` ties the right to
  remove to the id that was found; when the slug has moved to another row, that
  row's own pivot rows are still there and refuse.
- Cached lists. A write that changes a list goes on to delete it before its
  request ends, or is recorded as one that did not; `OfItsKind` says which
  steps belong to which list, so that the deletion under way is that of the
  right one. For the refinement, what `ListFind` keeps in the request is what
  the list showed in that state, and nothing after it changes it but the texts,
  which the mapping leaves out.
- Queue. For a job that met no fault, the slot that works it is the one that
  holds its lock, there is one as long as the job is active, and what is to be
  done once is not done before that slot does it (`Unfaulted`). A slot that is
  about to send although the mark is there read the mark's absence before
  another slot set it, so two slots have shared the job.
- Requests. Requests are numbered, and a job bears the number of the request
  that adds it, so it is absent until then and added once (`Numbered`,
  `Accounted`). A job that met no fault fails only because its user is gone
  (`FailsForCause`). That only admins change accounts is read off the table of
  routes (`ChangingRoutes`) together with what the guards saw (`Authorised`).
  The queue's invariant is proved again as a part: the queue's steps are the
  same, and so are their lemmas, which is why one module holds both.
- Portfolios and seed. A request past the check has seen its plan at a level
  that opens it to the reader, and only a seed can change that level
  (`raised`); a plan that takes the slug later has a later key, and the request
  does not find its portfolios (`Checked`). An update that nobody overlapped in
  a list sees, and then holds, all the rows of that list there are (`SeesAll`),
  and primary keys are never used again, so a new portfolio starts without
  rows. `SeedProgress` says which part of the file a run is past, for the plans
  that are not in `touched`, wherever the runs before it were cut short. That a stale
  entry is explained is inductive beside `SeedInv`: every write of the service
  goes on to clear the keys it touched, and the seed's statements record theirs
  in `missed`.

Only model-checked: `EveryRequestEnds`, `StaleEntriesDie` and `JobsEnd`, which
are liveness under fairness and out of the prover's reach. `UpdateReplaces` is
refuted (section 5). Every other property of a run is a theorem.

## 5. Where code and text disagree

Checked (`PortfolioUpdates`): the deep review says that an update of a
portfolio completely replaces its nested rows in one ACID transaction. Of two
updates that overlap, neither deletes the rows the other is inserting, and the
portfolio is left with both. `PartsOfOneUpdate` says that nothing else mixes
rows in one list.

Two statements of the code are in the modules as definitions, with no run of
their own; TLC refutes both within seconds when they are added to `OtpGuesses`
and `ArticleCache`. `EveryAttemptIsCounted` of `Otp` is the comment on
incrementOtpAttempts ("Count every verification attempt"): an INCR that fails
within its pipeline is not noticed, and the guess is compared uncounted.
`TextIsCovered` of `ArticleCache` is the comment on the check in findBySlug
("check BEFORE caching to prevent premium content leak"): an update between
the two SELECTs that takes the plans away lets the old premium text be stored
for readers without a plan, until the entry is cleared or runs out.

Met while modelling, each a sequence of ordinary requests:

- A reused refresh token is answered with "All sessions revoked", but an
  exchange that commits while the revoking statement waits leaves its new
  token active.
- blockUser deletes tokens "to force logout", but a login that had passed its
  check creates one afterwards. The strategy refuses blocked users, so the
  token is of use only after unblockUser.
- The deep review says role changes drop all refresh tokens; updateRole keeps
  them (adminUpdateUser drops them).
- adminUpdateUser decides from a row read before its transaction, and may
  block a user, or change a role, without dropping sessions.
- assignPlan drops sessions in a second statement; when that fails, the plan
  has changed and the sessions stay.
- deleteUser locks tokens before the user; blockUser, changePassword,
  resetPassword and adminUpdateUser the user before tokens: two of them about
  one user may end with PostgreSQL's deadlock error for one, which is answered as an internal error. The same may happen to
  a refresh beside a change of the address.
- forgotPassword mails a code although its SET may have failed, and a GET that
  fails in verifyOtp deletes the counter of a code that is good.
- A refused client is told its wait in seconds rounded up, and may be let
  through within the last of them.
- A plan that is removed while the seed runs is skipped with a warning, and the
  seed ends as if all had gone well.
- Every list of a portfolio's update is optional, so lists of different updates
  stand side by side.
- The counter of reset attempts may expire up to half a second before its
  code.
- A reset token is used twice by two overlapping requests, or after a stop
  between commit and blacklist.
- Two admins may demote or block each other; the last one can disappear.
- A job whose mark cannot be stored after the mail has left is tried again and
  mails again. A deleted user's queued audit rows fail at the foreign key
  until their attempts are used up.
- Role and block are read once, before the handler: a demoted admin completes
  the write he is at.
- The removal of a plan goes by slug: another plan that took the slug
  meanwhile goes instead, and its users, whom nobody counted, lose it.
- An update of an article wipes the plans of the row it found and writes to
  the row that has the slug: one article loses its plans and another gets them.
  Two that overlap leave the plans of both, or fail at the pivot's primary key.
- The list of categories is cached with the number of their articles, which
  no write of an article invalidates. The list of plans is read in two
  statements and may be mixed.
- The promise of UNLINK in clearCache is not awaited.
- `@SkipThrottle()` without arguments skips only the throttler named
  `default`. `PlanGuard` is used by no route.

## 6. Not modelled

- Dashboard: counts read by parallel statements, without a common snapshot,
  and kept for a minute. It writes nothing else, and nothing is promised of how
  the counts relate.
- Site settings: a row per key, created on demand and upserted in one
  transaction; the last writer wins and no check precedes a write.
- Contact form, health: one mail, two pings; no state.
- Bootstrap, configuration, shutdown: run once, in order.
- HTTP plumbing, persistence adapters: envelopes, errors, log lines,
  validation of input, connections.
- Listings and details that are not cached read one snapshot and write
  nothing. Profiles: one update of one row, by its owner.
- Hashing, mail texts, the contents of tokens. handleExpiredOTPs clears columns
  that nothing writes; handleOldAuditLogs deletes by age.
- What the guard of @nestjs/throttler does with several named limits, and the
  dashboard of the queue, are theirs.

## 7. Plan

Done: everything above. What is left, by what it would show:

1. Abstract specifications of two more components: the queue as delivery at
   least once, and the limiter as a bound on what any stretch of time lets
   through, each shown to be implemented.
2. The article's and the portfolio's entries with the level they were read for,
   in one abstract specification of who may be shown what.
