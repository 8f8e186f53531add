# A TLA+ development of the python_admin API

python_admin is a FastAPI service: accounts, sessions, several ways to sign in
(password, one-time code, magic link, passkey, Google), a second factor, and an
administration API, over PostgreSQL (SQLAlchemy, asynchronous) and a cache
(Redis, or a dictionary in memory). This directory holds TLA+ modules for the
parts of it whose correctness depends on the order in which things happen, the
TLC configurations that check them on small instances, and TLAPS proofs of the
main results for every value of the constants.

## 1. Inventory

Paths are relative to `src/app`. "Hard" names what a test would hardly reach.

| Component | State | Operations | Hard | Correct means |
|---|---|---|---|---|
| Sessions (`services/session_service.py`, `core/deps.py`) | `user_sessions` and `users` rows; cache keys `auth:session:<token>` and `auth:user:<id>`, 300 s each | issue, validate (with sliding renewal), revoke, revoke all of a user, invalidate | every `await` of `validate_session` can be overtaken by a revocation; late cache writes; renewals of copies whose row has gone | a deleted session, or the session of an inactive user, stops being accepted, soon and for good |
| Login links (`services/login_link_service.py`) | `user_login_links` rows; cache keys `loginlink:trust:<id>`, `auth:tfa:<handle>` | create (sign-in, step-up), approval page, approve or reject, poll, claim, finish | unconditional update of the status by approve, reject and expire; conditional claim; polls repeat every few seconds | one verdict and one login per link; one login per challenge |
| One-time codes (`services/otp_service.py`) | `user_verifications` rows | issue, verify | delete and insert by overlapping issues; `attempts` read in one statement, written in another | a code works once, while it is the one code of its identifier, and guessing is bounded |
| Sign-in, registration, reset (`services/auth_service.py`) | `users`, `user_accounts` | login, register, verify, forgot, reset, change and set password, logout | check-then-insert of an address; login overlapping a password change | one account per address; a password change ends all sessions |
| Administration (`services/admin_service.py`, `api/routes/admin.py`) | `users`, `user_sessions`, content tables, settings | create, update, status, delete, revoke-all, logout by id, cache clear, content | which cache keys each handler forgets | the account's new state is what requests see |
| Challenges (`services/challenge_service.py`) | cache keys with an attempts counter | create, peek, consume, bump, destroy (TFA, WebAuthn; e-mail change has no caller) | consume is a read and a delete | a challenge ends with its first success, or after five failures |
| Two-factor (`services/tfa_service.py`) | `user_two_factors`, backup codes as one JSON column | enrol, verify, disable, remove, regenerate, three ways to log in | read-modify-write of the backup codes; the result of consume is ignored | a backup code works once; a destroyed challenge logs nobody in |
| Trusted devices (`services/device_service.py`) | `user_devices` | trust, ask, revoke | check-then-insert without a unique constraint | one row per user and device |
| Cache (`core/cache.py`) | Redis, `_mem`, `_mem_counters` | set, get, incr, delete, flush | `_redis_ok` is asked by every command, so the store changes between commands | a deleted key stays deleted; a window ends |
| Rate limits (`core/middleware.py`, some routes) | counters in the cache | count and refuse | INCR and EXPIRE are two commands | at most the limit per window, and a window ends |
| Settings (`services/setting_service.py`) | `settings` rows, key `setting:all`, 3600 s | read all, update, invalidate | a read filling the cache after an invalidation | an update is seen |
| Passkeys (`services/passkey_service.py`) | `user_passkeys` with a signature counter | register, list, delete, login | challenge consumed in two steps; counter written in either order | a challenge serves one ceremony |
| Google sign-in (`services/google_oauth_service.py`) | `user_accounts`, two module-level caches | authorise, callback, link | check-then-insert of the link | one account per Google identity |
| Content, listing, pagination | content tables | single-row create, update, delete; lists | page arithmetic at the edges | limits and offsets in range |
| Cookies, signatures, mail, validation, formatting, configuration | none of their own | | | |

How they interact. Every handler gets its own database session (`core/db.py`,
READ COMMITTED, `expire_on_commit=False`) and runs on one event loop, where it
yields at each `await`: at each statement, commit and cache command. All
sign-in paths end in `issue_session`; all authenticated routes begin with
`validate_session`. Password changes, status changes and deletions reach the
sessions through rows and cache keys, never through memory. Login links consume
the challenges that sign-in opens, and trust devices. Cache keys are written
and deleted apart from the rows they shadow, with no lock and no version. Row
updates go by primary key with no condition on the old value (the claim of a
login link is the exception), and raise `StaleDataError` when the row has gone;
deletes that match nothing are silent.

`PROJECT.json` lists the hazards line by line, each with the properties that
cover it or the reason why none does.

Two things about the schema matter throughout. The declared models put no unique
constraint on `users.email`, on the links of `user_accounts`, on `user_id` of
`user_two_factors`, on the device of `user_devices` or on `credential_id` of
`user_passkeys`, and the schema is migrated elsewhere, so the models let the
second row be inserted. And nearly every reader of these tables uses
`scalar_one_or_none`, which raises when it meets that second row: what a race
leaves behind is a failure of every later sign-in, not of the requests that
raced.

## 2. Modules

| Module | What it is |
|---|---|
| `Sessions` | session tokens, user status and their cache keys |
| `MCSessions`, `MCEnded`, `SessionsProofs` | instances of it, of which `MCEnded` adds an observer of what clients have been told; theorems |
| `LoginLinkPromise` | abstract: one verdict, one login per link |
| `LoginLink`, `MCLoginLink`, `LoginLinkProofs` | links, step-up challenges, the handlers, which implement the promise; instance; theorems |
| `Otp`, `MCOtp`, `OtpProofs` | one-time codes; instance; theorems |
| `Counting` | induction over the numbers, in the form the provers can use |
| `Handlers` | the pool of requests that the modules below share: start, step, finish, overlap |
| `TwoFactor` | enrolment, verification, renewal, removal, disabling, backup codes |
| `Challenge` | the sign-in with a second factor: challenge, attempts, answers, trusted devices |
| `MCSecondFactor`, `SecondFactorProofs` | instance of the two; theorems about each and about both |
| `Cache` | the commands of `core/cache.py` over Redis and the fallback of a process, with the faults of both |
| `Settings` | the settings, composed with `Cache` |
| `Limits` | the rate limiter, composed with `Cache` |
| `MCStore`, `StoreProofs` | instance of the two, with fairness; theorems about each and about both |
| `Accounts`, `AccountsProofs` | registration, creation, Google sign-in, passwords and the sessions that rest on them; theorems |
| `Passkeys` | WebAuthn ceremonies, credential rows, the signature counter |
| `Content` | the content tables' handlers, and every list, page by page |
| `MCRecords`, `RecordsProofs` | instance of the three; theorems about `Passkeys`, `Content` and all three |

Compositions: the observer of `MCEnded` over `Sessions`; `Settings` and `Limits`
extend `Cache` and take its faults as steps of their own; `LoginLink` contains the
part of `challenge_service` and `device_service` that it calls. In `MCSecondFactor`,
`MCStore` and `MCRecords` the components put together touch none of each other's
variables but the request pool. A step of one commutes with every step of
another, so a variable `part` lets each move while the others rest: their states
add up instead of multiplying, and each is seen in full, but for `TwoFactor`, which is
seen in two slices (section 7).

## 3. Conventions shared by the modules

* **Steps.** `req[r]` is what request `r` is doing: a program counter and the
  local copies it still needs. One action is one committed statement or one
  cache command, with the pure code up to the next `await`. A statement and its
  commit are one step where no other statement of the transaction separates
  them, since nobody else sees the row in between; `Otp` splits `issue_otp`, where
  the delete and the insert of one transaction take their snapshot and their
  time stamp before the commit. Reads that change nothing and are followed by
  nothing (the approval page, lists, a poll that answers `pending`) are left out.
* **A step that fails.** An exception ends the request with what it has
  committed: `StaleDataError` (`UpdateSession`, `WriteStatus`, `WriteDecision`,
  `WriteExpired`, `VerifyCount`), a foreign key (`InsertSession`, `InsertLink`,
  `IssueSession`, `CodeLogin`), a missing row (`RefreshSession`, `Reread`). An action
  named `...Abort` also ends a request anywhere, as any other error and a restart of
  the server do. A cache command that fails is swallowed by `core/cache.py` and the
  handler goes on: `SkipKey` in `Sessions`, the faults of `Cache`.
* **Cache.** In `Sessions`, `LoginLink`, `Challenge` and `Passkeys` one store with
  expiry; what becomes of it when Redis fails is `Cache`. With the in-memory driver a cache command
  does not actually yield, with Redis it does; the interleavings of the first
  are among those of the second, so the second is modelled.
* **History variables** record what happened; no guard of a handler reads one.
  They are `dead`, `since`, `excused` (Sessions); `approvals`, `rejections`, `claims`,
  `logins`, `spent`, `overlapped`, `crowd` (LoginLink); `guesses`, `wins`, `locked`,
  `overlapped`, `contested` (Otp); `shown`, `proven`, `used`, `reused`, `raced`
  (TwoFactor); `guesses`, `logins`, `burned`, `doubled`, `cut`, `twice`, `leftover`
  (Challenge); `since`, `excused`, `ended`, `answered` (Settings); `recent`, `faltered`,
  `emptied`, `unbounded` (Limits); `raced` and the field `excused` of a session
  (Accounts); `served`, `overlapped` (Passkeys); the walk's `true` and `shown`
  (Content).
* **Races named, not assumed away.** Many properties hold "unless two requests
  overlapped in such a way". The overlap is a history variable set at the step
  where it begins, the race itself is explored, and it is the only way out: a
  property says that nothing else in the code breaks what the handlers rely on.
  It does not rule the race out, and `PROJECT.json` lists such a race as a hazard
  that no property covers.
* **Mutants.** An operator whose comment begins with "Mutant" is a plausible bug
  in the definition after it. It is not part of a specification; substituted for
  that definition it must break a property, which shows that the property
  depends on the code.

## 4. Sessions

**State.** `stage`, `age` (row), `status` (user row), `sttl`, `sage` (session key and
the copy in it), `uttl`, `ustat` (user key and its copy), `req`.

**Time.** Nothing compares absolute times, only ages: `Tick` ages rows, copies and
requests and shortens the life of keys by one unit. `issue_session` and
`validate_session` always write `expires_at = updated_at + lifetime`, so the two
comparisons of `validate_session` (`expires_at < now`, `now - updated_at > 24 h`)
are comparisons of the age with `Life(t)` and `UpdateAge`. Clocks stop one past
the last value any comparison tells apart (`AgeCap`, `DeadCap`, `SinceCap`).
One consequence worth knowing: the lifetime of a session without the
remember flag is 24 hours, exactly `_UPDATE_AGE`, and expiry is tested first, so
such a session is never renewed; only remembered sessions slide.

**Requests.** `Span` is the longest time between the first and the last step of a
request. It is the only assumption about speed, and `Ttl + Span <= Day` (300 s
and a request against 24 hours) is what makes the results below true: were a
request able to sleep for a day with a copy of a session in hand, it could
renew that copy after any time.

**Tokens.** A token is `known` to a client once the request that issued it has
answered; before that only the server holds it. Any request may come with any
known token, also a revoked one. Tokens are not reused (`random_handle`).

**Who ends what.** `revoke_session` (logout, an expired copy) and logout by id
delete a row and drop its key. `revoke_user_sessions` (password change, reset)
lists tokens, deletes by user id, drops the keys listed, then the user key.
`account_revoke_all` and `delete_account` delete rows and drop only the user key.
The model keeps each of these as it is.

**Checked and proved.**

* `RevokedSessionsDie`: after its row is deleted, by whatever handler, a session
  is accepted for at most `2 * Ttl + 3 * Span - 2`. The argument, and the
  inductive invariant `RevokedInv`: a copy taken from the row can be written to
  the key at most `Span` after the deletion; the key lives `Ttl` from there; a
  request that reads the key in its last moment can write it once more only by
  renewing it, and for that the copy must be older than a day, which no copy
  becomes again within the time one renewal takes (`Ttl + Span <= Day`).
* `InactiveUsersAreRefused`: `Ttl + 2 * Span - 1` after a change of status nobody is
  accepted against it (`StatusInv`: same argument without renewal, because a hit
  on the user key does not write it).
* `OrphanKeysAreExplained`: a key outlives its row only if the handler does not
  delete it (`RevokeAll`, `DeleteAccount`, rows committed after they were listed), if
  the request ended between the commit and the deletion of the key (`Abort`), if the
  deletion did not reach the store and the error was swallowed (`SkipKey`), if
  another request held a copy at the wrong moment, or if its deletion is still
  owed (`KeyInv`). Each of these leaves a session accepted until its key expires;
  how long that is, `RevokedSessionsDie` says.
* `RevocationIsFinal` (TLC only): after a revocation there is a time from which
  neither the cache nor a request vouches for the session. Fairness: weak
  fairness of each request's next step, since the event loop runs whatever is
  ready and database and cache answer or fail, and of `Tick`, since time passes.
  Nothing is assumed of clients or administrators.

**Bounds.** Two requests: the races are between one writer of a key and one
deleter. `sessions_timing` has `Ttl = 2`, `Span = 1`, `Day = 3 = Ttl + Span`,
`Month = 5`, the tightest instance of the assumption, and one remembered token,
the kind that renews. `sessions_keys` has two tokens of one user, remembered and
not, for `revoke_user_sessions`, without delays inside requests. `sessions_final`
has the smallest lifetimes, without symmetry. What these sizes could hide is
covered by the proofs.

**Disagreements found.** `ended_logout` and `ended_revoke_all` check the same
property, that a request arriving after the end of its session was reported is
refused: the test says so of logout, the answer of revoke-all says so itself.
Both are violated: the first by a late cache write of an overlapping request,
the second by one client alone, since the session keys are not deleted. Each
run keeps to the handlers it is about so that its trace shows that cause.

## 5. Login links

**State.** `row` (status), `via` (`tfa_handle`), `lapsed`, `flag` (the trust key),
`challenge`, `user`, `trusted`, `req`. A link's id stands for the id with the two
tokens that go with it: a client without them gets nowhere. The check of the
user's status when a sign-in link is created is left out, which allows more
links than the code does; the code does not look at it again later.

The challenge of a step-up link is the one a code answers, so `verify_totp_login`,
`verify_otp_login` and `verify_backup_login` are here too, down to what they do to
the challenge: they look at it (`CodePeek`), compare the code, look again and delete
it (`CodeLook`, `CodeDelete`), and log in (`CodeLogin`) whatever the second look has
found, because the result of `consume_tfa_challenge` is not used. A poll, which does
use it, ends there. The attempts, the codes and the trust of a device by this way
are in `Challenge`.

**Properties.**

* `LoginsAreApproved`: `logins[l] <= approvals[l]`, whatever races. Inductive
  invariant `LinkInv`: claims plus a standing approval never exceed the
  approvals written, and sessions issued plus requests on their way to issue
  never exceed the claims.
* `VerdictIsFinal`: if no two decisions about the link were in flight together,
  it logs in once at most and never after a rejection.
* `ChallengeLoginsAreBounded`: the logins through a challenge, by links and by codes
  together, are no more than the requests that were answering it at one time
  (`crowd`), however many links name it and however often it is tried. For requests
  that come one after another that is one login; with a poll and a code that
  overlap it is two, and both happen. Inductive invariant `ChallengeInv`: the logins
  so far and the requests that can still log in are no more than `crowd`, and
  until the challenge is gone there was no login and nobody is past its deletion.
* `PromiseKept`: `LoginLink` restricted to decisions that do not overlap
  (`SerialSpec`) implements `LoginLinkPromise` under the mapping `phase <- Phase`, read off
  the history of decisions, since `expired` and `claimed` overwrite the status.

The exceptions are not decoration: `link_claims` shows that without them the
comment "only transition approved -> claimed once" is false, because
`respond_login_link` writes its verdict whatever the status has become.

**Bounds.** Two links, one challenge, two requests: two links are needed to name
one challenge twice, and two requests to answer it together. A behaviour may stop when all links are used, so deadlock
is not an error here. No fairness: a poll that never comes is the client's
choice, and the code promises nothing of its own.

## 6. One-time codes

**State.** `stored` (rows of one identifier), `attempts`, `lapsed`, `last` (the newest
`created_at`), `req`. Codes are numbered by `created_at`, the column `verify_otp`
orders by. A request that waits for a row another transaction has deleted
(`Free`) is the database's row lock; the delete of `issue_otp` sees the rows
committed when it started.

**Properties.** `CodeIsUsedOnce` (unless two requests were verifying the code
together), `OneCodeAtATime` (unless two issues overlapped), `NoEarlyLockout` (a
code is deleted as guessed too often only after `MaxAttempts` comparisons), and
`GuessesAreBounded`: every request in flight can set the counter back to what it
once read, so one code can be compared more often than `MaxAttempts`, fewer than
`Paths[<<MaxAttempts, requests>>]` times: the number of lattice paths, which one
request makes `MaxAttempts` and two requests with five attempts 20. TLC also
confirms the bound is reached. All four are proved (`CountInv`, `UseInv`, `AloneInv`,
`LedgerInv`; section 10).

**Bounds.** Two requests, two codes, three attempts instead of five (the constant
is `MaxAttempts`; the proofs hold for every value). `MaxCodes` bounds the codes
issued, so a behaviour may stop: deadlock is not an error.

## 7. The second factor

**TwoFactor.** One user's `user_two_factors` rows and `users.two_factor_enabled`.
Secrets and batches of backup codes are numbered as they are stored; a code is a
batch and a slot. Each handler reads "the" row, awaits, and writes back what it
computed from the copy: `create`, `rewrite` (setup), `prove` and `enable`
(verify_setup), `disable` and `erase`, `unverify`, `renew` and `tell`
(regenerate_backup_codes, which stores the codes, logs the activity and only then
answers), `spend`. An attribute whose new value equals the copy's is not written
(`VerifyEnable`, `DisableErase`), as SQLAlchemy does. `raced` names what two handlers
were about to write together: the set of rows, the list of codes, the secret, the
flag.

A request whose user is not in the cache loads the `User` in `validate_session`
(`Authenticate`), in the database session that its handler goes on with. The
session's identity map keeps that object, and `expire_on_commit` is off, so the
select of `disable` or `verify_setup` returns it with the flag of that moment
(`Selected`), however long ago that was.

* `OneRecord`, `FlagFollowsRecord`: otherwise a user could be asked for a second
  factor there is no record of, or locked out by two. Because of that copy, requests
  that enable or disable the factor overlap from the moment they are authenticated,
  not only from their own first read: a `disable` authenticated before the factor
  was enabled deletes the row and leaves the flag.
* `BackupCodeIsUsedOnce`: the whole list is written back, so this fails exactly when
  two writers of the list overlap.
* `ShownCodesWork`: the codes the user was last shown work, but for those used. If
  newer ones were stored and their answer was lost (an error of `log_activity`, a
  restart), the user holds codes of which none works: they must not go on working
  beside the new ones.
* `VerifiedSecretIsProven`: setup during verify_setup replaces the secret the code
  was checked with, and the row is then verified for a secret nobody has shown.

**Challenge.** The two cache keys of a challenge, the `user_devices` rows of one
device, and the steps of `verify_totp_login`, `verify_otp_login`,
`verify_backup_login` down to `issue_session`. Enrolment is abstracted to
`factor`, the four cases the sign-in tells apart.

* `GuessesAreFew`: wrong answers to one challenge stay below `MaxAttempts` plus the
  number of requests, since those past the peek are not stopped.
* `ChallengeLogsInOnce`, `LockoutIsFinal`: the result of `consume_tfa_challenge` is
  ignored, so both hold only of challenges that one request answers at a time.
* `DeviceHasOneRow`, `TrustEndsWithFactor`: the latter names what survives
  `disable`: a failure after its commit, an open challenge, a request under way.

**Bounds.** Two requests, two batches of two slots, one challenge, a limit of two
failures and four wrong answers followed: enough for a restarted enrolment, for two
writers of one list and for a count to pass its limit. `MCSecondFactor` explores
`TwoFactor` in two slices, to keep the run short. `"Codes"` leaves out `Authenticate`
and verification by mail, which concern the flag, and no step is guarded by that; and
removal, after which a row is as one that is still to be verified.
`"Enrolment"` has every step but the spending of backup codes, which changes the list
of codes only, and what is said of rows, secret and flag does not depend on that list.
The numbers are bounds of the run only, and `TwoFactorSpec`, about which the theorems
on each property are proved, has all steps together.

## 8. The store

**Cache.** Every command asks whether Redis answers and falls back to the
dictionaries of the process, also when the answer to the command itself was
lost. So there are two stores, and a command reaches one or both
(`Sources`, `Reached`). Faults: `Outage`, `Return` (with what it held), `Restart`
(empty), `Crash` of the process with its requests and memory. One value and one
counter are followed in each store. Time is a number of ticks; a tick passes
only between requests, as a request takes far less than a window or an hour.

**Settings.** The table, and the copy of all of it that readers go through.
`StaleCopyIsExplained`: a copy differs from the table only if it was read before a
save and put after it, or a delete did not reach its store, or will. 
`StalenessIsBounded`: in any order and under every fault a reader sees a save one
lifetime of the copy later. `AnsweredSaveStands`: a save that was answered is
undone only by one that had not ended when it began; of two first saves of a key
one fails on the unique key, after it has committed the keys before it.

**Limits.** The middleware and the routes that count for themselves, for one
client and path. `recent` remembers, for each counter, how many requests it has
admitted in each tick of the last window. `RateIsBounded`: in any stretch as long
as a window at most `2 * Limit` requests are admitted, and `4 * Limit` once the
fallback has counted, unless counters were emptied before their window ended.
`WindowsEnd` (liveness): a counter that has started ends, however often the
refused client asks again, unless the expiry of the Redis counter was lost: INCR
and EXPIRE are two commands, and only the first increment sets the expiry.
Fairness: requests in flight run on (weak fairness of each request's next
command, which the event loop runs once it is ready, with an answer or an error)
and time passes (weak fairness of `LimitsTick`). Nothing is assumed of arrivals,
faults or the return of Redis.

**Bounds** (`store`). Two requests, two keys of settings, two saves, lifetimes and
windows of two ticks, one admission per window, three arrivals a tick, counters
that stop at three, above every value they are compared with. Two ticks are the
least at which "before the window ended" and "in the window before" differ.

## 9. Records

**Accounts.** The users that have one address, their credential rows, the rows
that link Google's subject, and the sessions, each with the password it rests
on. `OneRowPerLookup`: a lookup meets two rows only if two requests overlapped
that had both found none. `OldPasswordsAreOut`: a session rests on a replaced
password only if the request that replaced it has still to revoke it or failed
after its commit, or if the sign-in had checked the password before. The flag
`email_verified`, which only opens a sign-in, is left out, and the code a reset or
a sign-in needs is `Otp`'s.

**Passkeys.** One authenticator and one credential; a signed response can be sent
more than once. `CeremonyIsServedOnce`, `OneRowPerCredential`: nothing but the
challenge keeps a registration from being stored twice, so both rest on the
challenge, which is read and deleted in two steps. `CounterNeverFallsBack`, an
action property: a stored counter falls only by a sign-in that compared itself
with an earlier value.

**Content.** The handlers of blogs, pages, seos and email templates, of whose rows
only the place in the sorted list is followed, and `paginate`, which serves every
list: limit, offset, count, page, in two queries. `WalkShowsEachOnce` compares it
with what a list is for: leafing through one that nobody changes, by page or by
offset and with any limit, shows each row once and counts what it shows. Only
when no two rows are equal in the sorted column: each page is a query of its own,
and the order of equal rows is the database's choice each time, which is why the
property names that condition.

**Bounds** (`records`). Two requests; two users and three passwords, enough for two
rows of each kind and a password replaced twice; three ceremonies and two
credential rows, for a registration sent twice and a sign-in with either
counter; three rows and ranks with pages of at most two, so a last page may be
full, short or the only one.

Behaviours may stop in `second_factor` and `records`, where the bounded
supplies (batches, users, rows) run out with nothing in flight, so deadlock is
not an error there; nor in `store`, where it cannot happen before the arrivals
of a tick are used up, and then time passes.

## 10. Proofs

Each `*Proofs` module proves a typing theorem first (with what later steps need of
the types: which requests hold a token, which user a request works for), then
one inductive invariant per result or per group of results. A step lemma per
action, or per group of actions that leave the variables of the invariant alone,
combines into the invariant; the property follows from it.

| Module | Invariant | What it adds to the property |
|---|---|---|
| `SessionsProofs` | `KeyInv`, `RevokedInv`, `StatusInv` | what each pending request can still write to a key, and for how long (section 4) |
| `LoginLinkProofs` | `LinkInv`, `ChallengeInv` | claims and requests on their way are counted against approvals, logins and answers on their way against the crowd (section 5) |
| `OtpProofs` | `CountInv` | what a request has read of the counter is not more than was compared |
| | `UseInv`, `AloneInv` | a code about to be inserted is used by nobody; the only issue in flight has seen every row |
| | `LedgerInv` | each comparison is charged to one of the last attempts, within what the requests past it allow (below) |
| `SecondFactorProofs` | `AloneInv` | what is not in `raced` has one writer at a time; the invariants of `TwoFactor` rest on it |
| | `RowsInv` | a row is inserted only where there is none |
| | `FlagInv` | while it is the only writer since its authentication, what a handler has read of flag and rows is still so |
| | `CodesInv` | no code is in two rows, none that is left was used, a spender's list is the row's |
| | `NewestInv` | a row holds the newest batch but for what was used, shown or not |
| | `SecretInv` | a secret about to be replaced is not verified, one about to be verified is the one read |
| | `DeviceInv`, `OffInv` | who is about to insert or to revoke when there is a row |
| | `KeyInv` | a challenge is gone by the time a right answer is acted upon |
| | `OnceInv` | a challenge not in `doubled` has one request, and none after its login or its destruction |
| | `GuessInv` | wrong answers are those counted plus those about to be; while the challenge lives the count passes the limit only by the requests about to destroy it |
| `AccountsProofs` | `RowsInv` | what a request found missing is still missing, unless requests raced |
| `RecordsProofs` | `HeldInv`, `ServedInv` | who holds a response, and that its challenge is gone before it is acted upon |
| | `RowInv`, `FreshInv` | the row came from the one registration; a counter about to be written is fresh against the one read |
| | `WalkInv` | the pages so far were full, and the walk has shown exactly the rows placed before its offset |
| `StoreProofs` | `AgeInv` | a copy that misses a save has a tick less to live for every tick since; one about to be put misses none of an earlier tick |
| | `SaveInv` | a save in flight has a number of its own and has not ended; nothing it has stored so far is by a save that ended before it |
| | `CountInv` | a counter stands at 0 exactly when it has no time to live |
| | `RateInv` | the admissions of the last window split at the age of the counter's present window: those after it, with the requests counted and not yet answered, are at most what was counted and the limit, those before it at most the limit |
| | `FallbackInv` | before the fallback has counted nothing is admitted on its counter |

`OldPasswordsAreOut` and `StaleCopyIsExplained` are inductive with the types and
invariants above.

**The parts and the whole.** Each component is proved under its own specification
(`TwoFactorSpec`, `ChallengeSpec`, `SettingsSpec`, `LimitsSpec`, `AccountsSpec`,
`PasskeysSpec`, `ContentSpec`), and then the instances the runs check
(`SecondFactorSpec`, `StoreSpec`, `RecordsSpec`) are proved to have the properties of
all their parts. `SecondFactorInv`, `StoreInv` and `RecordsInv` say it: the part that
moves has its invariants, the others are as they began, and what the parts that
rest promise is about variables that rest. So every invariant a run checks is
also a theorem about the specification of that run.

**Counting comparisons.** `GuessesAreBounded` is about a counter that can fall. Take
the attempts one at a time, from the last one left (`v = 1`) to the first
(`v = MaxAttempts`). A request is past attempt `v` if neither the counter nor a copy
it holds would let it write a value that leaves `v` attempts (`Past`). `LedgerInv`
charges the comparisons to attempts, to attempt `v` at most `Ways(v, k)` when `k`
requests are past it. A comparison by a request with `h` attempts left puts it past
attempt `h`; it may put the counter back, so that nobody is past the attempts
below `h` any more. That is paid for: what was charged below `h` was less than
`Paths[<<h - 1, k>>]` (`LedgerBound`), and `Ways(h, k + 1)` exceeds `Ways(h, k)` by that
number, so all of it and the comparison itself can be charged to `h`
(`LedgerCounts`). With every request past every attempt the ledger adds up to
`Paths` less 1. `LedgerInv` is not implied by the counter: it is what remembers how
the counter got to its value.

**Recursive functions.** `Paths` and the sums of `Limits` (`Totals`) are recursive
functions. Two steps make them usable: that the equation has a solution (`PathsTable` builds it row by row), and induction over the
numbers. The library's induction theorems are about operators, which the provers
cannot instantiate; `AllNumbers` in `Counting` says the same of a set of
numbers, from the well-foundedness of `<`, and each induction names its set.

Assumptions: `TimingAssumption`, `OwnerAssumption`, `NoneAssumption` (Sessions);
`NoneAssumption` and `FinitenessAssumption` (LoginLink: finitely many requests,
because the invariants count them); `AttemptsAssumption` and `FinitenessAssumption`
(Otp); `BatchesAssumption` (TwoFactor); `AttemptsAssumption` and
`RequestsAssumption` (Challenge: again to count requests); `PasskeysAssumption`;
`AccountsAssumption`; `ContentAssumption`; `CacheAssumption` and `SettingsAssumption`;
`LimitAssumption` and `FinitePool` (Limits: the counted requests are finitely many,
and a counter does not stop before it passes the limit). TLC evaluates them on
every run.

Only model-checked: `RevocationIsFinal` and `WindowsEnd`, since liveness is out of
the prover's reach, and the three runs that expect a violation, whose traces
are the result.

## 11. Not modelled

Cryptography, signatures and encryption, of cookies, passwords, settings and
codes; mail; parsing, validation and formatting, among them the types of
settings; the provider's side of Google sign-in, with the exchange before
`process_google_login` and its two read-only caches of the provider's keys; the
authenticator's side of passkeys but for what it signs; the flag
`email_verified`; the fields of profiles and content; filters and search in
lists, the dashboard and the sitemap, which only read; activities, written
beside other work and read by a list; the e-mail change challenge, which no
route uses.
