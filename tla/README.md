# MuminMate: TLA+ models and proofs

MuminMate (`src/`) is a Django application for consumer accounts: signup with a
confirmed email, invites, password reset, throttled logins, sessions, mail sent
by a Celery worker, and an audit of every request in a second database. This
directory models its own logic in TLA+, checks the models with TLC on small
instances and proves the most important invariants with TLAPS for all instances.

## The system

Several web replicas (threads in each) and Celery workers share one Postgres
(`default`), a second Postgres for the audit (`log`), and RabbitMQ. There is no
`ATOMIC_REQUESTS`: outside the few `transaction.atomic()` blocks every statement
commits on its own under READ COMMITTED. So a handler that reads, decides and
writes is interleaved with every other handler at each statement.

| Component | State | Operations | Interacts with | Hard part |
|---|---|---|---|---|
| Throttle events (`users/services/request_limit_service.py`, `login_failure_service.py`, `limits.py`, `backends.py`) | rows of `throttle_events` | `record_*`, `record_attempt`, `clear_attempt`, `clear`, `delete_expired` | logins, resets, signups, links; the cleanup job | count-with-self under parallelism, stalls between clock reading and INSERT, cleanup races, crashes |
| Accounts and links (`users/models.py`, `tokens.py`, `services/*`, `views/*`, `admin.py`) | rows of `users`; links are signed snapshots of a row | signup, verify, invite, reset, login, admin edits | throttle, mail tasks, sessions | full-row saves of stale snapshots, check-then-update, single use of links |
| Mail tasks (`users/tasks.py`, `services/email_service.py`, `config/celery.py`) | messages in RabbitMQ, what each worker holds | publish on commit, deliver, read the account, send, retry, refuse, acknowledge | accounts, throttle | at-least-once delivery, lost confirmations and connections, killed workers, retries that end, mails that are lost for good |
| Sessions and access (`users/middleware.py`, `signals.py`, `views/authentication_views.py`) | Django's session table, the copy each request holds | load, authenticate, log in, log out, save | accounts | parallel requests that save copies of one session, logins and password changes in between |
| Request audit (`audit/`) | the pause of a process's queue service, the audit queue, rows of the `log` database | build, offer, publish, drop, take, insert, retry, delete | sessions (who acted), masking | best-effort publishing, messages acknowledged before the work, rows held back, what must not be in a row |
| Masking and log processors (`core/masking.py`, `core/log_processors.py`, `core/url_tokens.py`) | none | pure functions of bodies, queries, URLs and log lines | audit, logging | secrets at any depth, link tokens with and without their slash |
| Configuration (`config/env.py`, `config/settings.py`), router (`config/db_router.py`), health, deployment | none | validation and declarations | all | the numbers the rest relies on |

Correctness, per component:

* Throttle: no window holds more requests than its limit however they overlap;
  cooldown and backoff space them; waiting works; one success forgives only its pair.
* Accounts: a link works once and only for the state it was made for; a verified
  email was proved by its owner; a stale save undoes no more than is stated (see below).
* Mail: the broker's last copy of a mail goes only with an attempt that ended; retries
  and redeliveries stop; an account whose mail was lost can still get its link.
* Sessions: no session outlives its absolute age, its password or its end, whatever
  copies parallel requests save, and a login restarts the age.
* Audit: every row that is due is stored, under way, or lost where the code gives up;
  a row is there once, but for answers lost after the deed; a RESPONSE row comes after its REQUEST row; no secret is in a row and no
  row is one that Postgres refuses.

## Modules

| Module | Models | State |
|---|---|---|
| `SlidingWindow` | abstract: what one throttle rule promises per key (at most `MaxEvents` grants in a window, `Cooldown` between two, a success may reset a key) | `granted` |
| `ThrottleEvents` | the `throttle_events` table, the clock, and the three statements every user of it shares: build the row, INSERT, DELETE of a refused row; the domain of `settings.THROTTLE_LIMITS` | `now`, `event`, `stored`, `phase` |
| `RequestLimits` (extends `ThrottleEvents`) | password reset, signup and verification mail: INSERT, count by email, count by IP, refuse; the cleanup job | plus `limited` |
| `LoginThrottle` (extends `ThrottleEvents`) | `ThrottledModelBackend.authenticate`: INSERT, one aggregate count, password hash, clear on success; clearing by a completed reset or invite; the cleanup job | plus the history `cleared` |
| `Accounts` | rows of `users`, links as signed snapshots, web requests between reading and writing a row, the worker's check before it mails, the admin's forms | `users`, `created`, `stamp`, `queue`, `inbox`, `inflight`; histories `used`, `crossed`, `byStaff`, `putBack` |
| `MailTasks` | the mail tasks and their way: publish after commit, delivery, the worker's read, send, retry, acknowledgement; faults of broker, servers and workers | `qualifies`, `limited`, `queue`, `attempt`, `held`, `received`, `calm` |
| `Sessions` | `SessionTimeoutMiddleware` and the login signal over Django's database sessions | `now`, `account`, `row`, `issued`, `request`; histories `login`, `restart`, `ended` |
| `Audit` | the two rows of every request from `AuditMiddleware` to the `log` database | `now`, `paused_until`, `request`, `queue`, `task`, `rows`; histories `failed`, `settled`, `doubts` |
| `AuditRows` | pure: what a row and a log line show of a request | `built`, the part under inspection |
| `ActingUser` | one request's user, from its session through the timeout and the view to its RESPONSE row | `stage`, `user`, `remembered`, `user_id`; history `last` |
| `MCRequestLimits`, `MCLoginThrottle`, `MCAccounts`, `MCMailTasks`, `MCSessions`, `MCAudit` | the instances TLC checks; `MCAudit` puts `Audit`, `AuditRows` and `ActingUser` into one run | |
| `RequestLimitsProofs`, `LoginThrottleProofs`, `AccountsProofs`, `MailTasksProofs`, `SessionsProofs`, `AuditProofs` | type correctness and the safety theorems; the first two also that the throttles implement `SlidingWindow`; the last about `Audit`, `AuditRows` and `ActingUser` | |
| `SlidingWindowProofs` | what an implementation of `SlidingWindow` may rely on | |
| `LevelRecursion` | no part of the system: recursion by depth, with the theorems that make it usable in proofs | |

How they fit together: `RequestLimits` and `LoginThrottle` share the table of
`ThrottleEvents` and differ in how they count it; `SlidingWindow` is what both
promise. `Accounts` has what a page or a worker decides about an account, one row at
a time; `MailTasks` has the same mails seen from the queue, where an account is
only whether it still `qualifies` and its throttle whether it is `limited`. `Sessions`
sees an account as its password's version and whether it is active.

### Throttle: state, actions and code

`event[r]` is the row a call of `record_*` or `record_attempt` builds in its
process, `stored` the rows the table holds, `phase[r]` the statement the call is
at. `Create` reads the clock (`created_at` has `default=timezone.now`, so before
the INSERT), `Insert` is the INSERT, `CountEmail` and `CountIP` (or `Count`) are the
counting queries, `Refuse` the DELETE of the own row, and `DeleteExpired` one run of
`deleteexpiredthrottleevents`. Each is one autocommitted statement, and other
requests and the clock come between any two. `Crash` is a process that dies before
it has counted, which leaves its row; dying elsewhere is taking no more steps.

`Stall` is the longest time from reading the clock to the last count of one
request. The code has no such bound of its own; the model needs one because a
request that sleeps through a whole window is compared with nothing. The named
assumption `StallAssumption` says it is shorter than the windows (seconds against
minutes). It is also what the cleanup costs: it deletes by a clock reading that is
up to `Stall` later than that of a request in flight, so the caps are stated for
`Sure(window) == window - Stall`. The run `cleanup_race` shows that the whole window
does not hold. The digest of an email is taken to be injective.

### Accounts: state, actions and code

A row has the fields that decide anything: address, `is_active`, `is_staff`,
whether it is verified, the password and the last login (stamps, all
different, in the order they are made) and whether the password is usable. A token
is what its generator signs: the row with all other fields blanked
(`VerifyToken`, `ResetToken`, `InviteToken`), and `Accepts` compares it with the
row as it is now. Handlers that read a row and write it in a later
statement are two actions: `LoginRead`/`LoginCommit`, `OpenLink`/`CommitVerify` or
`CommitPassword`, `AdminRead`/`AdminChange`, `AdminSetPassword` or
`AdminDisablePassword`; `inflight[r]` holds the row as it was read. What the write
covers is what the code writes: one column for a login and for a confirmation, the
whole row for password pages and the admin (`Saves`, which also inserts a row that
is gone, as `Model.save` does). `SendMail` is a run of a mail task; a task stays in
`queue` because delivery is at least once, and a lost task is one nobody runs.

The code takes no lock, and the model has none: staff may open a form, and save it,
around anything else, another form of theirs included. So the properties say what holds
with all stale saves in play, and by which of them it does not: `crossed` has the addresses that a
confirm page confirmed although it had checked a link to another one, `putBack` the passwords that a form
of staff's brought back. Three promises of the program's README fail (`verify_race`, `stale_save`,
`unproved_confirmed`). The abstraction leaves out: deadlines of links (any link
may be used at any later time, which allows more than the code), the throttles (a
mail may always be asked for, likewise), `is_superuser`, groups,
`createsuperuser` and `changepassword`, and that a token signs the last login
in whole seconds.

### Mail tasks: state, actions and code

A mailing is a kind of mail to an account, which is all a task carries (its
argument is the account's id). `Enroll` and `Ask` are the pages: they commit, then
publish, and a failed publish is logged and forgotten. `Deliver` hands a message to a
worker, which the broker keeps in `held` until `Ack` (`acks_late`). `ReadAccount` is the
task's read of the account and the making of the link, `Send` the SMTP
conversation. `Stored` is how often the broker has the message of a publish, of a page's or a retry's, once it is given up or
confirmed: never, once, or twice when the first confirmation was lost (`CELERY_TASK_PUBLISH_RETRY_POLICY`
tries twice). `FailTemporarily` is `autoretry_for` (connection errors, transient
SMTP answers, the soft time limit), `RefusePermanently` a refusal the service logs and
swallows, `Fail` every other exception and the hard time limit. `PublishRetry` is
`Task.retry`: a new message with a delay before the old one is acknowledged. `Kill` and
`LoseConnection` requeue what is held (`CELERY_TASK_REJECT_ON_WORKER_LOST`), up to the
delivery limit of the quorum queue, `Cancel` is Celery cancelling a task whose connection
went. `Withdraw` is everything that makes a link useless while it is on its way. Celery
and RabbitMQ are modelled from how `config/settings.py` sets them; those definitions
are marked external in `PROJECT.json`. All tries of one publish are one step, and so
are delivery and what Celery does before it starts the task.

### Sessions: state, actions and code

A request is four steps: `Begin` loads its own copy of the session row,
`Authenticate` compares the hash with the account as it is then and the login time with
the clock, `Verify`/`Login`, `Logout` or `ChangePassword` may follow, and `Finish` saves the copy
(`SESSION_SAVE_EVERY_REQUEST`) or, after a server error, does not. Everything else comes between any
two of them. `HashMatches`, `Flush`, `CanSave`, the key that stays when the same
account logs in again and `update_session_auth_hash` of the admin's password pages (`ChangePassword`: a new key, and the own
session signed anew) are Django's, marked external; `SetPassword` is any other change of a password; `TimedOut`, `LoggedIn` and `Expiry` are the
program's. The login time in a session is a copy that parallel requests carry around, so the histories
`login` and `restart` remember what really happened. `Legacy` are the keys that may be of sessions from before the
login time was kept. Two things follow from the
model and are stated as they are: `RestartHonoured` excludes logins that another request
of the same session overlapped (that request saves its older copy over the new
login time, and the session ends early, which is the safe side), and a deactivated account's
session is not flushed: it serves nobody meanwhile, and works again when the account does.

### Audit: state, actions and code

`Arrive` builds the REQUEST row (held back when a clean hit of a probe or a static
file would make it noise), `Respond` the RESPONSE row. Either may fail: query and body are read for the one
(too many fields, a broken upload: `ArriveUnread`), the user for the other (`RespondUnbuilt`); the error leaves the middleware, and the
request has no row, or only its REQUEST row. `Drop` and `StartPublish` are the
two ways out of `queue_incoming_event`, `Confirm` and `Fail` the ends of a publish, which
takes seconds while other requests of the process go on; `Fail` pauses them all. `Take`
acknowledges before the task runs (`acks_late` is off for it), `Write`, `LogRefuses`, `Retry`,
`GiveUp` and `WorkerDies` are what can happen to the INSERT, and `DeleteExpired` is a batch of the
cleanup. `settled` remembers which rows were inserted or given up, `doubts` counts answers that were lost after the deed was done. The abstraction
leaves out the ages of rows (any row of a finished request may be old), the delivery
limit of the audit queue (which can only drop a message that was delivered already), and two requests that
fail within one tick of the clock storing their pauses in the other order. A row that is held back when its
process dies in the view is never due: the code loses it, and so does the model.

`AuditRows` takes documents as trees of maps, lists and texts. A key is its name, the
sequence of words that the code's normalising leaves (so whether it finds the words of every spelling is not checked), and what is in it besides: a
NUL, a lone surrogate, or nothing odd. A map is the sequence of its items. The functions of the code that walk documents (`DataMasker.mask`,
`_without_nul`) call themselves on children. The model defines them by depth: `MaskUp` is the body of the
code's function, with the walk of less deep documents for its calls of itself, and the instance `Masking` of
`LevelRecursion` repeats it; `Docs(n)` are the documents whose walk takes at most `n` nested calls. That is not a bound
of the model: Python has one, and `GetBody` describes JSON that is deeper (`RecursionError`), as
`tests/audit/test_incoming_event_builder.py:150` checks. One `MaxDepth` stands for the limits of the
JSON parser and of the masker.
`Mask`, `GetBody`, `StoredBody`, `StoredFields`, `StoredUrl`, `MaskQuery` and `LoggedLine` are the code's functions; its
actions apply each of them to an input: JSON documents of any depth, forms, parameters and headers, URLs, queries and fields, which are constants.
A path is the sequence of the words between its slashes, and a header's URL is one with a `rest` that may hold the token again.
`FindUrlToken` resolves a path as it stands and with a slash added (`find_url_token`), `MaskUrlToken` replaces what
was found wherever it is a word of the URL; a token that is part of a longer word is below the model's grain.
A log line without a path has no URL to find a token in, in the code and in the model.

`ActingUser` follows `request.user` through one request in the order of `MIDDLEWARE`: `Load` is Django's
`AuthenticationMiddleware`, `ApplyTimeout` the program's `SessionTimeoutMiddleware`, `View` a login or logout page or
any other, and `BuildResponse` is `_get_user_id` in the audit middleware around them, which
may come after any of them when one refuses the request or fails. `LogOut` is Django's `logout` with the
program's receiver `remember_logged_out_user`, which ignores the logout of an anonymous request.

## Runs

| Run | Module, cfg | Expected | Distinct states | Question |
|---|---|---|---|---|
| `request_limits` | `MCRequestLimits`, `MCRequestLimits.cfg` | pass | 538,217 | caps, cooldown, justified refusals and refinement of `SlidingWindow` by all four rules (resets by email and by IP, signups, confirmation links) on one table |
| `login_pair` | `MCLoginThrottle`, `MCLoginPair.cfg` | pass | 377,297 | guesses at one email: cap per pair, backoff, refinement of a resettable `SlidingWindow` |
| `login_ip` | `MCLoginThrottle`, `MCLoginIP.cfg` | pass | 209,899 | guesses from one address at several emails: cap per IP, a success clears its own pair only |
| `accounts` | `MCAccounts`, `MCAccounts.cfg` | pass | 682,906 | links, logins, password pages and staff's forms on two accounts, saving old rows over one another |
| `mail` | `MCMailTasks`, `MCMailTasks.cfg` | pass | 285,044 | mails kept until settled, retries that end, a link for whoever keeps asking |
| `sessions` | `MCSessions`, `MCSessions.cfg` | pass | 2,118,166 | absolute age, restart, ended sessions and old passwords under parallel requests |
| `audit` | `MCAudit`, `MCAudit.cfg` | pass | 982,393 | what duplicates or loses an audit row, the order of the two rows, how long a failure pauses a process, what rows and log lines show, whom a row names |
| `cleanup_race` | `MCRequestLimits`, `MCResetCleanup.cfg` | violation | | the cap over a whole window |
| `failure_stays` | `MCLoginThrottle`, `MCLoginFailureStays.cfg` | violation | | a failed attempt stays counted |
| `verify_race` | `MCAccounts`, `MCVerifyRace.cfg` | violation | | a confirmed address was proved, also when staff change it between a confirm page's check and its write |
| `stale_save` | `MCAccounts`, `MCStaleSave.cfg` | violation | | a deactivation lasts, also over a password page that read the account before |
| `unproved_confirmed` | `MCAccounts`, `MCUnprovedConfirmed.cfg` | violation | | a changed address is unconfirmed, also for passwords staff chose |

Bounds and why they are enough:

* Throttle: three requests and limits of one or two events, so that the third
  request meets a full window whose two rows come in either order, one of them
  perhaps being refused, abandoned or cleaned up. Windows of two to four
  units and a clock of four or five let a window pass entirely, and the windows of
  a scope's rules differ so that taking one for the other shows. `Stall = 1` lets an INSERT
  overtake an older one. The theorems remove these bounds.
* Accounts: two accounts and two addresses for the unique constraint and for an
  address that moves on to another account; two requests for every pair of handlers
  that can meet on a row, staff's forms among them; two links for a link that survives another's use; two
  stamps for a password and what replaces it. `MaxUsers`, `MaxStamp`, `MaxTasks`
  and `MaxLinks` stop the actions that would pass them. The three violation runs have one
  account and three stamps, for a login or a staff password after the first two. The theorems remove the bounds.
* Mail: one verification mailing and two workers, for two copies of it at work at once; one retry and
  two deliveries, so that every path to the end of both budgets is there; a confirmation
  lost while the broker has no other copy gives the duplicate. `MaxQueued` keeps
  pages from adding copies; a lost confirmation may still double one, of a retry's publish too, up to three copies of the mailing (`MaxCopies`). Resets and invites take
  the same actions (an invite is never limited, a reset is not mailed by `Enroll`), and with a second mailing the
  liveness check is out of reach. Mailings share nothing
  but the workers, which the fairness assumption speaks about; the theorem
  `KeptUntilSettledAlways` is for any sets of mailings and workers.
* Sessions: one user and two requests, for every pair that can hold copies of one session (staff who change another's password
  need a second user; only the theorems cover them); two keys, one of them
  from before login times were kept, so that a login can issue a new key; ages of two ticks and two
  password versions. The clock stops at two, where every age has passed once.
* Audit: two requests of one process, for a publish that fails while the other's is under way; a publish
  tried twice, one retry of the task, one lost answer, a pause of a tick. The
  documents of `AuditRows` are up to three calls deep and some deeper than `MaxDepth`, with three names of keys (plain, sensitive by its
  suffix, and one that only resembles a sensitive one), and what Postgres refuses in texts and in keys; the URLs are links with and without
  their slash, with the token once and again, and paths that are no links; the theorems remove that bound. A behaviour follows
  the rows of the requests, builds one part of a row, or follows the user of one request (two users); none depends on another.
* `CHECK_DEADLOCK FALSE` in every cfg but `MCSessions.cfg`: when the clock, the requests, the stamps
  or the publishes are used up no action is left, which is the bound's end and not the
  system's. Sessions never come to that, because staff can always switch an account off and on.
* Symmetry is over interchangeable model values only, and `mail`, the one run with
  liveness properties, uses none.

Fairness is assumed in `MailTasks` only, where the code justifies it:

* `WorkersRun`: a worker goes on with the message it holds (weak fairness of `Step`; the
  tasks' soft and hard time limits end what hangs), and a message that is ready again and
  again while a worker is free is delivered (strong fairness of `DeliverSome` per
  mailing; the queue is served in order, so other mailings cannot overtake it for ever).
* `TimePasses`: cooldowns end. `OwnersAsk`: the owner of an account without its link keeps asking; this is an
  assumption about people, and `LinkArrives` is the promise to those who do.
* No fault is fair, and none is excluded: `CalmDown` is the moment after which none
  happens, it is never owed, and `Drains` does not mention it. `LinkArrives` starts there,
  because with failures for ever no mail need arrive.

## Proofs

All theorems are checked by TLAPS with SMT, Zenon and LS4, for any sets of
requests, addresses, accounts, keys, mailings and workers, and any bounds that meet the named
assumptions of the modules (`LimitsAssumption`, `StallAssumption` and
`RequestsAssumption` for the throttles, `AgesAssumption` for sessions, `AuditAssumption`,
`MailingsAssumption`, `NobodyAssumption`, those of `AuditRows` below, the sentinels being no values, and the bounds being numbers).

* `RequestLimitsProofs`: `TypeCorrect`, `EmailCapHolds`, `EmailCooldownHolds`,
  `IPCapHolds`, `AllowedStayCountedHolds`, `RefusalJustifiedHolds`. The caps are not
  inductive: that a request which passes sees all earlier ones needs `StillCounted` (a row stays until it is refused
  or expired) and `UndecidedFresh` (who still has to count is at most `Stall` old), so the
  cleanup cannot have taken a row of a `Sure` window. Then of the requests in one window the
  one that was counted last saw all others. For resets the email rule's cap
  is stated of all that passed it, also those the IP rule refuses later (`EmailPassedCap`).
  That refusals are justified needs `StoredInserted`: what a count finds was inserted, and
  what was inserted once never becomes fewer, although rows do.
* `LoginThrottleProofs`: `TypeCorrect`, `PairCapHolds`, `IPCapHolds`,
  `BackoffSpacingHolds`, `RefusalJustifiedHolds`, `OnlyOwnPairClearedHolds`, by the same
  argument with the forgiven attempts taken out.
* Refinement of `SlidingWindow`: in `RequestLimitsProofs`, `RulesImplemented` is proved once for a rule as a record
  (scope, column, keys, limits), of which the table has four; `ResetLimitImplemented` (by email and by IP),
  `SignupLimitImplemented` and `LinkLimitImplemented` are its instances. In `LoginThrottleProofs` it is
  `PairLimitImplemented`. The caps and the cooldown of the state after a step are the guard of `Grant`; a step allows one
  request at most (`OneMoreAllowed`), what was granted stays granted with its time
  (`AllowedStay`, `GuessStays`), and the grants in a window are as many as the
  requests in it. A success, a reset and an accepted invite are `Reset` of one pair.
* `SlidingWindowProofs`: `StrictLimit` and `ResettableLimit` say what the abstract module is worth. Its guard looks only at the
  windows that open with a grant; the theorems have the cap for every window of that length, whenever it opens (the
  earliest grant in it opens one that holds as many), and the cooldown. With the refinements, that is true of the
  grants of the code.
* `AccountsProofs`: `TypeCorrect` and all properties of the `accounts` run: `VerifiedMeansProvedHolds`,
  `UsedLinkRefusedHolds`, `PasswordSetAtItsAddressHolds`, `OnlyAdminsEditHolds`,
  `VerifiedSticksHolds`, with nothing assumed about what overlaps. Any row that a request has read may be saved again, at any later
  time, over whatever is stored by then; so the invariant `IInv` says of every such row what it says of the stored
  ones (`StoredFine`, `ReadFine`): its password is no later than the last stamp, and if it lets its owner in, the address was
  proved or is in `crossed`. `LinksSigned` (a link's token has the address it was mailed to) and `PagesOfLinks`
  (a page read the account at that address, and active) are what a write by a link rests on, and `UsedOutdated` (a used
  link's token signs a password that the account has no more, or that a form put back) keeps used links refused.
* `MailTasksProofs`: `TypeCorrect` and `KeptUntilSettledAlways`. Their invariant adds that
  a mail being sent still qualifies unless its link went stale (`SendsWhatQualifies`), and that a task waiting to
  publish its retry has one left (`RetriesLeft`). `BudgetsSpent` is the part of `Drains` that is
  safety, and no run's property: a step that adds copies of a mail is a page's publish of a first try, or adds those
  that a worker's attempt leaves behind, by ending with a retry, whose one publish the broker stores twice at most, or by losing its message to the broker. Neither
  can happen twice to one attempt, and both copies have less budget than the attempt's message (`SuccessorsHaveLess`).
* `SessionsProofs`: `TypeCorrect`, `AbsoluteHoldsAlways`, `RestartHonouredAlways`, `EndedStaysEndedAlways`,
  `OldPasswordOutAlways`: each rests on an invariant about every copy of a session, in the
  table or with a request: no copy has a login time later than its key's last login, nor
  earlier than the last one that no request overlapped, and its hash is of the version the
  key last logged in with (`CopyOf`); the row of an ended key is gone and cannot be saved again.
* `AuditProofs`: `TypeCorrect`, `RowsAccountedHolds`, `NoneForgottenHolds`, `RequestRowFirstHolds`, `PauseHeldAlways`. The pause rests on
  `PauseIsOfFailure` (`paused_until` is the latest failure's time plus the pause). The order of the two rows follows from
  `NoneForgotten`: a request that may offer its RESPONSE row has its REQUEST row due, and no step takes a row back that was offered (`Proceeds`). That rows are not duplicated
  is not inductive by itself: a request must offer each of its rows once. `Accounted` adds that a row its request may
  still offer (`Ahead`) has no copy anywhere, and that a REQUEST row offered on arrival is not offered again (`HeldBack`). The copies on the queue are the
  cardinality of a set, so that the library's theorems on finite sets apply to what a publish or a delivery changes.
* Of `ActingUser`, also in `AuditProofs`: `LastUserRecordedHolds`. The last user a request acted as is `request.user`, or the remembered one
  while that is anonymous.
* Of `AuditRows`, also in `AuditProofs`: `SecretsMaskedHolds`, `RowsStorableHolds`, `TokensMaskedHolds`, for documents of any depth and
  any keys, and `MaskExact`: masking hides what is below secret keys and nothing else. The argument is an induction on depth. `MaskSafe(n)` says of every
  document within `n` calls that its mask is one too, that what shows below a secret key is the replacement, and that
  the rest is what was sent; `CleanSafe(n)` that no text or key is a NUL and only NULs are replaced. A step looks at a leaf, a list
  and a map (`Shapes`), each with the value of the walk on it (`TextsOf`, `MaskOf`, `CleanOf`). A body is empty, described or the mask of a
  document that jsonb takes (`BodyCases`), and a description has no secret key (`DescribedPlain`). For URLs, what
  `FindUrlToken` finds are the tokens of links, with their slash or without, and no others (`TokenFound`, `LinkFound`). Assumed of the
  constants: the strings of the code are strings, `MaxDepth` is more than 1, forms and log fields are within it, and forms, parameters,
  headers and URLs hold neither NaN nor a lone surrogate, for `parse_qs` and `QueryDict` make texts of everything and replace what is not UTF-8.
* `LevelRecursion`: that its recursive definition has the values its equation gives (`LevelDef`), and induction over
  levels (`Induction`), for any base and any step. The provers cannot instantiate the library's theorems on
  recursion and induction, which take operators as parameters; here the operator is a constant of the module, and
  an instance of the module has the theorem about its own.

Only model-checked: the liveness of `mail` (`Drains`, `LinkArrives`), because liveness under fairness and ENABLED are out
of the prover's reach.

## Where code and documentation disagree

* `verify_race`: a confirmation that checked its token before an admin changed the
  address confirms the new address, with a link sent to the old one.
* `stale_save`: a password page that read its account before a deactivation writes
  the account back as active (and re-inserts one that was deleted).
* `unproved_confirmed`: when staff disable the password of a confirmed consumer,
  a changed address stays confirmed, as it would for an invitee.
* `cleanup_race`: the cleanup can delete a row that a request in flight still has to count.
* `failure_stays`: a success deletes the rows of attempts of its pair that are still in the
  password hash; when these fail, no failure is left.

More sentences of the program's README are narrower in the models than in words, and the properties say
by how much. "Every request leaves two rows" (`src/README.md:359`) does not hold of a request whose query or upload cannot be
read, which leaves none, nor of one whose user cannot be read when it is answered, which leaves its REQUEST row only; nor of a row that the
log database refuses, which is not retried, nor of the documented losses (`NoneForgotten`). "The link works
once" (`src/README.md:135-136`) fails when staff save a form that they opened before the link was used: the old password
comes back, and with it the link (`UsedLinkRefused`); likewise such a form can take a confirmation back (`VerifiedSticks`). "A row is written at most once" (`src/README.md:377`) holds up to answers that are lost after
the deed, each of which can add one row (`RowsAccounted`). "Logging in again restarts it"
(`src/README.md:198`) holds when no other request of the session is under way
(`RestartHonoured`).

## Not modelled

* The database router: four stateless lookups by app label; a property would restate them.
* Request ids, the logging context and renderers, the dropping of log lines of successful probes and
  the move of an exception to `exc_info`: formatting and filtering without state.
* The client's address (one read of `REMOTE_ADDR`), the health endpoint and the API's
  error schemas: stateless. The throttles take any address, also none.
* `config/env.py`, settings, URLs, apps, deployment, templates and load tests: validation at start
  and declarations. What the models take from them is in their assumptions (the domains of the
  limits, the order of the two session ages) and in the actions (Celery's acknowledgement settings).
* Of accounts: the deadlines of links, `is_superuser` and groups, `createsuperuser` and `changepassword`, and the
  second within which a reset link survives a login, because a token signs `last_login` in whole seconds.
* Of sessions: the redirect of staff and the `no-store` headers, which keep no state.
* Of audit rows: durations, tracebacks, spellings of keys, and tokens inside longer words. Whether an SMTP answer is classified rightly is
  not modelled either: the class is a choice, and what follows from it is checked.
