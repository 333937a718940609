# LinguaMentor: specifications and proofs

TLA+ models of LinguaMentor (`src/`): the FastAPI service `ai-service`, its
BullMQ worker and the tables and queues they share. TLC checks small instances
of the models; TLAPS proves the most important facts for all of them.

To parse, check and prove (in this directory):

    tlasany WritingEval.tla
    tlc -workers 2 -config eval_faults.cfg MCWritingEval
    tlapm WritingEvalProofs.tla

## 1. Inventory

| Component | State it keeps | Operations | Interacts with | What is hard | What makes it correct |
|---|---|---|---|---|---|
| Submission (`routers/writing.py`) | rows of `writing_sessions` | submit, poll, history | inserts a row, adds a job | count and insert are two statements; a row without a job | the quota holds up to concurrent requests; an accepted essay is settled |
| Worker (`queue/worker.py`) | status and scores of a session, `ai_model_runs`, `readiness_snapshots` | `process`, `on_failed` and its two tasks | takes jobs, calls the AI provider, updates the skill vector | six separate commits, at-least-once delivery, retries, crashes | each essay counts once, is traceable, and ends scored or failed |
| Queues (`queue/queues.py`) | jobs in Redis | add, retry with backoff | BullMQ (external) | locks that expire under a running job | jobs come to an end; only exhausted ones fail |
| Skill vector (`writing/skill_vector.py`, `writing/cefr.py`) | six dimensions and `version` | `update_skill_vector`, `band_to_cefr` | read and written by the worker | optimistic concurrency, three roundings on top of each other | no update is overwritten; each goes towards the score; band and level agree |
| Sessions (`auth/service.py`) | `refresh_tokens`, JWT blacklist in Redis | rotate, revoke, erase | login, logout, all authenticated routes | two clients with one token, lost answers | one live token per login; reuse ends the sessions |
| Login (`auth/service.py`, `auth/router.py`) | failure counter, lock, rate limit, MFA challenge and secret | login, `mfa/*` | issues sessions | counters read and written apart | a lock follows five failures and lasts its time |
| Calibration (`calibration/pipeline.py`, `correlation.py`) | runs, AI scores, baseline | score, correlate, approve | AI provider; the worker reads the baseline | failures in the middle of the loop, numbers that are read by different statements | each essay is scored once per run; the baseline rests on scores that pass |
| ASR validation (`calibration/wer_engine.py`, `calibration/asr_pipeline.py`, `routers/wer_validation.py`) | runs, clips, results, baseline | transcribe, submit, compute, approve | ASR provider | ties in the backtracking, duplicate results, missing accents | the error counts add up to the edit distance; a pass covers every accent |
| Gateway (`gateway/src/index.ts`) | none (its rate limiter is a library) | verify, limit, proxy | all services | configuration | requests carry the verified identity |
| Prompts, tuning | none | pure functions | worker, calibration | text | fit for the provider |
| Lifecycle, plumbing (`main.py`, `dependencies.py`, `shared/db_utils/connection.py`) | pool of connections, Redis client | start, stop, borrow | everything | one pool for requests, executions and tasks; shutdown order; kills | the worker stops before the pool closes; nobody waits for ever |
| Schema (`scripts/migrations`) | tables | | everything | precision of columns | comments and code agree |

Named in the documents but absent from the code: the appeal evaluation, SRS and
PDF generation (their queues exist and nothing uses them), speaking, exam and
adaptive services.

## 2. Plan

All of it is done; the order is that of importance.

1. **`WritingEval`** with `BullMQ` and `SkillVectorLog`: the evaluation pipeline
   is the program's core and where most of its concurrency is.
2. **`AuthSessions`**: refresh token rotation, reuse detection, logout, sign-out
   and erasure as interleaved requests.
3. **`LoginGuard`**: failure counter, lock with a clock, MFA setup and challenge.
4. **`CalibrationRun`**: scoring loop with failures and crashes, correlation,
   approval.
5. **`WordErrorRate`** and **`WerValidation`**: the dynamic programme and its
   backtracking; results per accent and the baseline.
6. **`SkillProgress`**: what `WritingEval` keeps abstract, the numbers of one
   learner.
7. **`Service`**, composed of `ConnectionPool` and `RateLimit`: the process around
   all of it.

With them, every safety property of section 6, proved for all values of the
constants. The liveness properties stay with TLC.

## 3. Modules

### `BullMQ`

The queue `lm:writing:eval` as the service relies on it. BullMQ is not in the
repository, so this is a contract; what it assumes:

- a job is delivered at least once; a slot holds a lock on the job it executes;
- finishing a job without its lock is refused, and emits no `failed` event;
- `attemptsMade` is incremented before the event, and after `attempts`
  failures the job is `failed`, before that it waits again (backoff);
- an active job without a lock is found by the stalled check, delivered again
  `MaxStalled` times and then failed, with `attemptsMade` as it was;
- the worker defines its own `UnrecoverableError`, "BullMQ Python does not export"
  one. Whether BullMQ then skips the remaining attempts depends on the
  library: the constant `HonoursUnrecoverable` stands for either answer. The
  passing runs assume that the class is an ordinary exception,
  `eval_scored_overwritten` what the worker's comment says. The theorems hold for both.

### `WritingEval`

| In the model | In the code |
|---|---|
| `request[s]` | how far the `POST /writing/evaluate` that creates session `s` is |
| `status`, `result` | `writing_sessions.status`; `ai_model_run_id` and the scores written with it |
| `runs` | rows of `ai_model_runs` written for `s` |
| `vector`, `version` | a row of `skill_vectors`; the six numbers are the sequence of evaluations folded into them |
| `snapshots` | `readiness_snapshots`: the essay it follows and the vector it shows |
| `pc`, `local` | the executions of `process()`, one per slot (`concurrency`) |
| `failTasks`, `dlqTasks`, `dlq` | tasks of `on_failed` not yet run, and the dead letter queue |
| `Admit`, `Refuse`, `InsertSession`, `Enqueue` | the handler between its awaits |
| `Start` ... `WriteSnapshot` | `process()` between its awaits |
| `Return`, `Raise` | its end, with what BullMQ and `on_failed` do |
| `RequestError`, `DatabaseError`, `TaskError` | any statement that fails |
| `LockExpires`, `StalledCheck`, `Crash` | a lost lock, BullMQ's recovery, the death of the process |

The code is single-threaded between awaits, so an action is everything from one
await to the next. The worker opens no transaction: each statement commits.

`FetchSession` stands for two reads, of the session and of the calibration
baseline; the baseline only labels the result and nothing here writes it.
A session that cannot be found, an unknown exam type and a missing payload
cannot happen: rows are not deleted, and the request schema restricts the type.
`attempts: 3` of `queues.py` and the threshold `>= 3` of `on_failed` are two
literals in the code and one constant, `Attempts`, in the model.

### `SkillVectorLog`

The abstract specification: a vector is what results from folding evaluations
in, one after another, and `version` is their number. `WritingEval` implements
it (`UpdatesAreAtomic`) although it reads, computes and writes in separate
steps. A moving average remembers order and every contribution, so representing
the vector by the sequence loses nothing.

### `AuthSessions`

| In the model | In the code |
|---|---|
| `status[t]` | a row of `refresh_tokens`: not there, valid, or with `revoked_at` set; the code has one column, the model remembers for which reason |
| `owner`, `session` | `user_id`; the login from which the token descends, which the code does not store |
| `expired` | rows whose `expires_at` has passed |
| `deleted` | users with `deleted_at` |
| `cookie` | what a browser holds as `lm_refresh_token` |
| `request[r]` | a handler between two awaits, with the cookie it was sent |
| `Authenticate`, `IssueToken` | login, registration and MFA: the user's row is read, later a token is inserted |
| `Refresh`, `Lookup`, `Rotate`, `Alarm` | `rotate_refresh_token`: the SELECT and its checks, the transaction that replaces the token, and `revoke_all_user_tokens` for a token that is already revoked |
| `Logout`, `RevokeOwn`; `SignOut`; `Erase` | `logout`; `revoke_session` from another device; `gdpr_erase_user`, one transaction |
| `Answer`, `LoseAnswer`, `StatementFails`, `Expire` | the answer sets or clears the cookie, or never arrives; a failed statement; time |

The clients are the learners' own browsers, each with one cookie. A refused
refresh leaves the cookie as it is (the handler raises before it could clear
it). `shared` and `disturbed` are history variables: they decide nothing and
say when the properties make an exception. Access tokens, with their 15 minutes
and the blacklist, and the passwords are left out: nothing in the protocol of the
refresh tokens reads them.

### `WordErrorRate`

`compute_wer` from its word lists on, one action per loop iteration: `FillCell`
fills the table row by row, `Match`, `Substitute`, `Insert` and `Delete` are the
branches of the walk back, each with the negation of the ones before it. `j` of
the model is between 0 and `m` throughout and `dp` is not indexed outside its
domain (`TypeOK`), which in Python would go unnoticed: `dp[-1]` is the last row.
`BreakdownIsOptimal` is the reference definition: it speaks of alignments and
does not mention a table.

### `WerValidation`

| In the model | In the code |
|---|---|
| `targets`, `clipsScored`, `passed` | columns of `wer_validation_runs` |
| `results[r]` | rows of `wer_transcription_results` of run `r`, in the order of their insertion |
| `baseline[v]` | the row of `wer_baseline` with `validation_version = v`; its rates are the means of `evidence` |
| `request[q]` | a handler between two statements, with its local variables |
| `Transcribe` ... `CountClip`, `SkipClip` | `run_asr_pipeline`, clip by clip |
| `Submit`, `InsertResult`, `CountClip` | `submit_transcription_result` |
| `Compute`, `SelectResults`, `UpdateRun` | `compute_run_wer` |
| `StoreBaseline`, `CheckPassed`, then as above, `ReadClips`, `InsertBaseline` | `store_wer_baseline_endpoint` |
| `StatementFails`, `Crash` | a failing statement: the pipeline catches it and takes the next clip, other requests end; the process dies |

Word error rates are whole numbers of 0.0001, the precision of the column, so
that a mean is compared with the threshold without rounding, as in the code
(which rounds only what it stores and shows). A clip's rate is any of `Rates`:
the provider may answer anything. The targets and the model of a run are never
updated, so that statements that read only those are not steps of their own. A
run with an empty list of targets (the code then takes all clips) is left out.
The pipeline takes its clips in any order. `uncounted` and `contended` are history
variables.

### `CalibrationRun`

| In the model | In the code |
|---|---|
| `gradingComplete` | essays with `grading_complete`, which is set by hand |
| `run[r]` | a row of `calibration_runs`: `state` is "started" once it is inserted and "completed" with `completed_at`; `essays_scored`; `passed_overall` |
| `aiScores[r]` | rows of `calibration_ai_scores` of run `r`, in the order of their insertion |
| `baseline` | the row of `calibration_baseline`; its coefficients are computed from `evidence` |
| `request[q]` | a handler between two statements, with its local variables |
| `StartRun`, `FetchPending` | `create_calibration_run`, `fetch_pending_essays` |
| `ProviderAnswers`, `RetryInvalid`, `ProviderFails` | the two attempts of `score_essay`: a valid answer; one that does not fit the schema, the first time; a second one, or any other exception |
| `InsertScore`, `InsertFails`, `Progress`, `Complete` | its INSERT, and the UPDATEs of `run_calibration_scoring` |
| `Correlate`; `StoreBaseline`, `CheckPassed`; `SelectPairs`, `UpdateRun`, `ReadCount`, `InsertBaseline` | the two endpoints, and `compute_correlation` and `store_calibration_baseline` that they call |
| `StatementFails`, `Crash` | any other statement fails; the process dies |

`batch`, `failedOn` and `streak` are history variables. Essays are numbered in
the order of `created_at`. Three things are as in the code and easily read otherwise:
a run is never resumed (every `POST /runs` creates one), a run that finds no
essays never gets `completed_at`, and neither correlation nor approval asks
whether a run has been completed, although the router says so (`routers/calibration.py`,
146); `settled` records whether it was. The thresholds are compared in whole numbers:
Pearson's coefficient against 17/20 by its square, and the mean absolute error in
quarters of a band, rounded to three places as in the code. A constant column
has no coefficient and fails. One type of exam is modelled, the examiners' scores
are constants (`Consensus`), and so is the rubric (`Categories`).

### `LoginGuard`

| In the model | In the code |
|---|---|
| `failures`, `lockedUntil`, `mfaEnabled`, `secret` | `failed_login_attempts`, `locked_until`, `mfa_enabled` and `mfa_totp_secret` of `users` |
| `challenge[k]` | the key `lm:mfa_challenge:{k}` in Redis: not given out yet, there (with its user and its end), or gone |
| `now` | the clock of the service and of Redis, in ticks |
| `request[q]` | a handler between two statements: its user, and what it has read and is about to write |
| `Login`; `WrongPassword`, `RightPassword` | `login`; the SELECT of `authenticate_user` with what follows it up to the next statement |
| `RecordFailure`, `Lock` | the two UPDATEs of `_record_failed_login` |
| `Reset`; `GiveChallenge`, `Issue` | the UPDATE after a right password; the two ways `login` goes on |
| `Verify`, `CheckCode` | `mfa_verify`: GETDEL; the SELECT of the secret with the check of the code |
| `SetUp`; `Confirm`, `Enable` | `mfa_setup`; `mfa_setup_verify` |
| `Tick`, `StatementFails` | time, in which challenges expire; the next statement of a handler fails |

No handler opens a transaction (`get_db` only lends a connection), so every
statement commits. `misses`, `locked`, `interrupted`, `behindLock`, `behindMfa` and
`granted` are history variables. A TOTP code is right for one secret and does not
age; the session that `Issue` begins is a token of `AuthSessions`. As in the code:
the lock is looked at only if the password is right, so a locked account goes on
counting and every further failure locks it anew; a lock that has run out leaves the counter, so that one
more failure locks again; and `SetUp` replaces the secret in force, also if MFA
is enabled, although its docstring calls the secret tentative (`auth/router.py`,
336). Left out: the rate limiter (`RateLimit`) and erased accounts (`AuthSessions`).

### `SkillProgress`

One learner: what the pipeline of `WritingEval` does, with the numbers it leaves
out and without the queue. Learners share none of it.

| In the model | In the code |
|---|---|
| `scores`, `level` | `score_*` and `cefr_level` of `writing_sessions` |
| `vector`, `version` | a row of `skill_vectors`, in 0.001 (`NUMERIC(4,3)`) |
| `snapshots` | `readiness_snapshots` with index and delta, in 0.0001, oldest first |
| `step`, `local` | the executions of `process()` with their local variables |
| `answer` | history: what the provider answered, in quarters of a band |
| `Fetch`, `Evaluate`, `UpdateSession` | the SELECT of session and vector; the provider; `must_be_half_band_increment`, `band_to_cefr` and the UPDATE |
| `ReadVector`, `WriteVector` | `update_skill_vector` |
| `ReadSnapshot`, `WriteSnapshot` | `_create_readiness_snapshot` |
| `Abandon` | a statement or the provider fails, or the process ends |

Numbers are whole. Where Python rounds a double that may lie on either side of a
tie (the column, `Half`), both neighbours are possible; where a tie cannot occur
(ninths, fifths), rounding is exact; `HalfBand` rounds exact halves to even, as
Python does. `seen`, the vector of the snapshot, is the one `Fetch` has read,
so a snapshot shows the learner before the essay it follows. `known` and `raced` are
history. An essay is fetched by one execution at a time: lost locks are
`WritingEval`'s subject.

### `Service`, `ConnectionPool`, `RateLimit`

| In the model | In the code |
|---|---|
| `phase` | the statement of `lifespan` the process is at |
| `pool`, `waiting`, `holders` | the pool of asyncpg: whether it is open, who is in `acquire()`, who holds a connection |
| `count`, `ttl` | a key `lm:rate:...` in Redis |
| `step`, `key` | a request, an execution or a task, and the counter that limits a request |
| `admitted`, `interrupted` | history: requests let through in each tick; counters whose creator set no expiry |
| `Receive`, `AskConnection`, `Connected`, `Done` | `get_db`, and `async with pool.acquire()` of the worker |
| `Increment`, `SetExpiry`, `ReadTtl` | `_check_rate_limit` |
| `RetryIncrement`, `LoseAnswer` | redis-py sends INCR again (`retry_on_timeout`), or gives up |
| `Work` | what the client does with its connection: the subject of the other modules |
| `FailJob` | `on_failed` after the last attempt, which starts a task that needs a connection |
| `Start` ... `PingRedis`, `Drained` ... `CloseRedis` | `lifespan` before and after `yield` |
| `Fails`, `Crash`, `Gone` | a statement of a client fails; the process is killed, or `lifespan` raises |

The connection is borrowed before the limit is checked, although a comment says
"Rate limit before any DB work" (`auth/router.py`, 160): `get_db` is a dependency of the
endpoint. Requests are answered before `lifespan` goes on (uvicorn), and
`worker.close()` waits for executions (BullMQ): two contracts. Tasks of `on_failed` are awaited by
nobody; one that finds the pool closing logs the exception, and its session stays in
'processing'.

### `MC...` and `...Proofs`

Instances for TLC, and the theorems about the module of that name
(`ServiceProofs` includes what is needed of its two parts).

## 4. What the runs check

`TypeOK` is checked in a run of each system; the other properties are:

| Run | Bounds | Shows |
|---|---|---|
| `eval_faults` | 2 essays of one learner, 2 slots, 2 attempts, one crash, one lost lock, one failed statement | `Traceable`, `SnapshotsAreHistory`, `FailedIsExhausted`, `UpdatesAreAtomic`; unless a lock was lost, `AppliedOnce`, `CompletedIsScored`, `FailedIsFinal` |
| `eval_liveness` | 3 essays, 1 slot, a limit of 1 and 2 requests at once, 2 attempts, one lost lock | `QuotaOvershoot`, `QueueDrains`, `AcceptedIsSettled` |
| `skill_progress` | 3 essays of one learner, 2 executions, 6 answers | `TowardsScore`, `DeltasChain`, `ResultsAgree` |
| `service` | 2 requests, 1 execution and 1 task, a pool of 1 connection, 1 counter with a limit of 2 in a window of 2 ticks | `WorkerStopsFirst`, `LimitHolds`, `CounterExpires`, `Progress` |
| `auth_sessions` | 1 learner, 2 browsers, 2 requests at once, 3 tokens, one of them expires | `OneTokenUnlessShared`, `NoFalseAlarm`, `EndedStaysEnded`, `ErasureIsFinal` |
| `login_guard` | 1 admin, 2 requests at once, 2 secrets, 1 challenge, a lock after 3 failures, at most 4 wrong passwords in a row, a lock of 2 ticks and a challenge of 1, up to tick 3 | `FailuresLock`, `LockLasts`, `MfaGates` |
| `calibration_run` | 1 run, 4 essays of which at most 3 are taken, 2 requests at once, 2 bands | `ScoredOnce`, `ProgressTracksRows`, `VerdictsHaveEvidence`, `RequestsEnd` |
| `wer_validation` | 1 run, 2 accents with a clip each, 2 requests at once, 1 version, rates below and above the threshold, hand-submitted results while the run has fewer than 2 | `CounterTracksRows`, `ClipsCountOnce`, `BaselineHasEvidence` |
| `word_error_rate` | all pairs of texts of at most 4 words over 2 | `BreakdownIsOptimal` |

Two executions and two sessions of one learner are what the races need: the
state the executions share is per session or per learner, so a third only adds
a third party to conflicts that are pairwise. One fault of each kind, combined
in any order, covers a failure during the recovery from another. With two attempts the
first failure is retried and the second is final. `eval_liveness` has a third essay
because the limit can be overshot only by a request that counts while two others
are on their way, and one slot so that a job has to wait for another.

Three properties hold unless a lock was lost (`lockLosses = 0`): a lock that is lost
while its execution goes on (a blocked event loop, Redis out of reach for longer
than 30 s) lets an essay be evaluated twice at the same time and counted twice, because the UPDATE to
'processing' has a condition but its result is not looked at. A crash, after which a job
is delivered again too, is not such a case.

`skill_progress`: the answers are both ends of the scale, a tie that is rounded up
and one that is rounded down, the border of two levels, and one whose scores
differ; three essays are the least for a delta after a delta, and two
executions the least to skip an update or to race a snapshot. What a single
step does for other numbers is proved (section 6). `service`: one connection for
four clients is the hardest pool; two requests are needed for one to exceed the
limit while the other holds the connection; two ticks let a window end within another; and
starts, stops and kills are not bounded. `LimitHolds` has a bound of `2 * MaxAttempts - 1` per
window, which the run reaches: fixed windows admit twice the limit around their border.

`auth_sessions`: three tokens are a login, its successor and one more, the least
in which two successors of one token compete or another session is there to be
revoked. Two requests are what two tabs, or two devices, need to collide.
`word_error_rate`: four words on either side contain every pattern of ties
between the three neighbours of a cell that are two steps apart; two words are
enough since only their equality counts. `wer_validation`: two clips, so that a
pipeline goes on after a failure, and accents whose means lie on different sides of the
threshold (500 and 1400 of 1000 also average to 950, just below). `calibration_run`: three
essays are the least that can fail, succeed and fail in a batch, with a fourth
left out by `LIMIT`; with the bands 4 and 5, two answers in the examiners' order pass
and others do not, so a later row can turn a verdict. Runs share the baseline
only, and one is enough for a second INSERT to collide. `login_guard`: two
requests collide at every pair of statements; three failures are a first, a middle and
a last, and a fourth comes after the lock; three ticks let a lock
of two run out and a challenge of one expire under it; users share no state, and
an admin without MFA does what a learner does. The
theorems in section 6 do not depend on any bound.

The handler that is refused or answered and the queue that is drained stop, so
deadlock is not an error in these runs; progress is what `eval_liveness` is for.
The tokens of `auth_sessions` run out, `compute_wer` ends, the essays of
`skill_progress` are scored, and `wer_validation`
reaches states in which every request is answered and the baseline is stored.
`login_guard` never stops (a new secret may be set up at any time), nor does
`service`, which may be started again.

### Where code and documents disagree

| Run | The documents say | The code does |
|---|---|---|
| `eval_scored_overwritten` | "status moves PENDING → PROCESSING → SCORED" (003 schema, 206) | a failure after the scores are stored, in the last attempt, turns `scored` into `failed` |
| `wer_baseline_partial` | "Only callable when all accent targets have passed threshold" (`wer_engine.py`, 334) | accents without results are not looked at, and stored as a rate of 0 |
| `calibration_no_abort` | "Three consecutive failures ... Abort early" (`calibration/pipeline.py`, 297-301) | the counter is set to 0 after every failure, and the loop takes the next essay |

Seen while modelling, and kept as the code has it:

- the free tier's three evaluations a month (`routers/writing.py`, 6) are overshot
  by concurrent submissions, by as many as are in flight: `QuotaOvershoot`;
- `revoke_session` "Revokes a specific session" (`auth/router.py`, 518), but the
  signed-out client's next refresh presents a revoked token, which counts as reuse
  and ends all sessions of the account;
- two refreshes that have both read a token leave two valid successors, where the
  003 schema, 65 says "one per session/device" (`OneTokenUnlessShared`, `shared`);
- the second of two concurrent updates of a skill vector is skipped, where
  `skill_vector.py`, 55 has it read the first one's result;
- 6.25 becomes 6.0 and 6.75 becomes 7.0, where the validator's docstring has every
  quarter rounded up (`calibration/schemas.py`, 53-56);
- `if prev` and `if row[...]` take zero for missing: no delta after an index of
  0.0 (`worker.py`, 251), no score of 0.0 in an answer (`routers/writing.py`, 270);
- the moving average stays up to 0.0027 away from a score it has followed for
  long, and `cefr_to_band_range("C1+")` includes 8.5, which is C2;
- `timeout=30` is described as the time to wait for a connection (`connection.py`,
  24-27 and 123-127); `acquire()` has no limit of its own, which is why `Progress` matters;
- `shutdown_event` is set and nothing reads it; a counter of the rate limiter
  whose creator was interrupted, or whose INCR was repeated, never expires
  (`CounterExpires` says that there are no others).

With `HonoursUnrecoverable = TRUE`, `eval_liveness` fails in `AcceptedIsSettled`: an
unrecoverable failure before the third attempt starts no task of `on_failed`, the session
stays in `processing`, and every poll is told to come back
(`routers/writing.py`, 261).

## 5. Fairness

`Fairness` of `WritingEval` is weak fairness of each request, execution and task that is under
way (the event loop runs whatever is ready, and every awaited call returns or
fails: database and provider clients have timeouts), of each slot taking some
waiting job (BullMQ's fetch loop), and of the stalled check (a periodic timer).
Nothing is assumed about faults or about what the provider answers: it may fail
for ever. `AcceptedIsSettled` allows for runs in which a fault happened, because
the code does not repair all of them: a session whose `add()` failed, or whose
failure task was lost, stays as it is. `FairSpec` of `CalibrationRun` has weak fairness of
every request that is under way, for the same reason as above; that a request
ends follows from the two attempts per essay and the finite batch, with no assumption on
the provider.

`Fairness` of `Service` is weak fairness of what each client does next, weak
fairness of the statements of `lifespan`, and strong fairness of getting a
connection: asyncpg serves those who wait in turn, so a client that waits is not
passed over for ever although the only connection is lent again and again. Nothing is assumed about requests
arriving, jobs being taken, starts, stops, faults or time. The other modules have no liveness
property and assume no fairness.

## 6. What is proved

For all values of the constants that meet `SlotAssumption`, `QueueAssumption`
and `PipelineAssumption`:

- **`TypeCorrect`**: `Spec => []TypeOK`. Inductive as it stands, because
  `WorkerTypeOK` includes that an execution under way has a session.
- **`NothingOverwritten`**: `Spec => []NoLostUpdate`, of which the next theorem is
  the stronger form that the runs check. Not inductive: a guarded
  write could store an outdated vector. `VectorInv` adds `ReadsAreCurrent`: an
  execution between SELECT and UPDATE holds a version that is not ahead of the
  row, and if it equals the row's then so does the vector it has read.
- **`Refinement`**: `Spec => UpdatesAreAtomic`. Under `VectorInv` an effective
  `WriteVector` is `Fold` of the log (`WriteFolds`); all other steps stutter.
- **`SnapshotsAreReal`**: `Spec => []SnapshotsAreHistory`. `SeenIsHistory`
  carries the claim from `FetchSession` to `WriteSnapshot`; vectors only grow
  (`VectorGrows`), by the same fact as above.
- **`FailureIsFinalAttempt`**: `Spec => []FailedIsExhausted`. `ExhaustedInv`
  adds that only active jobs are locked, that unfinished jobs have an attempt
  left, and that the tasks of `on_failed` are about exhausted jobs.

- **`SingleFlight`**: while no lock is lost, two executions are never about the same
  session; no run checks it, the next four theorems rest on it. It follows from `HeldInv`,
  inductive with `RowInv` (a job has a row, an execution has a job) and `ExhaustedInv`.
- **`DeliveredAgainAppliedOnce`**, **`CompletionIsResult`**, **`FailureIsTheLastWord`**: `AppliedOnce`,
  `CompletedIsScored` and `FailedIsFinal`, from `OnceInv`. `ExecutionOK` says what an execution
  knows of its session at each of its statements. `SessionOK` closes the gap between two deliveries: a session that was
  applied is scored, so that the next delivery stops at `FetchSession`, or its job has
  no attempt left (`MarkFailed` may have overwritten `scored` by then).
- **`OnlyFailureOverwritesScored`**: the other side of the finding on `ScoredIsFinal`. While
  no lock is lost, no statement but the unguarded UPDATE of `_mark_session_failed`
  takes a session out of `scored`.
- **`EveryScoreIsTraceable`**: `Spec => []Traceable`, with lost locks too. That a session is in the
  vector no more often than it has runs is not inductive: `TraceInv` counts the executions
  that have recorded theirs and not written the vector yet (`Applying`) as well.
- **`QuotaOverrunIsBounded`**: `Spec => []QuotaOvershoot`. `QuotaInv` bounds the sessions that count and
  those that were admitted and are not inserted yet (`Live`); the latter, and the one
  being admitted, are among the submissions in progress. `MaxInFlight` is assumed positive:
  with 0 nobody submits and the bound would be one less than the limit.

The proofs rest on no other assumption; in particular locks may be lost and the
process may crash any number of times (where a property does not say "while no lock is
lost" itself), and both answers to `HonoursUnrecoverable` are covered.

For any number of learners, clients, tokens and requests (`AuthSessionsProofs`;
assumed is only that the constants are what they stand for):

- **`TypeCorrect`**: `Spec => []TypeOK`.
- **`OneToken`**: `Spec => []OneTokenUnlessShared`. A rotation inserts a token
  without looking whether its session has another, so uniqueness alone is not
  inductive. `SessionInv` adds that a session which is not shared has at most one
  rotation under way, and that it is about the valid token.
- **`SessionsEnd`**, **`ErasureEnds`**: `EndedStaysEnded` and `ErasureIsFinal`, from
  `IssuedInv` (whatever names a token names one that was issued): a
  new token descends from a token that was valid, for a user who existed.
- **`NoClientAlarmsItself`**: `Spec => []NoFalseAlarm`. `HolderInv`: a token is in
  the hands of one client only, as cookie, in a request or in an answer.
  `CalmInv`: a client that is not disturbed has one request in flight at most, and
  if its cookie is used up then by that request. `ErasedInv`: the alarm of an
  erased account finds its user deleted first.

For texts of any length over any vocabulary (`WordErrorRateProofs`):

- **`TypeCorrect`**, from `TableInv` (a filled cell satisfies the recurrence the
  code filled it by) and `DeleteIsSound`: where no other case applies, there is a
  row above, and its cell is less by one.
- **`ErrorsAddUp`**: `Spec => []EditsAddUp`, a step of the next proof.
- **`ResultIsOptimal`**: `Spec => []BreakdownIsOptimal`. `BoundInv`: no alignment
  costs less than its cell says; what would be an induction on lengths becomes an
  invariant of the filling loop. `WalkInv`: the counts describe an alignment of
  what the walk has passed.

For any number of runs, clips and requests (`WerValidationProofs`; the requests are
finitely many):

- **`TypeCorrect`**: `Spec => []TypeOK`.
- **`EvidenceHolds`**: `Spec => []BaselineHasEvidence`. `ReportInv` carries the
  report from the SELECT to the INSERT; results are only appended (`ResultsStep`),
  so a report remains a beginning of them. The flag that `CheckPassed` reads plays no part.
- **`CounterHolds`**: `Spec => []CounterTracksRows`, by counting the requests
  between INSERT and UPDATE.
- **`ClipsCountOnceHolds`**: `Spec => []ClipsCountOnce`. `ClipsInv`: a clip that is
  ahead of a request (`Holds`) has no result yet and is ahead of no other request, unless
  it is contended. A request keeps the clips it has found pending for its
  whole life, so the claim is about all that is ahead of it and not only about the next insert.

For any number of runs, essays, categories and requests, any examiners' scores and any
answers (`CalibrationRunProofs`):

- **`TypeCorrect`**: `Spec => []TypeOK`.
- **`EssaysScoredOnce`**, **`ProgressIsTrue`**, **`CompletedRunsTriedAll`**: `ScoredOnce`,
  `ProgressTracksRows` and `CompletedIsTried`, from `ScoringInv`. No index and no
  transaction protects the rows of a run; what does is that a run is scored by
  one request at most (`Exclusive`), whose essays to come are those of the batch
  that have neither a score nor a failure (`ScorerOK`), as long as it is in the loop.
  A crash leaves a run in which only `RowsOK` holds, and nobody takes it up again.
- **`VerdictsRestOnEvidence`**, **`CountIsOfTheEvidence`**: `VerdictsHaveEvidence` and
  `CountMatchesEvidence`, from `EvidenceInv`, which builds on `ScoringInv`: the rows of a
  run only grow, and not once it is completed (`RowsGrow`), so what a request has
  read stays a beginning of them, and all of them if the run was completed. `Passes`
  is never expanded: the theorems hold for any criterion.

For any number of users, requests, secrets and challenges, and any limits
(`LoginGuardProofs`; the requests are finitely many):

- **`TypeCorrect`**: `Spec => []TypeOK`.
- **`FailuresAlwaysLock`**: `Spec => []FailuresLock`. `CountInv`: the wrong passwords
  since the last login are at most the counter plus the requests that are about to
  increment it (`Pending`), unless one of those failed. `RecordedInv`: a counter at the limit has a lock
  written, or a request that is about to write it.
- **`LocksHold`**: `Spec => LockLasts`. `LockInv`: a request that has read its
  user since the last lock is about to write a later lock, or to reset one
  that has run out.
- **`MfaHolds`**: `Spec => []MfaGates`. `SpentInv`: a challenge that was presented is
  gone, in the hands of one request, and has bought no session yet. `GateInv`: a login that has read
  its user since MFA was enabled knows it.

For any number of essays and executions and any answers (`SkillProgressProofs`):

- **`TypeCorrect`**: `Spec => []TypeOK`; that scores are half bands and vector,
  index and delta stay in range rests on the lemmas about the roundings, and on `ScoredInv`
  (what comes after `UpdateSession` finds scores).
- **`MovesTowardsScore`**: `Spec => TowardsScore`. `StepTowards` is the arithmetic:
  a fifth of the way and two roundings, for every value of a column and every score.
  `VersionInv` makes it about the vector as it is: a version that
  still matches means that the vector is still the one that was read.
- **`DeltasAddUp`**: `Spec => []DeltasChain`, from `LatestInv` and `DeltaNear`.
- **`ResultsAreConsistent`**: `Spec => []ResultsAgree`. `LockInv` (one execution per
  essay, which is not scored before it scores it) keeps the answer that the scores
  were made of; the rest is the tables, band by band (`BandInRange`, `PositionMonotone`).

For any number of requests, executions, tasks, connections and counters
(`ServiceProofs`; the clients are finitely many and of three kinds):

- **`TypeCorrect`**: `Spec => []TypeOK`. `Accounted` is what makes it inductive: a
  client's program counter says whether it waits for a connection or holds one,
  so nothing is leaked or lent twice.
- **`StopsInOrder`**: `Spec => []WorkerStopsFirst`. `StopInv`: the pool follows the phase, and
  from `closeQueues` on requests and executions are idle (`Quiet`).
- **`CountersExpire`**: `Spec => []CounterExpires`, inductive once types are known:
  EXPIRE belongs to the request whose INCR made the counter 1, and a window
  cannot end before it has begun.

- **`LimitIsKept`**: `Spec => []LimitHolds`. The sum over the window, `Through`, is a recursive
  function; that it exists, and how it changes when a tick passes or somebody is let through
  (`SumsExist`, `ThroughElapses`, `ThroughAdmits`), is an induction, which
  `LEMMA Induction` makes one about sets: a subset of `0..n` with 0 that is closed under
  successors contains n, or the successor would be an injection into itself that is not onto. `WindowInv`
  is the argument itself: at most `MaxAttempts` of the living counter lie in the window
  (`Passed`), at most `MaxAttempts - 1` before it.

Only model-checked are the liveness properties (`QueueDrains`, `AcceptedIsSettled`,
`RequestsEnd`, `Progress`): fairness is stated with ENABLED, which is beyond the
prover.

## 7. What is not modelled, and why

Without a protocol to check: prompts, tuning analysis, configuration, error mapping,
the correlation id, indexes, ORM classes, migrations, seeds and scripts. Hashing, JWT and
request schemas are libraries and cryptography; the blacklist of access tokens
has one writer and one reader per token. The gateway keeps nothing between two
requests. The columns `*_last_practiced_at` are written and never read. Erasure severs the run
records of a user (`auth/service.py`, 441); `WritingEval` does not keep whom a record refers
to, so that an evaluation in progress may write a linked one afterwards is not checked. `normalise_text` is regular expressions over characters;
rounding of rates shows in no decision. Within the evaluation pipeline: essay texts,
scores (`SkillProgress` has them) and feedback, time (the monthly
window and backoff delays: a learner's sessions all fall in one month),
soft deletion (`deleted_at` of a session is never set by the code), the delivery
of DLQ jobs (nothing consumes them), and two worker processes, which the code
does not start.
