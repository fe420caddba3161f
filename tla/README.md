# wp-executor: verification project

`wp-executor` (the Rust program under `src/`) is a remote executor. It polls an
upstream queue, claims a batch of jobs under leases, executes each with one of
six built-in capabilities, keeps the leases alive with heartbeats, and posts
one result per job. Nothing is persisted. This directory holds TLA+ models of
it, TLC configurations that check them on small instances, and proofs that
TLAPS checks for all instances.

    tlc -workers 2 -config worker.cfg MCWorker      # any run of the table below
    tlapm WorkerProofs.tla                          # any *Proofs module

`PROJECT.json` lists components, runs, mutants (a plausible bug for every
checked property, which the property's run finds), the map from definitions to
source lines, findings, hazards and theorems. Paths below are relative to the
repository's root, `src/`.

## 1. Inventory

| Component | State | Operations | Hard because of | Correct when | Model |
|---|---|---|---|---|---|
| worker loop, `src/worker.rs` 28-83 | position in the loop; shutdown channel | claim, spawn a batch, join it, idle, leave | shutdown at any moment, claims that fail | batches do not overlap, nothing claimed is abandoned, shutdown ends | `Worker` |
| job task and heartbeat, `src/worker.rs` 86-159 | the result; the stop channel `tx`/`rx`; the heartbeat's handle | reject, dispatch under a hard timeout, stop the heartbeat, report once | three tasks per job, panics, operations that cannot be cancelled | heartbeats cover the execution and nothing after it; every task ends | `Worker` |
| process, `src/cli.rs`, `src/main.rs` | the runtime | build the settings, validate, run or print; signal listener, drop of the runtime | crash, restart, blocking operations; a file edited while it is looked for and read | a valid file is obeyed, the service comes back after a repair, shutdown completes unless the blocking pool holds it | `Worker`, `Startup` |
| upstream client, `src/client.rs`, `src/types.rs` | calls in flight | claim, heartbeat, report | lost, late and undecodable answers; a request served after the client gave up | a lease is executed at most once, results are honest | `Executor` |
| upstream queue (external) | leases, attempts, verdicts | grant, accept, expire | judges requests that name no attempt | | `RemoteQueue`, and with time `Lease` |
| leases in time | lease, timers | heartbeat period, delay, lost calls | timing | nobody else executes a leased job | `Lease` |
| `shell.run` | child, three pipes, two timers | spawn, write stdin, collect, wait, kill | blocking pipes, early exit, a closed stdin, background processes | exit codes are whole and not lost, no deadlock | `ShellRun` |
| `fs.list` | queue, entries | breadth-first walk | a tree that changes, partial failure, the bound | listing exact, bounded, ends | `FsList` |
| `fs.read`, `fs.write` | handles, operations on the pool | open, write in chunks, flush, read | concurrent jobs on one path, late operations | success is on disk, appends survive | `Files` |
| `http.request`, `src/net_guard.rs` | pinned addresses | build, resolve, check, pin, connect, redirect, read the body | DNS changes its answer in between; bit masks; a connection that breaks late | what was checked is reached | `Egress` |
| dispatch, `src/caps.rs` | none | capability to handler; error to result; optional fields of the payload | | | `DispatchReturns` of `Worker`, `OrElse` of `Deadlines` |
| timeouts, `src/worker.rs` 125-148 and the handlers' own | two clocks per job | resolve from payload, job and settings; start, elapse | two timers started at different moments, from different defaults | nobody is cut short of what was granted | `Deadlines` |
| configuration, `src/config.rs` | the configuration | load, override, validate | validated before it is overridden | a worker runs with valid settings of one state of the file | `Startup` |
| `system.info`, `src/auth.rs`, installers | none | | | | not modelled |

Interaction: the loop calls the client, and spawns a task per job and waits for
all of them; a task talks to its heartbeat through a `watch` channel and its
`JoinHandle`; task, heartbeat and loop share the client, and the upstream sees
only requests. Handlers share nothing but the file system and tokio's blocking
pool.

## 2. Modules

**`Worker`** has a step for what runs between two `.await` points. `pc` is where
`run_forever` stands, `task[j]` where `process_one` stands, `heartbeat[j]` the
background task, `tx[j]` the stop channel as the receiver sees it (`open`
holds false; `true`; `closed` = dropped while it holds false). `orphans` are
heartbeat tasks of earlier batches, each with where it stands, as one whose task
panicked may still be in its call when the next batch starts (`OrphanStep`);
`detached` are operations of timed-out handlers still on the blocking pool. The module is open: any batch may be
claimed, any call may return at any time. So its invariants hold for every
upstream, and `Executor` only restricts it. Three loose ends of the code are
modelled as they are: a panic drops `tx` without a send, after which
`rx.changed()` is ready for ever (`spinning`); the drop of the runtime waits for
`detached`; and `JoinError`s are ignored.

What a handler returns is passed on
unlooked-at, so that the results of a handler are a constant
(`HandlerResults`).

**`Executor`** conjoins the worker's actions with the calls they make. A claim
or a result is *sent*, *served* by the queue, and *answered*; the client may
give up at each stage (`GiveUpClaim`, `EndReport`), and a request it gave up on
may still be served (`lateClaim`, `lateReports`). An answer `serde` cannot
decode, for which one job without a field is enough, is a served claim given
up. `trouble` records that a call failed, a kept lease expired or the process
crashed: what holds only of a network in time is stated as `~trouble => ...`.
**`RemoteQueue`** is the upstream as `client.rs` and the fields of `types.rs`
let one see it; whether the result of an expired lease is accepted is left
open. **`Delivery`** is the abstract specification: a job is run at most once
per lease, only if allowed, and its verdict is an outcome one of its runs had,
or its rejection. `Promise` states that the composition implements it
(`grants <- attempts`, the rest by name).

**`Lease`** takes one job, any number of executors, and time. Timers count what
is left of a delay; `Tick` waits for whoever is due. `Budget` bounds the time
failed calls take between two served heartbeats. It shows what `Executor`
assumes as `LeaseKept`.

**`ShellRun`** is the handler from spawn to return, with the command (`op`: it
reads and writes in an order of its own; `intake`: it may close its stdin when
it has read what it wants), the pipes as byte counters, a background process,
both timers and a wait that fails. Stderr is collected like stdout and not
modelled apart. `Return` includes the kill that dropping the `Child` does.

**`FsList`** is the walk on every tree of three paths (and one of five that
tells breadth- from depth-first), with every failure of the operating system;
`lost` records what the operating system did not show. **`Files`** runs jobs on
one path, at the level of the operations `tokio::fs` submits to the blocking
pool: a write is acknowledged when it is submitted, its error surfaces at the
next operation, and dropping the handler does not take it back. **`Egress`** is
the handler of `http.request` from the payload to the result: the guard with its
range checks as written, a DNS that may answer anew at any time, pinning,
redirects, the response, its body, and both timeouts. A host that does not
resolve ends in `blocked` like one with a blocked address, as both are the same
error. What is *global* is stated apart from the code: `IsSpecial` has the
ranges of the address registries, and `Overlooked` those of them the guard lets
through.

**`Startup`** is the process from its command line to the loop. A file, like the
flags and the environment, is a function from the fields it gives to their
values; the operator may write, break, hide or remove it at any step, and `seen`
records the states it was in. A *hidden* file is one whose metadata cannot be
read, for which `path.exists()` is false as for none. That look and the read are
two steps (`FileIsFound`, `FileLoads`), `load_from_file` validates before the overrides,
and the service manager restarts what ended with a failure. **`Deadlines`**
composes it with the clocks on a job: the hard timeout, resolved from payload,
job and the settings the process came by, and the timer a handler starts on its
own, later. `Tick` is a second; a handler whose own timer is due when the hard
timeout is wins, as `timeout` polls it first.

`MC*` modules only declare model values and the inputs of an instance.
Definitions marked "Mutant" are wrong on purpose and not used.

## 3. Runs

| Run | Question | Instance and bounds | Result |
|---|---|---|---|
| `worker` | Do loop, tasks and heartbeats fit together, and does everything end? | 3 jobs: one on the blocking pool, one that may panic, one not allowed. No counters: the state space is finite by itself | 3 invariants, 3 liveness properties hold |
| `worker_panic` | "cancel when the job finishes", `worker.rs:105` | 1 job that may panic | violated (finding 1) |
| `worker_timeout` | "a hard execution timeout", `SECURITY.md:50` | 1 job on the pool | violated (finding 2) |
| `executor` | Can loss, delay or a crash run a lease twice or falsify a result? Without them, is an attempt ever wasted? Can the worker stop claiming, or a job stay open for ever? | 2 jobs (one rejected; one that may panic and works on the pool), 2 attempts, 1 crash | 4 invariants, `Promise` and `JobsSettle` hold |
| `lease` | Do heartbeats hold the lease? | 2 executors; interval 2, lease 8, delay 1, budget 3, client timeout 2, so that a heartbeat can fail between two that arrive | holds |
| `shell_pipes` | Are exit codes whole, and does the handler end with no timer? | a pipe of 2; stdin of 0 to 3, of which the command reads any part, and output of 0 to 4 | holds |
| `shell_stdin` | "Non-empty only on infrastructure errors", `types.rs:63` | 1 byte each way | violated (finding 3) |
| `fs_list` | Is the listing exact, bounded, in order, and does the walk end? | all trees of 3 paths and one of 5; limits 0, 1, 3, 6 (zero, cut off, exact, ample) | holds |
| `files` | What survives concurrent jobs, failures and timeouts? | 3 jobs of every mode, 2 chunks each, old file longer than the new (3), 1 failing write | holds |
| `egress` | Is what is reached what was checked, and what is refused refused for a cause? | first and last address of each range and their neighbours, overlooked ranges included, as literals and as answers; four allowlists (empty, `*`, an exact host, a suffix with a literal), 1 redirect | holds |
| `http_body` | "For network failures we never reach this point", `http_request.rs:90` | as `egress` | violated (finding 4) |
| `settings` | Does a worker run with the right settings, come back after a repair, and give a job its time? | files that restrict, change a default, are invalid or lack a token, are hidden, broken or absent; flags and environment that give nothing, both fields or an empty token; jobs with and without a timeout of their own; 2 states of the file during one start, 3 seconds | holds |

Why these bounds are enough to be of interest: two attempts and one crash let a
late result meet a second lease; three jobs let a batch mix rejected, executed
and panicking tasks and later batches meet orphans of earlier ones; a budget of
3 admits failing heartbeats of different lengths; a new content shorter than the
old shows a missing truncation, and with three jobs one can disturb two. In
`settings` the figures of the code (60, 15 and 300 s; 60 and 30 s of the
handlers) are scaled down in their order; two states of the file are one edit
between the look and the read, or before it.
`files` uses symmetry over jobs (it has no liveness property). Deadlock is
checked except in `shell_*`, `fs_list`, `files` and `egress`, which model one
call, or a batch of them, that comes to an end.

What a few of the properties say, where the name does not:

- `QuietBetweenBatches`: no task is unfinished unless the loop is in its join.
- `HeartbeatSpansExecution`: a job beats as long as its handler runs, and the
  heartbeat of that execution is over, its last call included, when the result
  is posted. An orphan of an earlier execution that panicked is no part of it.
- `ShutdownCompletes`: a requested shutdown ends the process, or a job's
  operation on the blocking pool never returns and holds the drop of the
  runtime for ever. `JobsSettle` has the same exception, as such a process claims
  nothing and is not restarted either.
- `HonestReports`: outcomes are those of the job, not of the attempt. No request
  names its attempt, so a late result of an earlier one is as good as its own.
- `ExitIsKept`: a command that reads all it is sent and exits is reported with
  its exit code, unless a timer elapses or the wait fails. `Completes`: with no
  timer the handler returns, as long as stdin or output fits into its pipe and
  no process left behind keeps stdout open for ever.
- `OneRunPerLease`: executions, and jobs about to be executed, never outnumber
  the leases the upstream granted. `NoLeaseWasted` is the converse as long as
  there was no trouble: every lease is executed and every task that ends leaves
  a settled job, through shutdowns too.
- `LeaseHeld`: who executes or reports holds the lease. It needs
  `InTime == Interval + 2 * Delay + Budget < Duration`. `validate()` checks
  `interval < lease` only, which does not imply it: the next sleep starts when
  the call before has returned, so that the period is an interval and a round
  trip, and one failed call costs up to the client's 60 s, the default lease:
  a call that is lost to the very end does not fit the default settings, and
  the properties do not speak of it.
- `FileIsObeyed`: the settings of a running worker are those of *one* state the
  file was in during the start. The file going away, or out of sight, between
  the look and the read is an error, and not the same as no file. A file that is
  hidden at the look is the same as no file: what it restricts is not obeyed.
- `GrantedTime`: what a sender can count on is the payload's timeout, whatever
  else is set; failing that the job's or the settings', but never more than the
  default of a handler with a timer of its own.
- `ListingIsExact`: nothing that was not asked for, nothing twice, and all of it
  unless the listing says it is truncated. A directory that cannot be opened
  costs no other; an error while one is read ends the job without a listing.
- `BoundIsKept`: `max_entries = 0` gives one entry, and a listing of exactly
  `max_entries` is called truncated; the property says so.
- `UndisturbedIsWhole`, `AppendsSurvive`: what two jobs on one path may expect.
  That concurrent *overwrites* do not mix does not hold and is not claimed.
- `OneLateChange`: a timed-out write changes the file once more at the most.
- `OnlyGlobalReached`: under the guard a connection goes to a global address, to
  one of the ranges in `Overlooked`, or to an exempt host. `RefusedForCause`:
  what is refused has a special address, or none: a name that does not resolve,
  or an IPv6 literal, whose brackets keep the guard from parsing it. No name
  that resolves to global addresses and no global IPv4 literal is refused.

### Fairness

`Worker` assumes weak fairness of the loop, each task, each heartbeat *once its
call is over or its channel has changed*, and the runtime's drop once nothing is
on the pool. The code justifies it: tokio polls what is ready; claim, heartbeat
and report end within the client's 60 s (`client.rs:32`); an execution ends
within its hard timeout; `watch::changed` takes part in tokio's cooperative
budget, so that a spinning heartbeat does not starve the others. No signal,
panic, crash, timer of a heartbeat or restart is owed, nor the return of an
operation on the blocking pool: it may read a pipe nobody writes to, or a mount
that hangs, and no timeout reaches it. `Executor` asks less of
the worker (that some task goes on as long as one can) and adds that crashed
processes are restarted (`Restart=on-failure`, `scripts/install-linux.sh:79`),
that some lease nobody keeps expires, and that the queue does not answer with
nothing for ever while it has jobs (strong fairness, an assumption on the
upstream).
`ShellRun` gives the handler and the command weak fairness and neither timer
any: `Completes` is about ending without them. Nothing is assumed of a
background process. `FsList` assumes that the handler is polled. `Startup` assumes
that a process takes its next step and that the service manager restarts what
failed; the operator and crashes owe nothing. `StartsWhenItCan` is stated for a
file that is eventually left alone: one that is edited for ever can be caught
between two good states each time.

## 4. Findings

1. *A panic leaves the heartbeat behind* (`worker_panic`). `fs_list.rs` converts
   file times in a way that panics outside chrono's range. The unwinding task
   drops `tx` unsent, `rx.changed()` fails at once for ever, `*rx.borrow()`
   stays false: the heartbeat task spins until the process ends.
   `HeartbeatCancelledUnlessPanic` shows that this is the only way.
2. *The hard timeout does not stop everything* (`worker_timeout`). An operation
   on the blocking pool goes on after the timeout was reported. `Files` bounds
   what a write can still do: one chunk.
3. *A broken stdin hides the exit code* (`shell_stdin`). A command that ends
   without reading all its stdin makes `write_all` fail, and `?` turns that into
   an infrastructure error.
4. *A body that breaks off is a success* (`http_body`). `text().await
   .unwrap_or_default()` turns a connection that breaks, or a timeout that
   strikes, after the headers into an empty body of a successful result.

Noted and not given a run: `pfw_capability_not_allowed` (`SECURITY.md:33`) is
not in the text `worker.rs:96` reports; `fs_list.rs:28` says that failing
sub-directories are skipped, which holds for opening and not for reading them; a
background process of a command survives both timeouts (`BackgroundExits`); an
operation on the blocking pool that never returns holds a shutdown for ever
(`ShutdownCompletes`); the guard reaches special addresses although
`config.rs:64-67` has "otherwise non-global addresses" rejected and
`net_guard.rs:20` and `:108` speak of globally routable ones: 240.0.0.0/4,
documentation and translation ranges of IPv6 such as 2001:db8::/32 and
64:ff9b::/96, and more (`Overlooked`); a bracketed IPv6 literal in a URL, global
or not, is never accepted by the guard unless exempt; a settings file in a
directory that cannot be searched is taken for none, and the worker runs without
its restrictions if token and URL come from elsewhere, where `cli.rs:129` says
"Load file if it exists" (`Hidden`); a file without a
token is refused although a flag or the environment gives one (`config.rs:8`
calls the file overridable); `README.md:80` says the worker refuses to start
until the template is filled in, but its values pass `validate()`; a job-level
timeout above 60 or 30 s has no effect on `shell.run` and `http.request`; a
worker whose signal listener cannot be installed ends with exit code 0, which
`Restart=on-failure` leaves stopped (`cli.rs:110`).

## 5. Proofs

Every safety property of the passing runs is a theorem, for arbitrary values of
the constants, under the modules' own ASSUMEs.

| Module | Theorems | Argument |
|---|---|---|
| `WorkerProofs` | `TypeCorrect`, `BatchIsJoined`, `HeartbeatIsScoped`; `LittleIsLeftBehind`, `TasksGoOneWay`, `ShutdownIsFinal` | `IInv`: the type, `QuietBetweenBatches`, and `Tied`, which fixes where heartbeat and channel may stand for every position of the task. The properties alone are not inductive: that a heartbeat does not end under a running handler needs that its channel is still open. `Ahead` counts the steps a task and its heartbeat still have, `LoopLeft` those of the loop after the signal |
| `ExecutorProofs` | `ExecutorTypeCorrect`, `AtMostOneRun`, `LeasesAreUsed`, `ReportsAreHonest`, `ImplementsDelivery`; `ExactlyOnceInCalm`, `PromiseIsWorth`, `VerdictsAreEarned`, `PartsKeepTheirSpecs` | Every step of the composition is a step of `Worker` or stutters (`WorkerStep`), which carries `IInv` over. `EInv` adds where claims and answers are (`ClaimInv`), that task, result and history agree (`TaskInv`), that late results were outcomes (`LateInv`), that unsettled jobs have no verdict and queued ones attempts left (`QueueInv`). `LeasesAreUsed` adds `CalmInv`, which holds as long as there was no trouble: no claim goes astray then, and a job under way stays leased until its result is accepted. `OnceInv` adds that such a job is leased once. The refinement maps each action to one of `Delivery` or a stutter |
| `LeaseProofs` | `TypeCorrect`; and from `InTime`, `HeartbeatsKeepLease`, `NobodyElseExecutes`, `LeasesChangeHandsIdle` | `LeaseSuffices`: at each stage of the heartbeat's cycle what is left of the lease exceeds `Need`, the time until the next request is served. `OneActive` is part of the invariant because a late result ends the lease of an active worker: then the job is settled and nobody else gets it |
| `ShellRunProofs` | `TypeCorrect`, `ExitsAreWhole`, `ExitsAreKept`, `NeverMutuallyBlocked`; `EveryStepCounts`, `SomeoneGoesOn` | `Progress`: what the command does agrees with what it has left, and nothing is collected before the wait. Writing all of stdin before reading stdout is safe for all sizes as long as one of the two fits into its pipe: handler and command never wait for each other, and `Left` adds up the stages and bytes still to go |
| `SettingsProofs` | `TypeCorrect`, `ValidatedSettings`, `SettingsOfOneFile`, `TimeIsGranted`; `StartsFailForCause` | `StartedRight`: at each stage the settings come from a state of the file that was seen, and are valid once they were validated. `TimersRight`: a timer of its own runs only for a capability that has one; `DueIsGranted` then compares the two clocks case by case |
| `EgressProofs` | `BlockedIffSpecial`; `TypeCorrect`, `ReachesGlobal`, `RefusesForCause`, `ConnectsAsChecked`; `RedirectsEnd`, `OneCheckOneConnection` | The masks agree with the registries' ranges, less the overlooked ones, on all octets and segments (arithmetic, block by block); `Pinned`: under the guard the host stays the one asked for, and what is pinned is what was checked and is not blocked |
| `FsListProofs` | `TypeCorrect`, `ListsWhatIsDue`, `StaysBounded`, `ListsNearestFirst`; `WalkShrinks` | `Fresh`: a directory waits in the queue only as long as nothing below it was seen, so that it is read once. `Once`: a path is unread, listed or lost. `Complete`: what is due is listed, about to be read, or waits with its directory. For the order, the queue holds directories of one depth, then of the next, and what is listed is no deeper than what they will add. `Remaining` weighs unopened directories above unread paths |
| `FilesProofs` | `TypeCorrect`, `CreatesOnce`, `SuccessMeansWritten`, `LateAtMostOnce`, `WritesWhole`, `ReadsWhole`, `AppendsAreKept`; `FileKeepsAppended` | `Stages`: handler and pool agree. `Counts`: what reached the file is what was handed over but for the operation on the pool. `LateOnce`: after a late change the pool is idle for good. `Own`: as long as nobody else changed the file it ends in the job's own chunks, and what was read is the file so far. `Appended`: the file holds no chunk that did not reach it, and, as long as all who changed it append, each that did once and in order, whatever stands between them |

Beyond the properties of the runs:

- `PromiseIsWorth` says what `Promise` gives the upstream: runs only of allowed
  jobs and no more than leases, a verdict that is an outcome of a run of that
  very job or its rejection, and that stands. `ImplementsDelivery` passes it on
  to the composition (`VerdictsAreEarned`), loss, late service and crashes
  included. `PartsKeepTheirSpecs` carries what is proved of `Worker` alone over
  to the composition.
- `ExactlyOnceInCalm` is the guarantee of an ordinary day: without trouble a job
  whose handler does not panic is leased and executed at most once, never dead,
  and none is left leased when the process has stopped.
- `LeasesChangeHandsIdle` is what `Executor` takes from the clocks: there a lease
  that ends under a worker (`LeaseKept`) counts as trouble; here, with `InTime`,
  no lease does. Both modules keep their own view of a lease; that the one
  refines the other is argued here and not proved.

**Liveness** stays with TLC: fairness and ENABLED are out of the prover's reach.
What each liveness property rests on beside fairness is proved, for all sizes:
that what is left to do is a natural number no step increases, and that somebody
is never stuck.

| Property | Proved core |
|---|---|
| `TasksEnd` | `TasksGoOneWay`: an unfinished task only comes nearer to its end, and waits only for a heartbeat that has a step to take |
| `ShutdownCompletes` | `ShutdownIsFinal`: the signal is not forgotten, and from it on every move of the loop is towards the drop of the runtime |
| `HeartbeatCancelledUnlessPanic` | `LittleIsLeftBehind`: only panicking jobs leave heartbeats, only jobs on the pool operations |
| `Completes` | `EveryStepCounts` (every step uses up `Left`) and `SomeoneGoesOn` (`HandlerCan` or `CommandCan`; these are the guards of `Handler` and `Command` written out, in place of ENABLED) |
| `WalkEnds` | `WalkShrinks`: every step uses up `Remaining` |
| `StartsWhenItCan` | `StartsFailForCause`: a start that saw one good state of the file fails in no step, and no start ends in a way the service manager would not restart |
| `JobsSettle` | none: it rests on strong fairness of the upstream throughout |

Two forms are owed to the prover. The depth of a path is a recursive function;
`FsListProofs` reasons about it with `SetInduction`, induction over a *set* of
numbers (a consequence of the theorems on finite sets), as the library's
induction takes an operator. It needs that a tree has finitely many paths, which
`IsTree` states: the listing is of a real directory. `AppendsSurvive` says with a
quantifier (`HoldsInOrder`) what filtering the file by job would give.

## 6. Abstractions and what is left out

A result is one of what a handler returns, `timeout` and `rejected`; payloads,
output text, headers, logging and signatures are left out. In `Executor` every
job can be decoded: an instance with one that cannot only has fewer behaviours,
those in which each claim that grants it is given up. A setting is one of a few
values that pass or fail each check. Not modelled: `system.info` (reads only),
HMAC signing (a pure function; its cryptography is out of a model checker's
reach), settings with an interval of 0, an upstream that repeats a job id in one
batch, orphaned heartbeats of one job in the same state (they count as one),
what the one-shot commands print, the installers but for the restart
policy, and a proxy from the environment in `http.request`. The upstream, DNS,
the file system, the command of `shell.run`, tokio's blocking pool, the service
manager and time are external, modelled from how `src/` uses them.

## 7. Plan

Done in order of importance: `Worker`, `RemoteQueue` and `Executor` with
`Delivery`, `Lease`, `ShellRun`, then `FsList`, `Files`, `Egress`, `Startup` and
`Deadlines`, and the proofs of all of them. Left:

1. `Lease` and `Executor` composed for one job, so that `LeaseKept` is derived
   and not assumed.
2. `shell.run` with stderr as a pipe of its own: a command that fills it while
   nothing is collected yet.
