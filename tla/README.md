# A formal model of tds-utils

tds-utils is one person's Unix environment with a number of programs in it. Most
of the tree is configuration and sequential tools. Two programs are concurrent,
keep durable state and promise things about it across crashes: **chores**, a
scheduler of LLM and command jobs, and **dynomark**, a bookmark-filing browser
extension with its local daemon. They are what is modelled here.

All paths below are relative to the repository root.

## Inventory

| Component | State | Operations | Interacts by | What must hold |
|---|---|---|---|---|
| chores: run lifecycle (`chores/src/chores/application/run.py`, `context.py`, `domain/run.py`) | one record per run, the ledger | admit, refuse, pend, start, execute, finish, amend, apply the breaker | files in the run store; one process per run | a run is charged once; a settled record is final; runs of a chore do not overlap; every run settles |
| chores: tick (`application/tick.py`, `domain/schedule.py`) | tick mark, records | close dead runs, consider due slots, fire armings | the run store, spawning runners | a dead run is closed, a slot fires once and is answered, whatever dies in mid-pass |
| chores: policies (`domain/policies.py`) | none | breaker, ceilings, admission order | called by the two above | ceilings hold; the rules' precedence |
| chores: armings (`application/arm.py`, `tick.py`) | ARMED records | arm, cancel, fire, adopt | the run store | one arming per chore; an arming becomes one run at most |
| chores: run store (`adapters/fs_store.py`) | run directories, ledger, locks, sentries, notifications | check-and-set, append, lock | files and flock | the check-and-set is atomic; a crashed holder's lock is freed |
| chores: processes and controls (`adapters/process.py`, `application/status.py`) | process groups, kill markers | spawn, wait, alive, signal, kill, pause, resume, prune | signals | a kill is recorded; a lost child is signalled |
| dynomark daemon (`dynomark/daemon`) | SQLite: jobs, saves, entries, placements, batches, events, latest tree | ingest, enrich, choose, propose, withdraw, record receipts and snapshots, undo, retain | a socket to the extension's native host; two threads over one store | a save is filed once; FILED is what the browser did; each batch gets one verdict; an undo reverts what it says |
| dynomark extension (`dynomark/extension`) | in-flight batch cursor, outbox, the browser's tree | submit saves, apply batches, acknowledge, send snapshots, replay | native messaging; a worker the browser may stop at any time | one batch at a time, in order; an APPLIED receipt is exact; every offer is answered |
| adherence, bookmark-organizer, goldfish, lib, lmde, bin, log-hoarder, git-hooks, ops, sandbox, dotfiles | files | sequential tools and configuration | -- | not modelled, see the end |

What is hard in chores: a runner, the tick, another runner of the same chore and
the operator act on the same files without a server between them. A process may
die between any two writes. `ps` may fail. The tick judges a snapshot. The runner
and the tick may both believe they own a run's end.

What is hard in dynomark: the browser may kill the extension's worker between any
two awaits, and a link that is lost takes requests with it that may have been
served. So everything is sent again, and each side must recognise what it has
done already. In the daemon the job loop holds a copy of a job across model calls
of minutes while the socket lane changes the same store. The user edits the tree
that batches and their inverses name by path.

## Modules

| Module | Models | Runs |
|---|---|---|
| `ChoresStatus`, `ChoresPolicies` | the statuses and their classes; breaker, precedence of the admission rules | (used by the others) |
| `ChoresRun` | the runs of one chore, the tick's dead-run pass, kills, pauses, crashes | `crash`, `prompt`, `settle` |
| `RunLifecycle` | abstract: what the run store promises of a record and its rows | refined by `ChoresRun` in `crash` |
| `ChoresCeiling` | prompt runs of several chores against a ceiling | `ceiling` |
| `ChoresArm` | one-time runs: ask, cancel, fire, abandon, adopt | `once` |
| `CronSchedule`, `ChoresTick` | the cron search, and the slots of one chore through the tick's passes | `slots` |
| `BatchLedger` | abstract: what the contract promises of write batches | refined by `DynomarkBatch` in `batch` and `decided` |
| `DynomarkBatch` | a batch from the daemon's outbox to the tree and back | `batch`, `decided`, `stuck` |
| `DynomarkJobs` | the jobs of one page, from ingest to FILED or FAILED | `jobs`, `dropped` |
| `DynomarkUndo` | what a batch does to the tree, and its inverse | `undo` |
| `*Proofs` | the proofs, one module per module proved about; `PromisesProofs` is about the two abstract ones | |

`MC*` modules hold the instances. The modules do not share a state space: their
products would be out of TLC's reach and their hazards do not meet. Where one
relies on another it says so: `ChoresArm` hands a run over where `ChoresRun`
begins; `ChoresTick` and `ChoresCeiling` follow the same runners through the same
places and look at slots and at tokens only; `DynomarkJobs` takes from
`DynomarkBatch` that an offer is answered (a fairness assumption there, a checked
property here), and `DynomarkUndo` that one batch is under way at a time
(`BatchLedger`).

## Plan

All the modules planned have been written. Left out, in the order they would be
worth adding: a ledger of bytes (torn tails and what the next append makes of
them), the extension's outbox with its limits, writer binding as an operation of
its own, `prune` beside an amendment. See "What is not modelled".

## The run lifecycle: ChoresRun

One runner process per member of `Runs`, which is also the run's id. Every
separate read or write of the run store is a step, so another process or a crash
can come between any two; what the code does under the record's own lock
(`transition`) or in one file operation is one step.

| Variable | In the code |
|---|---|
| `pc`, `verdict` | where a `run_chore` call stands, and the status it is about to record |
| `status`, `order` | `run.json`'s status, and the runs in the order of `started` |
| `young` | PENDING or later records not older than `tick_interval_sec` |
| `child`, `termed` | the spawned process, and the groups sent SIGTERM |
| `marker` | the `KILL` file of a run directory |
| `rows` | `ledger.ndjson`, per run |
| `lock` | `chore_lock` |
| `sentry`, `paused` | `paused.d/<chore>` (and who wrote it), `PAUSED` |
| `posts` | the breaker's notifications and who posted them |
| `tickPc`, `scan`, `suspect`, `saw` | the tick's pass over its snapshot of the records |
| `killPc`, `victim` | one `chores kill` |
| `crashes` | how many processes have died |

The data is cut down to statuses: no usage, reasons, artifacts or clocks. Time is
`young`: a run leaves it, oldest first, one tick interval after its admission.
`SlowStart` says whether a runner may still be PENDING by then. `PsFaults` says
whether `ps` may fail to vouch for a live process (`process.py:212-228` answers
False then). A child that is "gone" has exited and been reaped; an exited child
that nobody has waited for still answers to its pid. An AGENT run takes the same
steps as a COMMAND run; the store-wide `admission_lock` it also takes matters
only across chores.

Two steps are merged where nothing can tell: the facts of an admission are read
together (the pause rule outranks overlap, and nobody else admits a run of this
chore meanwhile), and taking the lock for an amendment includes reading the
record. The branch of `run.py:250-255` that returns FAILED without having called
`on_start` needs a backend that is neither an agent nor absent from the registry;
no such backend exists, so it is not modelled.

| Run | Instance | Shows |
|---|---|---|
| `crash` | two command runs, one crash, no slow start, an operator who kills | `ChargedOnce`, `NoOverlap`, `BreakerDoesNotMiss`, `ChildKillIsRecorded`, `SettledIsFinal`, and the refinement `KeepsPromise` |
| `prompt` | two prompt runs, `ps` fails, slow starts, the operator kills, pauses, resumes | `ChargedOnce`, `LedgerAgrees` |
| `settle` | two command runs, one crash, slow starts, fairness | `LostChildIsSignalled`, `EveryRunSettles`, `TrueOutcomeWins` |

Bounds: two runs are what a race needs: every shared file is either per run or
met by two parties at a time (two runners, or a runner and the tick), and a
failure threshold of two makes the breaker's history span both. One crash covers
"a process died between these two steps" for every pair of steps; `MaxCrashes`
bounds it. In `crash` and `settle` every run that nobody kills fails, which is
what the breaker and the closing tick look at; `prompt` also has runs that
succeed. Runs are interchangeable, so the safety runs use them as a symmetry set;
the liveness run does not. Deadlock is not checked: an instance really stops once
every run has finished and the operator has nothing left to do.

Fairness: the operating system schedules runners and the `chores kill` process,
time passes (`Age`), the installed timer calls tick for ever, and a runner that
waits on its child ends it at the budget's seconds (`process.py:141-151`), so a
child somebody waits for exits. Nothing is assumed of launches, operators,
crashes or of a child whose runner is gone: that child is the exception in
`EveryRunSettles`.

`RunLifecycle` has no processes, locks or crashes: a record moves along its state
machine, a final record is charged, and a run closed as INTERRUPTED may be charged
once more by its own runner and then corrected to what the ledger says.
`KeepsPromise` maps a runner's place to "away", "starting" or "running" and leaves
`status` and `rows` as they are.

`ChargedOnce` has two halves. `NeverChargedTwice` is about the rows there are;
`SettledIsCharged` about one that is missing: a death between the record and its row
does lose it, and only INVALID records are repaired, but nothing else loses one. With
a crash, `crash` checks both; `prompt` does while the tick closes live runs. The type
invariant `TypeOK` is proved and has no run.

What the model says is **not** true of the code (each a variation of a run above
that TLC refutes; no run of the project repeats it):

- Two runs of a chore may execute at once when a runner needs longer than a tick
  interval to reach RUNNING (`SlowStart = TRUE`): its PENDING record is then no
  longer live to an admission (`context.py:108`). Hence the condition of `crash`.
- A child whose runner died between spawning and recording it runs on, and nobody
  signals it: the store does not know its group (`run.py:378`). Hence the exception
  in `LostChildIsSignalled`; that the run itself settles is `EveryRunSettles`.
- A killed prompt is recorded INTERRUPTED, not KILLED (`KillIsRecorded`): the kill
  ends the runner itself (`status.py:349`) and the tick closes what is left.
- A breaker pause that rests on a tick's wrong INTERRUPTED may be written after
  the amending runner has looked for it, so nobody notes that it was false
  (`FalseBreakerIsNoted`; `context.py:396`).
- The pause sentries are read in `admit` only, so a run admitted before `chores
  pause` still reaches RUNNING after it, where `CHORES.DESIGN.md:39` says that no
  run starts.
- Two processes that finish together can both find no sentry, both write it and
  both raise the alert, where `context.py:369` says "exactly once".

## The ceilings: ChoresCeiling

A prompt or agent run reserves the tokens it declares while it is in flight and
counts with the tokens it used once it has ended; an admission adds both up over
every other run and refuses what does not fit. The module's runs belong to
different chores and meet only in the ceiling.

| Variable | In the code |
|---|---|
| `pc` | where a runner stands between the admission lock and its last row |
| `status`, `usage` | the record, and the usage in it |
| `spent` | what the provider charged, whether or not anybody recorded it |
| `rows` | `ledger.ndjson`: per run the tokens of its rows |
| `admission` | `admission_lock`, store-wide |
| `window`, `tickWindow` | the ledger rows an admission read, before it reads the records |
| `tickPc`, `considered`, `launched`, `known` | the pass, and its `Launched` reservations |
| `closing` | the run the tick is closing, under its chore's lock |

An admission is two reads (`context.py:232-237`): the ledger, then the records; a
finish is two writes in the other order (`run.py:467`, `498`). The model keeps
the four apart. Abstracted: tokens are the only dimension, the global ceiling the
only scope, every budget the same, nothing leaves the 24-hour window; the records
of all chores are read in one step; SUCCEEDED stands for every outcome of a
runner. Chore and backend scopes, calls, seconds and dollars are the same sum over
fewer rows.

`ceiling` runs two typed and two launched runs against room for two, with a tick
that may close a live run and one death anywhere. `CeilingHolds` and
`CountsEveryRunOnce` speak of the states before the tick first closes a run, whose
spend is then unknown until its runner amends it. `Accounted` speaks of every state,
closes and amendments included, and `TickCountsOnce` of the runs the pass under way
has launched, whatever was closed before.
Four runs are two more than fit, so an admission that counts one run too few is
caught; budget 2 with spends 1 and 2 tells a reservation from a usage.

Not true of the code:

- An armed run the pass launched adopts a run id its chore had already, so its
  reservation is never dropped and the pass counts it twice (`context.py:159`);
  put a run of `Due` into `Armed` and `TickCountsOnce` fails.
- A runner killed after its completion takes the spend with it, for the tick books
  it with zero tokens; two of them and the ceiling is crossed by more than one
  budget, against `CHORES.DESIGN.md:42` (`CeilingWithinOne` with `MaxCrashes` 2).
- The same sentence fails without a crash: `max_output_tokens` bounds the answer
  (`run.py:211`) while usage counts the prompt too, so two runs in flight can both
  overrun what they reserved. Put a spend above `Budget` into `Spends` to see it.

## Armings: ChoresArm

One chore, several asks for it, the tick, the runners it spawns and an operator
who cancels. `chores run --at` writes an ARMED record; every other hand on that
record is a check-and-set from ARMED, without the chore's lock except in the
runner. A tick that still reads ARMED spawns again, so several runners may hold
one run id. A launch that raises, which nothing in `_fire_armed` catches, ends the
pass as its death does (`Die(Tick)`).

| Variable | In the code |
|---|---|
| `askPc` | where each `arm_chore` call stands |
| `status`, `due` | the record, and whether `start_at` has come |
| `rows` | the statuses of its ledger rows |
| `fired` | how many runs an arming became (a ghost) |
| `pc`, `arming`, `fate` | runner, tick and operator: the place, the record, the status it is to get |
| `sees`, `scan` | the definition as loaded, and the tick's snapshot of the records |
| `lock` | `chore_lock` |
| `chore`, `battery`, `edits`, `crashes` | the definition, the power, and the bounds |

`end_arming` is two steps wherever it is called: the check-and-set (`EndSet`) and
the row (`EndRow`). Tick, operator and runner share them and differ in the status
they bring (`fate`). An admission is one step and ends in "run", "wait for mains"
or one of `Refusing`; what the rules look at belongs to `ChoresRun` and
`ChoresCeiling`. A runner stops at `Adopt`.

`once` has two asks, a runner, battery, one edit of the definition and one crash,
and shows `OneArming`, `UsedOnce`, `EndIsFinal` and, under fairness,
`NoneStaysArmed`. Two asks compete for the one arming; the one runner is spawned
again after it left, so a second one for the same run id is met too. One edit
takes the chore to disabled or gone at any point. Fairness: the timer starts ticks
and the operating system runs ticks, runners and asks on. The lock is not assumed
fair, no edit, cancel or power change is assumed, and the property speaks of
laptops that stay on mains in the end, since battery keeps an arming by design.

Two runners that hold the same run id at the same time, which a slow adoption and
the next tick make, are beyond a liveness run of this size: `UsedOnce` and
`EndIsFinal` are proved for any number of runners.

## The slots: CronSchedule and ChoresTick

`CronSchedule` is the search of `Schedule.next_after` (`domain/schedule.py`) over a
calendar whose hours, days and weeks are constants, with its jumps over hours and
days that cannot match and cron's either-day rule; `SlotsAreTheMatches` compares
it with the minutes that match, found one by one. The calendar of the instance
has three minutes to an hour and two hours to a day, which exercises every jump;
time zones and daylight saving are not in it.

`ChoresTick` is the way of one chore through the passes.

| Variable | In the code |
|---|---|
| `schedule`, `valid`, `battery`, `now` | the definition, the power and the clock, in minutes |
| `records`, `executing` | the chore's run records with the slots they stand for, and whether the newest still runs |
| `mark` | `mark_tick`: the last pass that was completed |
| `pass` | the pass under way: its place, the mark it read, the slots it found due and missed |
| `launched` | runners spawned that have not reached their own admission |
| `firstMark`, `answered` | history: when the chore was first seen, and which slots a run or a refusal stands for |

`slots` runs four schedules through four minutes (0 to 3) with any two of: a pass
that dies or a launch that fails, a runner that vanishes, a change of power, an
invalid edit, a typed run, a run from an arming. It shows `SlotsAreTheMatches`,
`OneRunPerSlot`, `MissedIsNotReplayed`, `LostOnlyTwoWays` and, under fairness,
`EverySlotIsAnswered` (440,199 states). Four minutes hold two slots of the densest
schedule: one missed beside one due, or one due and one that comes while the pass is
under way. A fifth minute, with a third slot, takes TLC longer than five minutes; the
theorems (`LostOnlyTwoWaysHolds` and the others) have no such bound. "Invalid" stands
for whatever keeps the chore from being considered: errors in the definition, which
leave an INVALID record, and a disabled chore, an unreadable ledger or config.yaml,
which leave none; a runner that finds its definition so ends the same two ways.
Fairness: the timer
starts passes and they go on, a spawned runner reaches its admission, a run ends,
and a broken definition is repaired some day; nothing is assumed of the power, so
the property speaks of a machine that stays on mains in the end.

Not true of the code:

- A slot may be lost (`NoSlotIsLost`; `CHORES.DESIGN.md:192` has a chore fire "at
  its next slot"). `LostOnlyTwoWays` says how. The MISSED record is written before
  the slot due beside it is launched (`tick.py:336`) and moves the window past it,
  so a pass that dies between the two, or a launch that fails, loses that slot,
  and so is a slot that comes between the verdict and the record. And while a
  chore has no record that consumes a slot the window opens at the tick's mark,
  which a failed launch does not hold back.
- With `SlowStart = TRUE` a runner may still be on its way to its record when the
  next pass looks: the slot is launched again, into two runs (`tick.py:359`).
- DEFERRED_BATTERY is recorded by the pass or by the runner, and when the power
  goes between their admissions, by both or by every pass (`tick.py:365`). The
  slot survives, which is what is checked.

## Batches: DynomarkBatch and BatchLedger

The daemon keeps batches durably and offers the oldest undecided one to a
connection that has sent a snapshot. The extension's lane applies one batch at a
time, one operation after another, notes `started` before and the outcome after
each browser call in one durable cursor, and sends a receipt. When its worker
dies, the tree and the cursor are what is left; when the link is lost, all that
was on it is sent again. The two reads by which a held offer has the open batch
answered from its cursor (the cursor, then the tree) are one step, `Hold`, since
nothing else writes the cursor while the lane is held; so are the three that follow an answered receipt (the cursor's release, the
close, the snapshot), whose deaths in between are deaths at their edges.

| Variable | In the code |
|---|---|
| `batch`, `latest` | the daemon's batch rows and the latest tree snapshot (`sqlite_store.py`) |
| `session` | what the daemon knows of the connection: a snapshot seen, a replay asked for |
| `wire`, `inbox`, `lost` | frames on their way, and requests to send again (`connection.ts`) |
| `tree` | of each batch, the operations whose effect the browser's tree holds |
| `cursor` | the in-flight batch cursor in the extension's storage |
| `phase` | the connection: down, in its connect routine, up (`onConnected.ts`) |
| `queue`, `held`, `open`, `pump` | the lane: frames waiting, frames held, the open batch and its receipts in flight, the apply attempt |
| `now`, `replayDue`, `left` | snapshot times, the backed-off `events.replay`, and the bounds |

Abstracted: what an operation does to the tree is one fact per operation ("already
there"); a user's edit shows as the skip, failure or refusal it may cause. What
operations really do is `DynomarkUndo`. A request is never given up (`MAX_RESENDS`;
the assumption bounds losses by three).

`BatchLedger` is what the contract promises: batches touch the tree one at a time
in the order offered, each gets one verdict, an APPLIED receipt is the whole of
what the batch changed, a PARTIAL one reports nothing that was not made.
`ImplementsLedger` maps the daemon's rows and the tree to it.

| Run | Instance | Shows |
|---|---|---|
| `batch` | one placed batch of two operations and the inverse an undo or a failure mints; one lost link, one failing operation, one busy answer, one refusal | `UndoTreeIsCurrent`, `ImplementsLedger` |
| `decided` | two placed batches of two operations; one death of the worker, one skipped operation, one snapshot of the user's edits; fairness | `AppliedIsExact`, `ArchiveIsPreBatch`, `ImplementsLedger`, `EveryBatchIsDecided` |
| `stuck` | two placed batches, one busy answer; fairness | refutes `EveryBatchIsDecided` |

Two batches are what "one at a time" and a foreign cursor need; two operations,
what a cursor in the middle needs. The faults are dealt to two runs because their
product is out of reach; within a run they meet in every order. Fairness: the
daemon's lane serves what arrives, the worker's event loop runs the lane, the
answers and the timers, the reconnector says hello again. Deaths, losses and busy
answers are bounded, so the property reads: decided, once the faults stop.

`stuck` is a finding. The daemon answers `busy` to the receipt of a batch's second
copy after the first receipt was recorded and its cursor cleared.
`answerFromCursor` then calls `release`, which returns because the batch is still
open, and every later offer is held until the worker restarts.

Seen beside it, without runs of their own (change the bounds of `decided` to see
them):

- The lane may also be stuck for good. Two copies of a batch are in the lane; the
  first is refused, or fails, and its receipt is recorded while the second has
  begun and saved a cursor; the worker dies. Every later worker finds a cursor of
  another batch that is neither finished nor failed, so `answerFromCursor` has no
  receipt to give, and holds every offer; the daemon never offers the decided batch
  again, and nothing else clears the cursor. (`Deaths` and `Rejects`, or `Deaths`
  and `Fails`, at 1: `EveryBatchIsDecided` fails.)
- After a lost link the second of two copies may be taken up when the first is
  APPLIED and its cursor cleared. It starts over and does an operation the first
  had skipped, after the verdict. (`Losses` and `Skips` at 1: `ImplementsLedger`
  fails.)
- `LaterOpsNotTried` fails with one failing operation: a copy of a PARTIAL batch
  goes on from the cursor after the receipt was recorded, so operations the receipt
  calls not tried do run. `BatchLedger` therefore lets a PARTIAL batch change the
  tree.

What `batch` and `decided` show holds for their faults, then, and not for these
pairs.

## Jobs: DynomarkJobs

The jobs of one page (one identity), which two bookmarks carry. The socket lane
and the job loop are two threads over one store; each unit of work is one step,
and the loop's model calls lie between steps.

| Variable | In the code |
|---|---|
| `job`, `told` | the job of each bookmark, and its newest copy in an event or an answer |
| `save`, `entry`, `placement`, `absent` | the records the loop reads and retention drops |
| `resting` | jobs in their backoff |
| `batch` | the batches proposed, with the answer the extension has for them |
| `latest`, `conflict` | the latest tree, and whether it carries another writer's marker |
| `tree`, `page`, `wire` | the browser: where each bookmark is, whether it still has the page's URL, ingests on their way |
| `loop`, `ran` | the loop's place and the job it carries; what this pass has run |
| `left` | the faults and user actions that may still happen |

A batch is its filing operation here, and its answer comes once: how it travels is
`DynomarkBatch`. Jobs of different pages meet only in the loop's turn. Two things are
merged: `PickUp` reads the save and stores the job in one step, and `Ingest` tells a
new job with its event, where the code tells it in the answer (`ingest.py:45-46`); a
new job is not settled, which is what `SettledIsTold` is about.

`jobs` starts with one bookmark in Follow Up and the other still to be saved, filed
already, or elsewhere, and lets any two of nine things happen: a model's error, a
daemon's death or a defect, a retry, a move to the graveyard, an edited URL, a
writer conflict, a batch that fails or is refused, one too big to send, retention's
thirty days. It shows `OfferMatchesJob`, `FiledMeansFiled`, `SettledIsTold`,
`NoSecondFiling` and, under fairness, `EveryJobSettles`. Two attempts tell "once
more" from "given up", three batches leave room for a retry beside a duplicate.
Fairness: the loop's thread runs, backoffs end, the lane serves what is due, and an
offer is answered (which `decided` shows).

`dropped` is a finding. A filed bookmark's URL is edited; thirty days later
retention, which judges a page by its URL, drops its records; the page is saved
again, and the duplicate check, which judges by the node, finds the old copy. The
new job asks no model and then misses the placement, on every retry again.
The same property fails in a race without the edit: the sweep reads the jobs in one
unit of work and drops the records in another (`retention.py:94`).

## Undo: DynomarkUndo

A whole (small) bookmark tree: a function from ids to nodes, each with its parent, its
title (of `Names`; `""` is a bookmark's, which nothing reads) and its place among its
siblings, which grows with every addition and move. The daemon builds
operations that name folders by path; the extension decides each against the tree
it finds; an undo, or the automatic inverse of a batch that failed midway, is built
from the receipt and a tree read after it, minus what the guard finds changed or
locked.

| Variable | In the code |
|---|---|
| `tree`, `minted` | the browser's nodes, each folder's in their order, and its id counter |
| `batches` | the first batch, its inverse, the inverse of that: operations, scope, receipt, undo report |
| `phase` | offered, being applied, decided |
| `snapshot`, `since` | the latest tree, and whether it is from after the newest receipt |
| `locked` | folder flags |
| `edits`, `faults` | the bounds |

`undo` files a bookmark into two new folders, parks one, adds a folder, or moves a
folder into a new one below Dynomark or on the bar, each on a tree Dynomark has not
touched and on one it has, with up to two inverses, one refused browser call anywhere, and one edit of the user's at any
time: a move, a rename, a deletion, a new folder or bookmark, a lock of any owned
folder (201,602 states). It
shows `TypeOK` (the tree stays a tree), `UndoRestores`, `UndoIsHonest`,
`InverseStaysInside` and `NothingBuried`. With two edits TLC met no violation in
the first million states; that run does not end in time. Two inverses are the undo
of a batch and the redo of it; what a third one does is the first of the conditions
below.

Left out: the creation of a bookmark and the items of a proposal that merge or remove
(`Operations` has the filing, the parking, and an item that adds or moves a folder);
and the receipt that carries no tree, because the frame would be too long
(`ackBatch.ts:27-30`), after which an automatic inverse is built on the latest tree
(`receipt.py:148`).

Conditions that are the code's, not the model's:

- With `MaxBatches = 4`, undoing a redo, two properties fail. `NothingBuried`: a
  folder that was created, removed and moved back is removed once more as a plain
  move to Graveyard, for only the undo of a creation asks whether the folder is
  empty (`batch.py:498`, `526-533`); what the user put in meanwhile is buried with
  it, against `DYNOMARK.DESIGN.md:243`. `UndoRestores`: the inverse of a redo that
  failed midway is built on the tree before the redo, where the folders it had moved
  back have no path, so their steps are dropped as `node_moved`.
- `UndoRestores` asks that no two sibling folders share a title (in Graveyard they
  may). Where they do, a path names the first of them, so redoing a batch (undoing its undo) may put a
  node into the user's folder of that name, and no report says so.
- `UndoRestores` asks that no folder took the place of one of its name (`Replaced`).
  A batch creates a folder B on the bar and moves the folder A into it; the user
  renames A to B; the undo moves it back to the bar and removes the created one. The
  undo of that undo puts the created B back behind the renamed one, which its next
  operation then reads as the way to B: the browser refuses to move a folder into
  itself, and the batch ends PARTIAL though nobody interfered (`applyBatch.ts:135`
  resolves a target when its turn comes).
- `UndoIsHonest` speaks of edits before the undo begins to be applied. A folder the
  user locks after the undo was offered is moved all the same and is not in the
  report: locks are read when the inverse is built.
- Deciding an operation and the browser call are one step. An edit between the two
  is a matter of milliseconds the extension cannot close.

## Proofs

Eight modules hold proofs; each is of a module whose runs came first, and TLC
checked each inductive invariant on an instance before it was proved.

| Module | Properties of the runs it proves |
|---|---|
| `ChoresRunProofs` | `ChargedOnce`, `LedgerAgrees`, `SettledIsFinal`, `KeepsPromise`, `ChildKillIsRecorded`, `LostChildIsSignalled`, `NoOverlap`, `BreakerDoesNotMiss` |
| `ChoresCeilingProofs` | `Accounted`, `CountsEveryRunOnce`, `TickCountsOnce`, `CeilingHolds` |
| `ChoresArmProofs` | `OneArming`, `UsedOnce`, `EndIsFinal` |
| `ChoresTickProofs` | `SlotsAreTheMatches`, `OneRunPerSlot`, `MissedIsNotReplayed`, `LostOnlyTwoWays` |
| `DynomarkBatchProofs` | `ArchiveIsPreBatch`, `UndoTreeIsCurrent`, `AppliedIsExact`, `ImplementsLedger` |
| `DynomarkJobsProofs` | `OfferMatchesJob`, `FiledMeansFiled`, `SettledIsTold`, `NoSecondFiling` |
| `DynomarkUndoProofs` | `InverseStaysInside`, `TypeOK`, `UndoIsHonest`, `NothingBuried`, `UndoRestores` (the first inverse) |
| `PromisesProofs` | (of the two abstract modules) |

**`ChoresRunProofs`** holds for every set of runs, every kind, threshold, number of
crashes, faulty or sound `ps`, slow or prompt runners and every operator, unless a
theorem says otherwise. `TypeCorrect`, `RunsAreChargedOnce`, `LedgerAgreement`,
`SettledIsFinalHolds` and `Implements` (`Spec => KeepsPromise`, the refinement) rest on `Invariance`. None of the properties is inductive. Whether a
row may be appended depends on where the runner and the tick stand and on who holds the chore's lock, so
`IInv` says, beside the types: the lock is held exactly in the critical sections
(`LockMatches`); at every place of a runner its verdict, its record's status and its
rows fit (`ByPlace`); the rows fit the status (`ByStatus`), with the one gap between
an amending row and the amended record; the tick in its critical section works on a
run it has just closed (`TickInv`). For the missing row `SettledIsChargedHolds` adds
`Owed`, run by run: who still owes the row, or whose death lost it (`OwedKept`).

Four more invariants build on it, one for each question:

- `KInv`, what a kill leaves (`ChildKillIsRecordedHolds`): a child lives between its
  spawn and its collection, a signal follows its marker, and a runner in whose place
  the signal arrived carries KILLED from the verdict to the record.
- `LInv`, what becomes of a child whose run the tick closed
  (`LostChildIsSignalledHolds`): what the scan saw RUNNING has begun, and what the
  tick decided to close as RUNNING is gone and does not come back. The theorem asks
  that `ps` does not fail: a tick that cannot see the child of a dead runner closes
  the run and leaves the child alone.
- `OInv`, who may execute beside whom (`NoOverlapHolds`): of the unforced runs one at
  most is engaged, that is, between its admission and the end of its child, because
  an engaged run is either PENDING and young or RUNNING, so live to the next
  admission. Here neither a failing `ps` nor a slow start is allowed: the first lets
  the tick close a live run, the second lets an admission overlook one.
- `BInv`, who applies the breaker (`BreakerDoesNotMissHolds`): when the history trips
  it and nothing is paused, whoever made it trip is still on the way to the sentry.
  The theorem is about a chore nobody resumes; `chores resume` lifts the pause the
  breaker has put there, on purpose. The breaker is a function of the newest
  failures and successes. `ChoresPolicies` states it by the set of their positions,
  which can be reasoned about, and `BreakerFormsAgree` (evaluated with every run of
  `MCChoresRun`) compares that with the list as `policies.py` builds it.

**`ChoresCeilingProofs`** holds for any finite set of runs and any budget, cap and
spend. `Invariance` has the mutual exclusion of admissions and `Books`, which says
for every place of a runner what its record and rows are, with the run the tick is
closing as the exception that needs the chore's lock. `EndedIsBooked` follows: a
run whose runner came to its end has its spend in the ledger once, in its own row or
the one that amends the tick's; and with it `SpendIsAccounted`. The rest is about
sums. A sum over a set is a fold; induction over sets cannot be cited, so the lemmas
on sums argue by a smallest counterexample (`FoldsAgree`, `FoldExists`), and
everything else compares one run's share. `CommittedInvariance` gives each share:
before the tick has closed a run, a run weighs its budget while it is in flight and
its spend afterwards (`Straight`). `AdmissionCountsOnce` needs no hypothesis. For a run
that the pass under way has launched the same holds whatever earlier passes closed
(`LaunchedKept`: this pass has done its closing, and the run was not there then), so
reservation, record and row weigh it once (`LaunchedWeighsOnce`).
`PassCountsOnce` is about a pass that fires no arming (`Armed = {}`), because an armed run adopts an id that had a record and is counted twice. `CeilingIsKept` is
about runs that never spend more than they declare (`Spends \subseteq 0 .. Budget`),
because a declared budget bounds the answer only; both are the divergences listed in
the section on ceilings.

**`ChoresArmProofs`** proves for any number of asks, runners, edits and crashes
`TypeCorrect`, `OneArmingHolds`, `UsedOnceHolds` and `EndIsFinalHolds`. Its
`Invariance` has three parts beside the types. `IntentKept`: a process that deals
with an arming carries one, and the status it brings is a final one. `AskKept`: an
ask that was granted holds the lock and there is still no ARMED record, because
only such an ask writes one. `StoryKept`: a record that is unused has neither run
nor row, nor anyone who owes it a row; one that became a run has no row; one that
was ended has its row or exactly one process that owes it. `StatusMoves`, the lemma
between them, lists the only three ways a record's status changes.

**`ChoresTickProofs`** begins with the search. `SearchFindsEverySlot` shows, for every
calendar and schedule, that `next_after` with its jumps and the loop over it find
exactly the minutes that match. What a recursive function computes is out of the
provers' reach by induction, so the proof shows that the function that names the
first match satisfies the same equation, and that two solutions that differ
somewhere would differ later too, hence at no last place (`NextAfterFinds`,
`SlotsBetweenAreTheSlots`).
`OneRunPerSlotHolds` and `MissedIsNotReplayedHolds` rest on `TickInv`: a slot that a
pass is still to act on, that a launched runner carries, or that the last record
keeps for mains power, is in no record that a run of it would repeat. They ask for
`~SlowStart`; TLC refutes both without it. `LostOnlyTwoWaysHolds` does not. Its
`SlotInv` says that a slot in hand which the window has passed is answered,
reported, or behind a MISSED record (`StillInHand`); a lost slot is one of them.

**`PromisesProofs`** is about the abstract modules. `LifecycleChargesOnce`: the
lifecycle of a run charges it once, for its record alone decides which rows it may
have. Of the ledger of verdicts, for any number of batches and operations:
`LedgerHolds` (reports are true, batches act in their turn only), `OneVerdict`,
`NothingAfterApplied`; the invariant adds that batches are offered in order and that
nothing undecided reports anything. What it says holds of `DynomarkBatch` wherever
the refinement does: wherever `LedgerIsImplemented` proves it, and on the instances
of `batch` and `decided`.

**`DynomarkBatchProofs`** holds for any number of batches, operations, deaths, lost
links, busy answers and copies. Nearly everything is a matter of which requests are
still on their way and not of where, so the lemmas `LaneEffect`, `LinkEffect` and
`DaemonEffect` reduce each of the twenty-odd steps to what it does to the set
`InFlight`.

- `ShapesHold`: requests, answers, offers and records keep their shape.
- `ArchiveIsPreBatchHolds` needs `KnownInv` (what is in play was proposed) and
  `InHand`: of the undecided batches only the cursor's has touched the tree, and the
  cursor says what it changed or started to; the pump works from that cursor; an
  acknowledged receipt is of a decided batch. Then a receipt that calls its tree the
  one before the batch saw nothing of it (`PreBatch`).
- `UndoTreeIsCurrentHolds` needs `Truth` (nobody reports what the tree lacks) and the
  one invariant about order, `InOrderInv`: a snapshot on the wire that will be kept
  holds what the receipts before it report; a lost snapshot that is sent again comes
  after a newer one.
- `AppliedIsExactHolds` adds `Exact`: the cursor of an undecided batch changed every
  operation it passed. It is stated for a tree that skips nothing: after a lost
  link, a late copy of an APPLIED batch does what the first copy had skipped, and the
  tree then holds more than the receipt reports. `decided` checks the property with
  one skip and no lost link.
- `LedgerIsImplemented`: `Spec => ImplementsLedger`. `LedgerInv` adds that a batch is
  in play only in its turn, that numbers are given in order, and that nothing went
  wrong in the tree. It is stated for a tree that takes every operation, because
  with a lost link the refinement is false otherwise: the late copy of a batch that
  was APPLIED with a skip, PARTIAL or REJECTED goes on after the verdict (the list
  above). `batch` and `decided` check the refinement with one failure, one refusal
  and one skip.

**`DynomarkJobsProofs`** proves for any number of bookmarks, attempts, batches and
faults: `TypeCorrect`, `OffersMatchJobs`, `FiledIsFiled`, `SettledIsAnnounced`, and
the action properties `NeverFiledTwice` and `FilingStands`. The heart of its
`Invariance` is `LoopKept`: the copy of the job that the loop carries across its
model calls is still the stored one. No lock says so. It is so because a job with
work left waits for no batch (`Free`), hence no receipt and no withdrawal touches
it, and is not FAILED, hence no retry does. `FreeChange` and two lemmas beside it
name the three ways a step touches jobs and batches.

**`DynomarkUndoProofs`** proves for any trees, plans, names, edits and faults:

- `InverseStaysInsideHolds`, for any number of batches. The invariant says of every
  batch that its operations are ones the protocol has and the boundary lets through.
  Nothing is asked of the receipt or of the tree an inverse is built on: a step names
  only folders that its operation named, and the one operation whose parent is
  outside, the creation of an owned root, is not reverted (`StepSound`).
- `UndoTyped`, for any number of batches. `TypeInv` says that the tree is placed and
  grounded (of any nodes, one is in a folder that is not among them), that no id or
  place is above `minted`, and that receipts fit their batches. That ancestors exist,
  reach the bar and meet no node twice follows from being grounded (`AncestorsOf`,
  `AncestorsAbove`); that each step keeps it so, from `WithTree`, `RenamedTree` and
  `WithoutTree`: only a move into one's own descendants would break it, and the
  browser refuses that.
- `UndoHonest`, for a batch, its undo and the redo (`MaxBatches <= 3`). `Apart`: no two
  operations of a batch move one node. `Shaped`: the first batch creates folders down
  one path and moves at most one node to its end; the undo removes and moves in the
  reverse order; the redo goes down the path again. `Covered`: an undo has a step or
  a reason for every change of what it undoes. `LandedInv`: while nobody edits, what an
  operation has put where it belongs is still there. It is the invariant's heart: a
  step moves neither that node nor a folder on the way to it (`OffTheWay`), so the
  path it was put at still leads there (`ResolveStays`).
- `UndoBuriesNothing`, for the same three batches, of trees and plans in which no folder
  but the bar's own is called Graveyard (`OneGraveyard`; the instance's are such).
  `Discreet` says of each operation that it moves a bookmark, or to a place out of
  Graveyard, or takes there only a folder it finds empty, and never moves Graveyard
  itself. The user's edits do not undo that: no edit makes a folder of a bookmark, and
  what an undo asks of a folder it asks when the step is taken.
- `FirstUndoPutsBack`, and from it `UndoRestored`, for a batch and its inverse, an undo
  or the automatic one of a batch that failed midway: left alone, every step of the
  inverse is taken and every node is where it was. `TraceInv`: the tree is the one
  before the batch but for what the receipt tells (`Traced`), so what `_invert` reads
  from the receipt is so. `SnapInv`: the snapshot an undo is built on is that tree.
  `RewindInv`: the inverse has a step for each change, the last change first, and
  after each step those changes are reverted and the others still stand (`Reverses`,
  `Rewinds`). Since a batch goes down one path, whatever stands is above the next step
  (`EarlierAbove`), hence no step disturbs the path of a later one, and a created
  folder is empty when its turn comes (`UndoneIsEmpty`), so each step runs
  (`UndoRuns`). TLC checked them on two batches with folders of one title side by
  side. The theorem needs neither `Unambiguous` nor `~Replaced`: the
  guard compares ids, and a path the batch found leads there again. Those two are for
  the undo of an undo.

`_invert`, `_missing_folders`, paths and ancestors are loops, recursive functions in
the model. That they have values at all is `Iterates`, and what holds of each value is
`IteratesStay` and `CountUp`; all argue by a first place where it would fail.

The assumptions are those of the constants, named in the modules that declare them;
TLC evaluates them in every run. A hypothesis of a theorem (`~PsFaults`,
`~SlowStart`, no resume, `Armed = {}`, `Spends`, `Faults`) is a condition on the
environment which the code does not enforce; each is named in the theorem and
explained above.

Only model-checked:

- liveness (`EveryRunSettles`, `TrueOutcomeWins`, `NoneStaysArmed`,
  `EverySlotIsAnswered`, `EveryBatchIsDecided`, `EveryJobSettles`), which is out of
  the prover's reach;
- `AppliedIsExact` with skipped operations, and `ImplementsLedger` with failing, refused or
  skipped operations;
- `UndoRestores` of the redo. The first inverse goes up the path the batch went down,
  and its steps lie apart; the redo goes down a path that the undo put together again,
  whose folders are others than the names say where `Unambiguous` or `~Replaced` fail;
- `UndoIsHonest` and `NothingBuried` beyond the redo. With four batches `NothingBuried`
  is false (above); `UndoIsHonest` holds on the instance, but the undo of a redo has
  another shape than `Shaped` describes.

## What is not modelled

- chores: definitions, catalog, backends, redaction, CLI, TUI and the scheduler's
  installer -- parsing, HTTP and presentation without state of their own. Dry runs
  change nothing. `prune`, torn ledger lines, `notify_on` posts, artifacts, time
  zones and daylight saving.
- dynomark: conversations and completions, diff proposals and their vetting, search
  and embeddings, the SQL itself, writer binding beyond the refusal it causes, the
  panel and chat surface, capture, the outbox's text limits; wire formats and
  adapters of models and pages.
- adherence is the largest program of the repository: a static analyser, pure
  functions over parsed sources in one process. A model of it would be its text
  over again, with nothing a step could interleave with; bookmark-organizer,
  goldfish and the `lib` scripts are sequential tools over files or model calls.
- lmde, bin, log-hoarder, git-hooks, ops, sandbox, dotfiles: shell and
  configuration.

So the modelled code is a small share of the repository's lines: the share that is
concurrent, durable, or both.
