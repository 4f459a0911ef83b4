# A TLA+ model of reclaimd

reclaimd is a daemon that reads whole USB flash disks at a low duty cycle, so
that their controllers reclaim ageing blocks before they hang or drop off the
bus. It adopts the disks it finds, scans each of them in rounds on an adaptive
schedule, backs off from slow blocks, keeps its state in small files, may write
slow blocks back inside a filesystem freeze, and serves a status page.

This directory models that program: TLA+ modules, the TLC configurations that
check them on small instances, and theorems TLAPS proves for instances of any
size. File and line references are to `src/`; Go files without a directory are
in `src/internal/reclaimd/`.

## The system

| Component | State it keeps | Operations | Talks to |
|---|---|---|---|
| Supervisor (`supervisor.go`) | the map of `diskState`s under one mutex; flags Scanning, Testing, stopReq, scanReq; the wake channel | `tick` (discovery, sweep, adoption, starting rounds), `runRound`, `runSpeedTest`, `RequestScan`, `RequestSpeedTest`, `StopScan`, `SetEnabled`, `Forget`, `loadKnownDisks`, `thawLeftovers` | store, scanner, schedule, platform, server callbacks |
| Schedule (`scheduler.go`) | one record per disk: interval, next scan, suppression window, cursor, streaks | `Next`, `Due`, `Postpone`, `RebaseIfClockUnsynced` | pure; called by the supervisor, against a wall clock somebody may set |
| Scanner (`scanner.go`, `baseline.go`, `latency.go`) | one round: latency map, deferred bitmap, retries, counters, cursor | `Round`, `readSettled`, `reprobe`, `onDropout`, `finish` | device, duty cycle, external-I/O monitor, store, rewriter |
| External I/O (`duty.go`) | the kernel's counters at two earlier moments, this process's own I/O since, how long it has been yielding | `Sample`, `WaitIfBusy`, `Begin`/`End`, `SelfRead`, `SelfWrite` | scanner, rewriter, kernel counters |
| Duty cycle (`duty.go`) | drift, rest ratio | `Pay`, `Evaluate` | scanner |
| Rewriter (`rewrite.go`, `freeze_*.go`) | one phase: offsets, one guard with a timer per mounted filesystem | `Run`, `freezeAll`, `withHeld`, watchdog, `Release`, `thawAll`, `verify` | kernel freeze, marker file in the store |
| Refresher (`refresh.go`) | the confirmed identity, an open handle, the offset of a whole-disk rewrite, the dropouts so far | `Refresh`, `CheckNotInUse`, `rewriteRange`, `WaitForReattach` | identity, device; a command of its own, in a process of its own |
| Store (`store.go`) | the state directory: per disk the files written whole, two logs and the latency maps; `frozen.json` | atomic writes, appends, pruning, `DeleteDisk`, the counters a start derives | everything that persists |
| Hub and publisher (`sse.go`, `server.go`) | subscribers' channels, the ring of recent events, pending block updates | `Subscribe`, `Publish`, `Close`, `onLive`, `onBlock`, `drainPending`, `RunPublisher` | supervisor callbacks, browsers |
| Page (`web/app.js`, `web/stream.js`) | its copies of the disk's detail and profile, the running round's map, the frame count, queued blocks | `boot`, `onHello`, `onState`, `onResync`, `onProgress`, `refreshAll`, `refreshDetail`, `loadProfiles`, `loadLive` | hub, HTTP handlers |
| Identity (`platform*.go`, `sysfs.go`, `geom.go`, `device.go`) | none: it reads the host | `Discover`, `assignKeys`, `FindByKey`, `OpenDevice` | kernel, refresher, supervisor |
| Daemon (`cmd/reclaimd/main.go`, `notify.go`) | process lifetime | start, signals, shutdown | all of the above |
| Speed test (`speed.go`) | one result | read a few stretches flat out | device, supervisor |
| Reports, configuration, charts | none that matters between steps | formatting, parsing, drawing | store, HTTP |

What makes it hard:

* One goroutine ticks; each round and each speed test is a goroutine of its own;
  HTTP handlers run beside them. They share `diskState`s under `Supervisor.mu`,
  but decisions outlive the lock: candidates are copied before they are
  considered, metadata is copied before it is saved, and a goroutine keeps its
  pointer after the map has dropped it.
* A round's result is several files written one after the other. The process, or
  the machine, may die between any two of them, and a stick may be pulled at any
  time.
* A freeze outlives the process that made it, and the state directory may live
  on the frozen filesystem.
* A dropout must open a suppression window whatever happens next, since reading
  the disk again at once is what the daemon exists to avoid.
* Everything that is requested or scheduled must eventually happen, though every
  device can hang, vanish and come back.
* Dates are absolute and the clock is not: it may stand in 1970 until NTP lands,
  or be set back by years.
* Whether a disk is in use, and whether a read was slow by itself, is inferred
  from counters that count this process too, at moments some time apart.
* A stick has no name that is its own. It is known by a serial that others may
  share, a port, or a place in the SCSI tree that is given out anew each time.

What makes each component correct:

* *Supervisor*: one reader per stick; flags that say which goroutine runs; what
  is on disk agrees with memory between saves; adopted and excluded disks are
  kept; windows are honoured; requests are served, stops end rounds, disks keep
  being scanned.
* *Schedule*: a window is never shortened by an outcome or a repair; the rest a
  recorded round earned its disk is not cut short by anything but a request; a clock
  that was wrong cannot postpone a round for ever, and under one that was right a
  repair takes away no more than jitter.
* *Scanner*: it backs off as it promises, no segment is owed for ever, the cursor
  stays on a segment boundary, an interrupted round loses nothing it still owes.
* *External I/O*: a round never yields to itself, waits for nobody for ever, and a block that was slow alone stays slow whoever else uses the disk.
* *Rewriter*: a write-back never loses a filesystem's own write; every freeze is
  named by the marker until it is undone; every freeze ends, crash or no crash.
* *Refresher*: it writes the confirmed disk and no other, changes no byte of it,
  leaves no hole it does not own up to, and ends.
* *Identity*: no two disks under one key; a stick comes back under its own.
* *Store*: a round that is listed can be looked at, events keep their ids and links,
  half a line costs one line more, an exclusion stays, and only the user deletes the
  history of a disk that has been scanned.
* *Hub and page*: a slow page does not hold up the daemon, and whatever it misses,
  the map it draws has no holes once it has caught up, and it does not go on
  showing a round that is over, with the exceptions the code makes and the
  properties name.

## Modules

| Module | Models | Lines of the source |
|---|---|---|
| `Supervisor` | discovery, adoption, ticks, rounds and speed tests as goroutines, the page's requests, the files of a disk, shutdown and restart | `supervisor.go`, parts of `scheduler.go`, `store.go`, `main.go` |
| `Cooldown` | the abstract promise: a disk that failed under a reader rests before the next one | what `scheduler.go` and README.md promise |
| `Schedule` | one disk's schedule with its arithmetic, under a clock that is set | `scheduler.go`, parts of `supervisor.go` |
| `Scanner` | one disk's rounds: order, backing off, deferring, the reasons to stop, cursor and debt | `scanner.go`, `recordRound` |
| `Yield` | a round beside other users of its disk: yielding, giving up, and telling a slow block from a shared disk | `duty.go`, `readSettled`, parts of `rewrite.go` |
| `Rewrite` | the freeze, the batch, the watchdog, the marker, crashes and the thaw at the next start | `rewrite.go`, `thawLeftovers` |
| `Identity` | the bus, the keys of the disks on it, how a disk is found again | `platform.go` |
| `Refresh` | the refresh command: its gates, its loop, dropouts and reattaching (over `Identity`) | `refresh.go`, `WaitForReattach` |
| `History` | the files and logs of one disk, across kills and power cuts | `store.go`, `persistRound`, `loadKnownDisks` |
| `Stream` | what a page sees of a round: blocks and snapshots through the publisher and the hub, beside what the page fetches | `server.go`, `sse.go`, `web/app.js`, parts of `supervisor.go` |
| `MCSupervisor`, `MCSchedule`, `MCRewrite`, `MCRefresh`, `MCStream` | values for the constants, symmetry and a view | |
| `SupervisorProofs` | theorems about `Supervisor`: types, readers, windows, files and the refinement of `Cooldown` | |
| `ScheduleProofs` | theorems about `Schedule` | |
| `ScannerProofs` | theorems about `Scanner` | |
| `YieldProofs` | theorems about `Yield` | |
| `RewriteProofs` | theorems about `Rewrite` | |
| `HistoryProofs` | theorems about `History` | |
| `RefreshProofs` | theorems about `Refresh` and `Identity` | |
| `StreamProofs` | theorems about `Stream` | |

The daemon's modules meet in the files and in the reader. `Supervisor` says when a
round runs and what becomes of the file of its schedule; `Scanner` and `Yield` are
inside a round, `Rewrite` inside its last phase, `Schedule` is the arithmetic
`Supervisor` keeps as constants, `History` the rest of the directory, `Stream` what
of all that reaches a browser. `Refresh` is another process on another day.

A definition whose comment begins with "Mutant:" is the definition below it with a
mistake somebody could make. No specification uses it; `PROJECT.json` names, for each
property of a run, the one that breaks it.

### Supervisor

A Go map of pointers is modelled as one: `Ptr` is the set of `diskState` values,
`disks` the map from keys to them, `st` what they hold. A goroutine keeps its
pointer when the map has dropped it, so `job[p]` is the goroutine of `p`, with
the statement it executes next and the copies it carries from one lock to the
next. An action is one critical section of `Supervisor.mu`, one file written by
the store, or one thing the outside world does:

* `TickBegin` is `tick` up to its unlock; `Pass` and `Consider` are
  `considerDisk` of one candidate, under the lock again, so requests, goroutines
  and `Forget` run between them;
* `OpenRound` to `RoundEnd` are `runRound`, `recordRound` and `persistRound`,
  file by file; `OpenSpeedTest` to `SpeedEnd` are `runSpeedTest` and
  `recordSpeedDropout`;
* `RequestScan`, `RequestSpeedTest`, `StopScan`, `SetEnabled` with `SaveToggle`
  and `Forget` are the requests that are granted; a refused one changes nothing;
* `Terminate` and `Restart` are a cancelled context and a new process, which
  loads `meta.json` and `schedule.json` of every record.

`RoundReturns` ends a round that is being read with any outcome; with "cancelled"
only when its context is done (`Cancelled`), by a stop or by a shutdown. A request
that comes between the round's copy of its meta and the save of it (`CopyMeta`,
`SaveMeta`) is overwritten in the file, as in the code.

A deadline is the number of clock ticks left until it, since the code only
compares deadlines with now and with each other. `window` and `kept` are history
variables: what the disk has earned, and what the user was promised.

`Cooldown` says the same of windows without goroutines or files, and
`CooldownPromise` is the refinement: `Supervisor` with `reader`, `owed` and
`window` read off its state implements it.

### Schedule

A date is the time left until it by the wall clock, and so `SetClock` moves every
date there is, and `Tick` moves all by one; `Floor` stands for the zero time, which no
setting of the clock brings back. Each goroutine is one action: `Consider` is
`considerDisk` of an adopted disk, repair included, `RoundDropout` is `onDropout`,
`RoundEnd` and `RoundEndedUnread` are the two ways through `recordRound`, and
`RoundFailed` is the round that does not get there, for it could not open its device,
warm up or line up. `Merged` is the merge with `progress.json` in `persistRound`. `Next` computes the
interval (rounded half away from zero, clamped), the window, the jitter and the
resumption of half a pass as the code does. Histories, by true time: `owed` is what
is left of the window the disk has earned, and `rest` what is left of the rest the
last recorded round earned it; `moved` says that the clock was set since the plan
was written.

### Scanner

Offsets are block numbers. The loop over `order[segIdx:]` is the set `left` with
the rule `IsNext` that picks the next segment, which is `segmentOrder`: what is
owed in index order, then a rotation from the cursor. `ReadFine`, `ReadSlow`,
`ReadDanger`, `ReadMedia` and `ReadEnds` are the branches of the loop over the
blocks of a segment, each with the wait it may be cancelled in; a read is only
the branch it leads to, after `readSettled` has done with it. `Probe` and
`Rewrite` follow in the order and under the conditions of the code, and `Finish`
is what the round hands to `recordRound`, which saves the debt before the
schedule. `cursor` and `owed` are what lies on disk between rounds. When the
next round begins, and whether it may, is the supervisor's.

### Rewrite

One goroutine per disk, one guard per filesystem, one marker file for all of
them. `frozen` belongs to the kernel: it outlives the process, and a power cut
clears it. A block is one bit, `content` is what the medium holds and `wanted`
what the filesystems last wrote; the write-back of a stale buffer makes them
differ. The timer is armed before FIFREEZE is asked for (`Freeze`), so the
watchdog may fire before `FreezeReturns`, between blocks, or during `Release`;
a block holds the guards' locks from `Lock` until it is written. While the state
directory is on a frozen filesystem (`Home`), a write of the store waits.

A filesystem may be unmounted whenever the rewriter has no descriptor of it, between
two batches too. What FIFREEZE then meets at its mount point is the filesystem
beneath, and that is modelled as a freeze that fails. Mounting it again while the phase
goes on is `mount_mid_phase`.

### Yield

The monitor subtracts what it knows to be its own from what the kernel counted, and
looks at the difference twice: `Sample`, over a segment or a wait, and `Begin` and
`End`, around one read. Both are kept as what was counted since that look, less the
round's own, with the age of the look. `Others` and `Reset` are the world: somebody
reads or writes, or the device re-enumerates and its counters start at zero, after
which a look may find them behind, which says nothing, or caught up. `WaitIfBusy`,
`Wakes` and `StopsYielding` are the ladder of waits, its spell and what the sweep and
the rewrite make of giving up; `Begin`, `Read`, `End` and `EndFailed` are
`readSettled`, with the window that one read leaves open for the next (`Fresh`).
`truth` is history: who really used the disk, and when.

### Identity and Refresh

`bus` gives each attached disk a port, a SCSI host and a device name; host and names
are the least free ones, and an open handle keeps its own busy after the disk has
gone (`Held`), which is why a stick may come back as `sdb`. `Key` is `assignKeys`:
the serial, or the port and the size where there is no serial or several nodes
answer with it, with the address of a card reader's slot.

The phases of `Refresh` are the statements of `Refresh` and `rewriteRange`: resolve,
`CheckNotInUse`, `Open` with `O_EXCL`, then `Top`, `ReadBlock` or `SkipBlock`,
`WriteBlock` or `WriteFails`, `Dropped`, the wait, the second `Open`, and `Sync`. A
handle goes by the node that was resolved, whatever disk has that node now. The
world attaches, pulls out, mounts and unmounts at any moment, and the operator may
cancel. The content of a block is named by where it was born, so that a
write to the wrong disk, at the wrong place or of an unread buffer shows.

### History

A file written whole is one step, for a crash within `writeAtomic` leaves the old one
or the new one. A log is its lines, `loose` of them not yet on the medium, `torn` if
it ends in half a line; a line that follows half a line makes one line with it, which
nothing parses. `SaveFull` to `FoldBytes` are `persistRound`, one write each. `Killed`
ends the process and leaves the files; `PowerCut` also takes some or all of what is
loose and may leave half a line. `Start` is `OpenStore` and `loadKnownDisks`, which
derives the next event id from the log and skips a disk whose file it cannot read.

### Stream

One disk, which the page has selected, and one page. A value is the number of the
write that recorded it, so a map is the newest number of each block and "older"
means something; a frame carries the blocks recorded since the last one.

* *Round*: `ScanStart` to `ScanEnd` are `runRound` as far as a page hears of it,
  with the two halves of `OnChange` apart, `dropPending` and then the event.
  `live` is `st.live` and `snap` the round `st.Live` is of.
* *Publisher*: `Drain` and `SendFrame` are a tick of `RunPublisher`, which
  publishes after it has let go of the lock.
* *Hub*: `PublishProgress` and `PublishEvent` are `Publish` for one client.
  `inbox` is the client's channel, the connection and the queue of `EventSource`
  in one; `Cap` bounds it, and a lost connection loses all of it.
* *Page*: a handler runs to its first `await`. `OnHello`, `OnState`, `OnResync` and
  `OnProgress` take the next message; `refresh` and `load` are the requests under
  way, and `DetailReturns`, `ProfilesReturn` and `LoadReturns` go on behind them.
  `DetailAnswered` and `LoadAnswered` are the daemon's side: what it answers is
  what it holds at that moment, which is later than the request and earlier than
  the page's next step. The list of disks is only drawn, and so is left out but
  for the `await` in which a round's end waits before `dropLive`.

It assumes that every request is answered and that the answers to refreshes come in
the order they were asked for. A round may begin before the last one has announced its
end, but not end before it: at most one end is still to be announced, which is a bound.
`ShowsTheTruth` and `MapWhole` speak of a page that has
heard all there is and waits for nothing; what it shows before that is on its way.

Nothing is switched off. Where the code lets the page down, a history variable notes it
at the step that does, and the properties except that and nothing more:

* `stale`, of the time between rounds, until the next one announces itself: `SCAN_END`
  met a full channel and so did its resync (sse.go:121-124, the common case, for
  nothing is taken out between the two); a frame the publisher held came behind
  `SCAN_END` (server.go:158-161); or something was lost to a page that has not had its
  first hello, which it takes for the end of its own fetch (app.js:102-107). Then the
  page may go on showing the round that is over.
* `raced`, of a round, until it ends: a frame was lost to a page with no frame to count
  from (`Uncounted`); a frame came while `loadProfiles` was fetching; a refresh dropped the
  map while `loadLive` was in flight; or the round began with something of the
  last one left (`Fresh`), as it may, since `Scanning` is cleared before the end is
  announced (supervisor.go:351-362). Then the page's map may keep holes
  until the next gap or round.

## What is checked

| Run | Properties | Shows |
|---|---|---|
| `supervisor_safety` | `GoroutineFlags`, `OneReader`, `StoreAgrees`, `KeptOnDisk`, `WindowHonoured`, `CooldownPromise` | every request, death and restart over one stick and two `diskState`s; no reader inside a window the files keep, and the refinement of `Cooldown` |
| `supervisor_live` | `RequestServed`, `StopEnds`, `KeepsScanning` | requests are served or withdrawn, a stop ends a round of whatever length, disks keep being scanned, with the two halves of `SetEnabled` apart |
| `schedule_safety` | `WindowHeld`, `NotBeforeItsTime`, `RepairTakesOnlyJitter`, `KeepsComing` | a clock that is in 1970, right or ahead, and set at any moment, a jitter longer than a day, rounds that fail before they read |
| `scanner_safety` | `DebtHonoured`, `SweptOrOwed`, `ResumesWhereStopped`, `Recovers` | what rounds without end leave behind, and that a disk left alone is read whole again |
| `yield_safety` | `SlowAloneStands`, `SlowHasEvidence`, `NeverYieldsToItself`, `GivesUpOnlyOnSustainedUse`, `WaitEnds` | a round, other users of its disk and counters that lose their place |
| `rewrite_safety` | `NothingLost`, `FrozenIsMarked`, `ThawnOnce`, `FreezeEnds` | one disk, two filesystems, crash or power cut at any step |
| `refresh_safety` | `KeysDistinct`, `HandleIsOurs`, `ContentKept`, `NoHole`, `ComesBackUnderItsKey`, `RefreshEnds` | three sticks on two ports, two of one serial; mounts, dropouts, renames and unreadable blocks at any moment |
| `history_safety` | `RowHasProfile`, `RefsHold`, `ExclusionKept`, `TornCostsOne`, `HistoryOnlyForgotten` | three rounds, a kill between any two writes, a power cut that tears the logs |
| `stream_safety` | `MapWhole`, `ShowsTheTruth`, `QuietAfterEnd` | two rounds, or one and a lost connection or death of the daemon; a channel that is often full, resyncs that are lost, a publisher that is late, fetches that cross |
| `supervisor_forget_mid_tick` | `OneReader`, violated | `Forget` inside a tick, then two rounds on one stick |
| `schedule_stale_window` | `NeverHeldForYears`, violated | a window written under a clock that ran ahead comes back after the repair |
| `history_unread` | `HistoryOnlyForgotten`, violated | a file that cannot be read at one start costs the whole history later |

Types are proved (`Supervisor`, `Schedule`, `Scanner`, `Yield`, `Rewrite`, `Refresh`, `Stream`)
and are not checked again by the runs.

Where a property fails in a race that can be told apart by a constant, the race is
switched off in the passing run: `Disturbances` of `Supervisor` names what may go wrong
at an awkward moment, and so do `Faults` of `Rewrite`, `Rots` of `History` and
`RaceOpen` of `Refresh`. A passing run has every one under which its properties are true.
`Schedule` and `Stream` have no such constant: what the code does wrong is in the run,
and the properties say what is left that holds.

### The findings

* **Two readers** (`supervisor_forget_mid_tick`). `tick` considers a candidate
  after `Forget` has dropped it from the map, and starts a round on it; the next tick
  finds the stick again and starts another. supervisor.go:40-41 has the flags because
  "two readers on one stick would only measure each other".
* **Held for years** (`schedule_stale_window`). `RebaseIfClockUnsynced` "repairs a
  schedule written against a bogus clock" (scheduler.go:225), but not the copy of the
  window in `progress.json`. The next round that ends merges it back
  (supervisor.go:480-483) beside a fresh `NextScanAt` and `LastRoundAt`, so that
  neither symptom the repair looks for is there, and the disk is suppressed for as long as the clock was ahead.
* **History swept** (`history_unread`). `loadKnownDisks` skips a disk whose
  `meta.json` or `schedule.json` is damaged or was written by a newer version. `tick`
  then files the stick as new, over the old record, and if it is pulled within
  its probation the sweep deletes everything there is of it. README.md:98-100: "Anything it has adopted, or
  that you excluded by hand, is kept until you delete it from the status page."

### Known to fail

Each of these is a race or a divergence in the code as it stands. The first group is
switched off in the passing runs, and was seen as a counterexample of the property
named with the constant named; whoever changes that code should switch it on.

* `crash_window`, `WindowHonoured`. `onDropout` syncs the window to `progress.json`
  because "losing power one second from now must not lose the 24 hours"
  (scanner.go:488-490), but `loadKnownDisks` never reads that file: only the end of
  the next round does.
* `speed_unadopted`, `WindowHonoured`. A speed test may run in probation and its
  dropout opens a window "with the same 24-hour window behind it"
  (supervisor.go:912-914); adoption replaces the whole schedule (290).
* `toggle_mid_save`, `KeptOnDisk`. `SetEnabled` saves a copy of the meta after its
  unlock (736), which may be older than an adoption saved in between; after a restart
  the disk is unadopted and may be swept, against README.md:98-100.
* A second disk in `Rewrite`, `FrozenIsMarked`. Rounds of two disks overwrite and
  delete each other's `frozen.json` (rewrite.go:495 and 526), while "the next start
  thaws whatever the marker names" (README.md:271-274).
* `mount_mid_phase`, `NothingLost`. The mounts are listed once for the whole phase
  (rewrite.go:298).
* `marker_unreadable`, `FrozenIsMarked`, `ThawnOnce` and `FreezeEnds`. A start that cannot
  read `frozen.json` logs it and thaws nothing (supervisor.go:146-149).
* `RaceOpen`, `HandleIsOurs`. Between the resolution of a disk and the open of its
  node another stick may take that name; `O_EXCL` and the serial do not tell.

The second group is in the passing runs as it is. The properties are stated so as to be
true with it, and name what they except.

* A lost resync (`ShowsTheTruth`, `stale`). `Publish` answers a full channel with a resync on
  the same channel, which is as a rule still full (sse.go:121-124): events, which
  sse.go:90-92 calls not droppable, are dropped, and nothing remembers it. After a lost
  `SCAN_END` the page shows the round as running until something else has it ask again.
* A late publish (`QuietAfterEnd`, `ShowsTheTruth`, `stale`). The publisher drains under the lock
  and publishes after it, so `dropPending` does not reach the frame it holds, and that
  frame lands behind `SCAN_END`, which server.go:83-86 is there to prevent.
* The boot gap and the crossing fetches of the page (`stale`, `raced`): see `Stream` above.
* A jitter longer than a day (`RepairTakesOnlyJitter`). The repair takes a plan that is further
  off than an interval and a day for one "written against a bogus clock"
  (scheduler.go:225). At the default of 30 days a tenth is 72 hours, and a schedule
  that was right is repaired; what it loses is the jitter.
* A round that fails before it reads (`NotBeforeItsTime`). It records nothing
  (supervisor.go:369-382, 420-425), so the disk is as due as before and is opened again
  at every tick, 30 seconds apart, for as long as it fails.
* An exclusion made while a round is being recorded (`StoreAgrees`). The round saves
  the meta it copied before (supervisor.go:517-526); memory keeps the exclusion and
  the next start has forgotten it.
* A debt that is dropped (`DebtHonoured`). README.md:64-66 says that nothing is dropped; a round that
  ends on a near-hang, the breaker, a dropout or another process's I/O saves only what
  it deferred itself, and the rotation reaches the rest later.
* `SlowSkipSegments` is documented as
  "at least 32 MiB of clearance past a slow block" (config.go:115-116), but
  it sets bits of the next round's debt and skips nothing in this one: `continue sweep`
  goes on with the segment that was just deferred (scanner.go:362-371).

### Bounds, and why they are enough

* *Supervisor*: one key, since disks share only the lock, the tick and the
  process, and nothing in a `diskState` refers to another key; two `diskState`s,
  since one may be in the map and one held by a goroutine the map has dropped
  (one in `supervisor_live`, where nothing is forgotten).
  Windows of one and two ticks make a near-hang's window end inside a dropout's
  and a stale one outlive a new one; `AdoptAfter` of one tick lets probation be
  both over and not. `MaxToggles` is 1: one `SetEnabled` between its halves.
  `MCView` forgets what a `diskState` holds that nothing refers to.
* *Scanner*: five blocks in segments of two, so that there are three segments,
  the last one short, and the cursor can wrap from a full one and from the short
  one. A slow block defers one segment more, a dangerous one two, and two
  dangerous ones end a round; the breaker needs a sample of three and a share of
  one third, so that it can trip and can stay quiet. The constants of the code
  (2000 blocks and one in twenty) are the same condition with other numbers.
* *Rewrite*: two filesystems on the disk, one holding the state directory, is
  the least that has one frozen while another is being frozen; three blocks make
  a batch of one, a batch of two and a second batch. One death: a second one
  finds the same state the first one left.

* *Schedule*: lengths are ordered as in the default configuration where the order
  matters (a near-hang's window inside a dropout's, which is a day; retries no longer than
  the shortest interval), the jitter included, which may be longer than a day
  (`JitterPart` is 1 for that: three units of jitter and two of a day). The three offsets put the clock before `SanityEpoch`, right, and ahead by more
  than a window; in `schedule_stale_window` it is so far ahead that a window outlives
  an interval and a day.
* *Yield*: a rate of one unit a tick tells a burst from sustained use; a spell of three
  ticks is longer than the longest wait of the ladder, so giving up takes several rungs;
  two re-reads make a first, a middle and a last reading of a block. `MaxCount`
  stops a counter and its age at three.
* *Refresh*: a stick, one of another make and the same capacity, and one that answers
  with the first one's serial and is larger, on two ports, so that one has to be out for
  another to be in; two blocks make a written one and one still to write; one dropout is within the budget and
  a second one is over it. Four disks, two of them slots of one reader, exceed what a
  run of five minutes visits.
* *History*: one full map and two coarse ones are kept over three rounds, so that both
  limits are passed; four events are an adoption and a round with a healed block. A
  second cut finds what the first left, half a line included.
* *Stream*: a channel of one, which is full as soon as one frame waits. Three frames
  are the least that makes a gap: one that is counted, one that is lost, one that
  shows it. Two writes make an older value of a block; two rounds, a map of a
  round that is over. One refresh at a time: the next message waits until it is
  through, which a page's overlapping refreshes do not. `MCBudget` has either two rounds or one
  and a break, and a second round shares two writes and frames with the first. The instance stops when
  its bounds are used up, and so deadlock is not checked. The theorems hold for a
  channel of any length and any bounds.

### Fairness

* `Supervisor`: the clock, the tick and each goroutine's next step, but for the end of a
  round that reads: such a round may go on for ever, and only one whose context is done
  returns, since a read ends within the controller's watchdog and every wait in the
  code hears the context. So a stop is what ends its round in `StopEnds`.
  Nothing is assumed of the page, of the sticks or of crashes; `supervisor_live`
  has none, for a process that dies over and over serves nobody.
* `Scanner`: `WF(Step)`, the goroutine of a round keeps going and the supervisor
  starts the next one. `Recovers` starts when the disk gives no more trouble
  (`calm`), whatever it gave before; stops go on, at the earliest after the first
  segment of a round, for a round that is stopped before it has read one segment
  can repeat that for ever.
* `Schedule`: time passes, whoever reads comes to an end, and the tick considers the disk
  again and again (strongly fair, for it passes over a disk that is being read).
  A round that comes to an end may do so by failing.
  `KeepsComing` asks that the clock stays right from some time on, and nothing of what it did before.
* `Yield`: time passes and a timer that has run out fires; nothing of the others, who
  may go on for ever.
* `Refresh`: the process takes its next step, since every read and write returns and the
  wait has a deadline. Nothing of the bus.
* `Rewrite`: a dead process is started again, timers fire, the steps of a batch
  and of the thaw are taken. `FreezeReturns` is not fair: FIFREEZE may flush for
  ever, and `FreezeEnds` holds all the same.

## What is proved

All theorems hold for any number of disks, `diskState`s, filesystems and blocks
and any durations; each names the assumptions on the constants it needs.

* `TypeCorrect`: `TypeOK` of `Supervisor`. Inductive with one addition, that a
  goroutine on its way to the schedule carries a real outcome (`TypeInv`).
* `FlagsCorrect`: `GoroutineFlags`, on top of `TypeInv`.
* `OneReaderAtATime`: `OneReader`, if `Forget` keeps clear of ticks and no disk
  is speed-tested in probation. The strengthening is `Attached`: a goroutine's
  `diskState`, and a tick's candidate, is the one the map holds, and an adopted
  or busy one is never swept. Without either assumption `Attached` breaks.
* `WindowsHonoured`: `WindowHonoured`, under the same assumptions, the history
  keeping of a window what a dead process left on disk (without `crash_window`).
  The inductive part is `WindowKept`: a window the disk has earned is covered by what
  the schedule holds or by what the goroutine is about to put there (`Covered`),
  and only an adopted disk has one.
* `StoreAlwaysAgrees` and `KeptStaysOnDisk`: `StoreAgrees` and `KeptOnDisk`, under the
  same assumptions and `SetEnabled` saving before it lets go of the lock; of an exclusion,
  `StoreAgrees` speaks only until a round has been recorded. The strengthening (`StoreInv`) goes disk by disk: the files of a key in the map say what
  its `diskState` says, but for what the goroutine has still to save, and a key the map
  lacks has none.
* `PromiseKept`: `Supervisor` implements `Cooldown`, under those assumptions and files
  that keep a window. Every step maps to a step of the promise or to a stutter. What
  has to be known besides (`PromiseInv`): from the read that failed to the lock under which
  the window is opened the goroutine carries the hit, and until then the schedule has no
  window (`HitShape`); and no window, in memory or in a file, is longer than the two
  cooldowns (`WithinLongest`, `FilesWithin`).
* `RewriteTypes`: `TypeOK` of `Rewrite` with `Shape`, `Guards` and `Dead`, which
  say where a goroutine stands with which guards in hand, how a guard agrees with
  the goroutine that made it, and that nothing of a process outlives it.
* `NothingIsLost`: `NothingLost`, if nobody mounts a filesystem behind the
  rewriter's list. The argument: the list is right (`Listed`), a hold that is not
  released is frozen (`HeldFrozen`), so no filesystem writes while a block is
  between its read and its write-back, and the buffer is the medium (`Buffered`).
* `FrozenMarked` and `ThawsOnce`: `FrozenIsMarked` and `ThawnOnce`, with one disk,
  a FITHAW that works and a marker a start can read. Whatever is frozen has an owner (`Owned`), the marker
  names the mounts of the goroutine that freezes (`MarkerKept`), and what a start
  has still to thaw is all there is (`LeftAll`). With two disks `MarkerKept` is
  false, which is the finding.
* `ScannerTypes`, `DebtIsHonoured`, `SweptOrIsOwed`: `TypeOK`, `DebtHonoured` and `SweptOrOwed` of
  `Scanner`, for a disk of any number of blocks, segments of any size and any skips. The invariant
  (`RoundInv`): a segment the round has finished with was read whole or is deferred
  (`SweptSoFar`), the one it is in is read as far as the block it is at (`InSegment`), and a round
  with nothing to report defers nothing and does not leave the sweep early (`CleanSoFar`).
* `InterruptedResumes`: `ResumesWhereStopped`. All that a round has finished with, but for
  the debt, is behind all it has left, in a rotation from the cursor (`Ordered`); the
  rest is arithmetic modulo the number of segments.
* `ExclusionStays` and `OnlyForgetDeletes`: `ExclusionKept` and `HistoryOnlyForgotten`, if every
  start can read `meta.json` and `schedule.json` (`Rots` is empty; otherwise the second
  is false, which is the finding). The record on disk is that of the `diskState` at every
  write (`Recorded`), and a history belongs to an adopted disk (`Scanned`), so the sweep of a
  disk in probation finds none.
* `ListedHasProfile`, `LinksHold` and `TearCostsOneLine`: `RowHasProfile`, `RefsHold` and
  `TornCostsOne`, whatever `Rots` is. A listed round has its maps unless enough later ones
  have, which `Put` and `Pruned` preserve, and the round that is about to be listed has
  them already (`MapsFirst`); no id in the log is above the one given out last
  (`Counted`, which a start restores, for it takes the greatest), and the event a re-probe waits
  for, if it is listed, is this round's deferral (`Retried`); a log ends with what was
  appended since the last cut, but for one line (`EndsWith`).
* `RefreshTypes`: `TypeOK` of `Refresh`, and a handle is open while the loop runs and at no
  other time (`LoopInv`).
* `KeysStayDistinct`: `KeysDistinct`, if a reader with two slots of one size has a serial
  that is its own (`SlotsToldApart`; without it the property is false, see the limits below).
  On the way: ports tell devices apart, names tell disks apart (`BusInv`), for the names
  given out are the first of those that are left, and there are enough (`NamesLeft`).
* `RewriteChangesNothing`: a rewrite changes no byte of any disk, with no assumption at
  all, so even with `RaceOpen` and with disks nothing tells apart. What it is about to write
  it has read at that place through that handle (`Unchanged`).
* `HandleStaysOurs`, `ContentStays`, `NoHoleStays`: `HandleIsOurs`, `ContentKept` and `NoHole`,
  without `RaceOpen`, if of any two disks of one capacity one has a serial of its own
  (`ToldApart`). The key that was confirmed remembers enough (`WantInv`) that what is found under it at
  that capacity is the same disk (`FoundIsOurs`); what is resolved or open is then the target, where it
  was resolved, for as long as it is there (`OursInv`).
* `StickComesBackUnderItsKey`: `ComesBackUnderItsKey`, from `WantInv` and `BusInv` alone.
* `StreamTypes`: `TypeOK` of `Stream`, with `Counts`: a round's number is behind the
  rounds that have begun, and a slot's count behind the frames that were sent.
* `FramesEndWithTheRound`: `QuietAfterEnd`, with no assumption. The slot stays empty from
  `DropPending` on, and an event at the end of a queue closes all that is before it
  (`Quiet`, `Idles`, `Hears`).
* `NoRoundIsShownPastItsEnd`: `ShowsTheTruth`, with no assumption. The strengthening is
  `Corrected`: between rounds, unless `stale`, either the page will ask for everything, or
  has asked and will be told of no round (`Expects`), or its map is empty, its detail tells of
  no round and no answer on its way to it does (`Clears`).
* `MapsAreWhole`: `MapWhole`, with no assumption. While a round reads that has not `raced`, there is a
  history `g` of what each of its frames carried (`Runs`), such that the newest word on a
  block, in the slot or in a frame, is the daemon's (`Sends`); every frame in the queue is one of them,
  or an event behind it corrects it (`Queues`); and the page is about to ask for everything or
  is as far as some frame `m` (`Place`) and right about every block that nothing after `m` has
  touched, in its map or in its queue and the snapshot it loads (`Caught`). `m` is the
  frame it has counted or, if it counts from the next one, the one before that: this is
  where a frame lost to a page without a count would break it. A round that begins `Fresh`
  begins with nothing to be wrong about (`Opens`). Behind the newest
  frame nothing is untold, so the map is the daemon's.

* `ScheduleTypes`: `TypeOK` of `Schedule`; the interval is the initial one or between
  the bounds, whatever the factors.
* `NoReaderInAnEarnedWindow`: `WindowHeld`, with windows of at most a day, which is what
  a repair trims to. Inductive with `WindowKept`: a window that is owed lies in the schedule while
  nobody reads and in `progress.json` between a dropout and the end of its round, and
  is none when a reader starts.
* `OnlyJitterIsRepaired`: `RepairTakesOnlyJitter`, if a retry is at most a day, for a
  jitter of any length, the default one included. The invariant (`Explained`): under the clock it
  was written with, a plan is a retry or an interval with its jitter, and the last
  round is not ahead.
* `RecordedRoundsKeepTheirDistance`: `NotBeforeItsTime`, if a retry is no longer than the
  shortest interval. The invariant (`Rested`) is that the next date lies no nearer
  than what is left of the rest while nobody reads, and that nothing is left when a round
  starts.
* `YieldTypes`: `TypeOK` of `Yield`.
* `RoundYieldsOnlyToOthers`: `NeverYieldsToItself`. The difference `Sample` takes is zero
  unless somebody else was there or a read of the round failed (`Caused`).
* `RoundGivesUpOnSustainedUse`: `GivesUpOnlyOnSustainedUse`. A spell is no older than the
  last sample that found the disk quiet (`Patience`).
* `SlowAloneIsNeverExcused` and `SlowIsCalledOnEvidence`: `SlowAloneStands` and
  `SlowHasEvidence`. The argument is about the window: what it has counted is no older
  than it is, except over the round's own writes, after which the re-probe rests for
  longer than a window is reused (`Dated`, `Rested`); so a reading with a count had
  company near it (`NearIfActive`), and one with company during it has a count unless
  the counters lost their place (`ActiveIfDuring`).

Only model-checked: all liveness (`RequestServed`, `StopEnds`, `KeepsScanning`,
`KeepsComing`, `Recovers`, `WaitEnds`, `RefreshEnds`, `FreezeEnds`), since the prover has
no rules for fairness and ENABLED. Every safety property a passing run checks has a theorem.

## What is not modelled

* Parsing, formatting, logging, HTTP, what the page draws, command-line flags, reports.
  None of it keeps state.
* `DutyController.Evaluate` and `Pay`: a control law over measured latencies, which decides
  how long a round rests after a segment and nothing else. Read beside the models, two
  things are worth knowing: the factor has no floor above zero, so that after a long
  cool sweep six rises may be too few to be felt, and the wobble of a latency
  resets the count of fruitless ones.
* How sysfs, CAM and GEOM are read, and which disks are protected. Discovery is the set
  of keys it reports (`Supervisor`), or of the disks on the bus (`Refresh`).
* Arithmetic over latencies: learning a baseline, drift, blending, the verdict
  on healing, the speed test's measurement. A read is the side of a line it falls on.
* `ScanOnce`, the round of the command line, which has no tick and no requests.
* In `Stream`: the ring's replay, since the page opens a new `EventSource`, which names
  no last frame; polling; the limit on clients; `Close`; a second disk or page;
  events that are not the round's; a fetch of the page that fails.
* In `Rewrite`, a store write that waits on a frozen filesystem waits before it
  has done anything; what open(2) does there is the kernel's. The verification after the
  last batch only reads.
* In `History`, the freshness map, the byte accounts and schema numbers; `SetEnabled`
  falls outside `persistRound`, since `Supervisor` has what it does inside.
* In `Refresh`, the device's write cache; a device comes up with all its LUNs at once.

Limits of the code that the models assume away, and a reader should know:

* The key of a card reader's slot holds the SCSI host number (platform.go:98-100), which is a
  new one if the old was still busy when the reader came back, so "a rename from sda to
  sdb after a dropout rebinds automatically" (README.md:58) is not so for it; and slots of equal size
  in a reader without a serial share a key. A stick whose twin is plugged in changes
  its key. Two sticks of one serial and one size, one after the other in one port,
  are one disk to the daemon.
* A window longer than 48 hours (`suppress_after_dropout` is configurable) is trimmed to 24
  by a repair, and a request made while `LastRoundAt` is in the future loses its date to the
  repair. A window written in 1970 is over when NTP lands.
* `WaitIfBusy` that fails in the middle of a wait (duty.go:396) leaves its spell behind, so
  that a later burst may cost a round at once.
* A start between the maps of a round and its schedule uses the number of the round
  again and replaces its map, while "completed rounds never change, so they are served
  immutable" (server.go:416).

## What is left

* `Supervisor` over `Schedule` in place of `Delay` and `Cooldown`, and `Scanner` over
  `Yield` in place of the troubles slow and busy.
* `Stream` with overlapping refreshes, `Close`, and a fair specification under which a
  page that stays connected settles.
* The duty cycle, with its factor over a few levels.
