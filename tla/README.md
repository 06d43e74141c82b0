# TAP Core: specification, model checking and proofs

TAP Core records the browser traffic of one macOS user through a local mitmproxy listener, keeps it in
a retained JSON-lines journal, and hands the records to locally installed packs: readers (child
processes fed with records), scheduled commands, and page handlers behind a hub. This directory
holds TLA+ modules of its core protocols, the TLC runs that check them on small instances, and
TLAPS proofs for all instances.

    tlc -config CaptureWriter_safety.cfg MCJournal      # a run of PROJECT.json
    tlapm Background_proofs.tla                         # the proofs of a module

`PROJECT.json` lists components, runs, mutants, the definition-to-source map, findings, hazards and
theorems. Source paths below are relative to `tap_core/`.

## 1. Inventory

| Component | State | Operations | Interacts with | Hard because | Correct when |
|---|---|---|---|---|---|
| Capture writer (`capture.py`, `Writer`) | queue and byte account, worker and closing thread, open handle, rollback offset, `stream.jsonl` and its archives, counters | `submit`, worker loop (`open_stream`, `roll`, `prune`, `write`), `close`, restart | mitmproxy hooks submit; readers read its files | I/O fails at any call, the process dies anywhere, shutdown races intake and the worker | every record is counted once; files hold whole lines in order without holes; budgets hold; shutdown ends |
| Journal reader (`journal.py`) | none; reads the segment directory | `paths`, `lines`, `tail`, `scan` | writer rotates and prunes meanwhile | names, inodes and contents change under a snapshot | a scan after a cursor gives the lines behind it or reports a gap |
| Readers (`readers.py`, loops of `service.py`, `guardian.py`) | a checkpoint per lane (generation, cursor, in-flight id, phase), lock file, gap and failure receipts, thread counters | `run`, `begin_now`, `follow_tail`, `skip_failed_fresh`, `replay`, `rebind` | journal, child processes, controller, operator | at-least-once effects, gaps, two lanes, orphans, restarts | recovery skips nothing, one child at a time, every line is delivered |
| System routing and lifecycle (`routing.py`, `runtime.py`, `cli.py`) | network preferences, `state/proxy-before.json`, launchd job, profile and network lease | `on`, `off`, `uninstall`, `install`, `routing set`, `enable`, `restore`, `start`, `stop` | the user edits the same preferences; other commands | partial failures of some twenty system calls, killed commands, leases | the user's settings are never lost; the listener stops only when traffic is direct |
| Capture policy reload (`capture.py` `PolicyWatcher`, `capture_policy.py`) | policy file, watcher's seen signature, status file | `reload`, `check`, `started` | proxy process polls; CLI waits for acknowledgement | waiting happens outside the lease, two CLIs, a restart | a reported revision is the one that stays in force |
| Pack store (`pack_store.py`, `packs.py`, `pack_add.py`, `commands.py`) | registry, code tree, history, grants | install, update, enable, disable, rollback, uninstall, add | running commands hold execution leases | crash between tree and registry; keyed and unkeyed leases | a registered version verifies; code of a running command does not change |
| Background scheduler (`background.py`) | `state/background.json` | `run_once`, reconcile | pack store, leases, launchd | a schedule read under one lease and used under another | a run settles only its own row |
| Freshness policy (`freshness_policy.py`) | attempts, failures, retry time, in-flight | pure transitions | scheduler | clocks, lost answers | budgets are never exceeded, a lost answer is one timeout |
| Component controller (`service.py`, `components.py`) | services, readers, restart history | start, refresh, sync, stop | every component process | restart budget, refresh retry | at most one worker per definition |
| Hub and page runtime (`hub.mjs`, `page-runtime.js`, `page_control.py`) | pages, peers, commands | hello, request, command, close | browser pages, children | checks before an `await`, replaced sockets | each command gets one outcome; capacity holds |
| Bridge addon (`bridge.py`, `page_resources.py`) | plan, its file signature | refresh, inject | pack store, hub | plan refresh fails half way | the last valid plan stays |
| Session observation (`session_observation.py`) | coalescing queue, credential files | observe, drain, publish | hooks, pack grants | grants change after the check | published only under a current grant |
| Drain proxy (`drain.py`) | one listening socket, a deadline | serve | `off` | bounded time | ends by its deadline |
| Installer (`instll/ownership.py`) | checkout, runtime, pending update | promote, finalize, rollback | lifecycle | crash between renames | an update is applied or undone |
| Views, records, projection | none | reports and conversions | all | formatting | outside the models |

`PROJECT.json` "hazards" lists, line by line, what in this code is hard to test, with the properties
that would catch it.

## 2. Modules and plan

| Module | Models | Runs |
|---|---|---|
| `CaptureWriter`, `RetainedJournal` | the writer; what readers rest on, which it implements | `writer_safety` (`MCJournal`) |
| `CaptureHooks` | a response on its way to the writer, and the contract of a line | `writer_safety` (`MCJournal`) |
| `JournalScan` | the snapshot that a reader starts from | `writer_safety` (`MCJournal`) |
| `Readers` | one reader with its two lanes | `readers_safety`, `readers_live`, `readers_receipts`, `readers_reattach` (`MCReaders`) |
| `SystemRouting` | commands that change the network preferences | `routing_safety`, `routing_escape`, `routing_repair` (`MCSystemRouting`) |
| `PageResources` | one order of page resources for all packs of an origin | through `PackRegistry` and `BridgePlan` |
| `PackRegistry`, `PackCommands`, `Background` | the registry; the commands on it and the dispatch of packs' commands; the scheduler | `packs_safety` (`MCPacks`) |
| `Installer` | update, rollback and finalize of an installation | `parts`, `installer_claim` |
| `BridgePlan`, `Bridge` | the plan of an origin; proxy, documents, Hub | `parts` |
| `Pages` | Hub, one page and the command line | `parts` |
| `Controller`, `Supervisor` | reader workers; Hub and services | `parts` |
| `PolicyReload`, `Freshness`, `SessionObservation` | the components of these names | `parts`, `policy_unchanged` |

`RetainedJournal` stands between `CaptureWriter` (which implements it) and `Readers` (which use its actions). `Background` extends
`PackCommands`, which extends `PackRegistry`: commands, dispatched runs and the scheduler work on one registry. `Bridge` composes proxy,
document and Hub; `Pages` composes page, Hub and command line.

`MCJournal` and `MCParts` each hold several small systems that share no state. A behaviour is one of *one* of them, chosen in the
initial state (`part`); the others stay where they are. The state count of such a run is therefore a sum, and each property is about its own part.

`M_proofs` holds the proofs about `M`, and what is proved of a part is carried into the composition that the run checks. `Background_proofs` covers `Background`, `PackCommands`, `PackRegistry` and
`PageResources` together. `CaptureWriter_proofs` extends `MCJournal`: it has the writer, the hooks and the refinement of `RetainedJournal`, and instantiates `JournalScan_proofs` for the scan. `Parts_proofs` extends `MCParts`: it has the
controller, the session observation, the page and the Hub and the bridge, and instantiates `Freshness_proofs` and `Installer_proofs`.

Every safety invariant and action property that a passing run checks has a theorem, and so has the one refinement. The plan has left, in this order: that `JournalScan` implements the one-step scan of `Readers`, as a refinement; type
correctness of `PolicyReload` and `Supervisor`, whose properties are liveness; the recovery-only loop of `Readers`.

Every module takes its limits as CONSTANTS, has one action per operation or per step
between two durable writes or system calls, and declares no RECURSIVE operator, so that it can be proved about.

## 3. CaptureWriter

**State.** A file is a sequence of chunks: what one append put there, a whole line or the torn
beginning of one. `stream` and `exists` are `stream.jsonl`; `archives` maps the stamp of `stream.jsonl.<stamp>` to
its chunks. `queue`, `queuedBytes`, `written`, `dropped`, `stopping`, `abandon`, `rollback` are the attributes of `Writer`;
`handle` and `inHand` are locals of `run()`; `pc` and `closer` say where the worker and the thread in `close()` are.
History variables number the records in submission order and remember which appends succeeded or raised.

**Actions.** `Submit` is `submit()`. The worker: `Recover`, `Take`, `LeaveLoop`, `Refuse`, `UseHandle`, `OpenFirst`, `Reopen`,
`KeepSegment`, `RenameFails`, `Roll`, `AppendBytes`, `AppendRest`, `AppendDone`, `AppendFails`, `StopIntake`, `WorkerDiscards`,
`WorkerEnds`. `OpenStream` is the whole of `open_stream()`: it can fail after any of its stages (`Stages`), and what it did
until then stays: archives are pruned oldest first, a pending rollback is applied, a torn tail is cut. An append puts its bytes in
two steps, so that a crash or error sees none, some or all of them; its rollback may fail as well. `close()` is `CloseBegins`,
`CloseJoins`, `CloseTimesOut`, `CloserDiscards`, `CloserReturns`. `Restart` is a crash at any point followed by a new process on the same files.

**Abstractions.** A record is its estimated size and its line length. A process crash loses memory and never
bytes the file system has; power loss is out of scope. The health file and log lines are left out (the counters they
report are not). Nobody else edits the data directory.

**Checked** (`writer_safety`, module `MCJournal`, together with `CaptureHooks` and `JournalScan`):

| Property | Says |
|---|---|
| `EachRecordCountedOnce` | offered + repaired tails = written + dropped + pending, over concurrent discards and failures |
| `TornOnlyAtTheEnd` | no line ever follows a torn one, no archive holds one |
| `NothingFollowsAFailedAppend` | what was counted as dropped stays last, with its rollback pending, until removed |
| `JournalOrder` | names, then lines, are in submission order whatever the clock does |
| `NoHoleInTheJournal` | only retention loses a confirmed record, oldest first |
| `RetentionBound` | at most KeepRolls + 1 files, also when pruning fails, and only a single line exceeds the threshold of a file |
| `NothingLeftBehind` | a finished worker leaves nothing queued |
| `KeepsTheJournal` | the files, read as a reader reads them, implement `RetainedJournal` (`journal <- Journal, inDoubt <- AppendInDoubt`) |

`ShutdownEnds` is two promises: `CloseReturns`, under fairness of the closing thread only, so the worker may hang for ever; and `WorkerStops`: if the
worker is fair as well (`DiskAnswers`), that is when filesystem calls return, with success or an error, shutdown ends it. Fairness is on the operating system's threads; nothing forces a submit, a shutdown, a restart or the
success of any call.

**Bounds.** Four records, three shapes, a segment that holds two short lines or one long one, one archive
or none, two clock values that repeat and go back, one crash. Each hazard needs one failed step, one more record behind
it and one rotation, with a crash in between; all of these fit. An oversized line reaches `Refuse`.

### CaptureHooks

What `responseheaders` and `response` make of one flow, with `decide_body`, and the worker's `fit_record` and `encode_record`. Between the two hooks the backend may begin to stream the
body, its length turns out to be what it is, and `PolicyWatcher` may replace the limits: each hook reads them, so one flow can be
decided under two policies. A body is its length; a text is also the room it takes in a line of JSON, and whether it is UTF-8 at all. What else is in a line has room 1, for the 1 MiB that
`capture.py` 126 reserves, and `flow.utf8` says whether it can be encoded.

Not every response becomes a line. `submit()` refuses a record when the queue is full or the writer stops (`capture.py` 351–358), and a URL, method, content type or user agent with a
lone surrogate, which is what bytes that are no UTF-8 become, makes the encoding raise (514), whereupon the worker drops the record (527–528). The bodies are checked for this before; the other texts are not. Both ends are in the
model (`Response`, `Encodes`). Two properties (in `writer_safety`) say what holds besides:

- `RecordsAreReadable`: every line that is *written* satisfies `validate_record` (`records.py`), which the readers hold it to. One line they refuse stops every reader of the journal there.
- `NoBodyCostsTheLine`: a submitted record is never dropped for its bodies. A body that is too long, or no UTF-8, is left out, of the response as of the request.

Limit 2, lengths 0 to 3, lines of at most 5 = 2 * 2 + 1; a byte of text takes up to three, so that one body, or both together, can be too long for the line.
`LinesAreReadable` and `BodiesGoFirst` (section 9) prove the two for all limits.

### JournalScan

`Journal.scan` takes no lock. `Begin` to `ListEnds` is a listing of the directory that may or may not meet names that come or go meanwhile; `Open` pins each file under
the name it has then; `SameNames`, `Verify` and `Identify` compare names, inodes and first lines; `Read` goes through as many bytes as a file had when
it was opened (`journal.py` 97–113). The writer of this module appends, confirms, takes an unfinished line back (a failed append, a torn tail), rotates and prunes at any of these moments; where a line was taken back
and others follow, those bytes may hold more of the shorter lines, or end inside a longer one (`LineOf`).
A line is not taken back once its last byte was accepted, as `write()` (`capture.py` 452–470) makes no call then that could fail and a repair keeps what is whole; `CaptureWriter` assumes less and lets even
such an append fail.

`ScanLeavesNothingOut` (in `writer_safety`): a scan that ends in success gave out consecutive lines, at most one of them unconfirmed and that the last, and missed no line that was confirmed
before it began and is still there. `Readers` takes a scan for one step on this ground. Three lines, three archive names, retention of none, one or two archives. A scan
that meets a taken-back line may also end as "damaged" although nothing is; the reader then tries again.

## 4. Readers

**State.** `journal`, `inDoubt` are those of `RetainedJournal`, driven by its own actions through an INSTANCE, so
readers are checked against exactly what the writer implements. A cursor is the id of the line it anchors (0: none). `ckpt` holds the two checkpoint
files, `turn`, `fails`, `initialized`, `up` are the reader thread of the controller, `op` is the `Reader.run()` in progress with the entries it
scanned, `children` are the running invocations, orphans of dead controllers included. History: where a lane was attached, what it acknowledged, failed tries, and whether
a live attachment is between its two saves (`halfway`).

**Actions.** `FollowTail`, `Begin`, `Refused` (the lock is busy or the scan fails), `Gap`, `Filter`, `Deliver`, `ChildSucceeds`, `Acknowledge`, `Finish`,
`RunFails`, `Parked`, `Skip`, `ReplayCommand`, `Rebind`, `Attach`, `Start`, `Crash`, `Detach`, `OrphanEnds` and the journal's `WriterStep`. The lock of a reader is held by
the operation or inherited by a child, so an orphan blocks the next controller (`LockFree`).

**Abstractions.** A scan is one step; its races with the writer are in `JournalScan`. A replay gap goes
back to the oldest line in the step that records the gap. `Rebind` gives a lane a new generation at the same cursor, for a new definition, while no controller runs. Definition fingerprints, the replay-only
loop and the "ambiguous first lines" outcome are not modelled, which is why the component is listed as partly modelled. The limit of three failures is `FailureLimit`; the passing runs use two to keep
the instance small (nothing depends on the value), the violation runs the real three.

**Checked.** `readers_safety`, with a replay command or a live attachment, a crash or a detach, and restarts:

| Property | Says |
|---|---|
| `ReplaySkipsNothing` | every retained line the recovery cursor has passed was acknowledged or filtered in this generation |
| `ReplayOwnsWhatFreshSkipped` | what fresh delivery passed without success is delivered by recovery, or still in front of it, unless a live attachment has only moved recovery so far |
| `OneChildAtATime` | two invocations never overlap, over crashes and operator commands |
| `ProgressIsNeverUndone` | a position goes back within a generation only when its line is lost |

`ReplayOwnsWhatFreshSkipped` needs the exception of `halfway`: without it the property held on the instance, with one crash, and the attempt to prove it showed
that it fails beyond, when a controller dies between the two saves of a live attachment (`readers_reattach`, section 8).

`readers_live`: `EveryLineIsDelivered`. Fairness is on the reader thread (the controller schedules it, a child ends by itself or by its
timeout) and on the guardian ending an orphan; nothing forces a controller to start, and the number of failures is finite, as otherwise a child
that always fails parks recovery, which the property names as an exit.

**Bounds.** Two lines (filtered and relevant), two failures, one crash or detach, one request of the operator. Two lines are enough for a cursor to be between lines, on a
pruned line or on a rolled-back one; the second line is the one a wrong acknowledgement skips.

## 5. SystemRouting

**State.** For two network services: each HTTP and HTTPS endpoint (off, this profile's listener, foreign), the bypass list (the user's, an
edited one, the declared passthrough list), which services are enabled; `mode` is the routing that `profile.json` says, `snapshot` is `state/proxy-before.json`, `capture` the launchd job. `cmd` holds a
position for each command process, the writes it has still to make (`todo`, a set whose next member is the first in the code's order) and the copy of the routing that it acts on, `lease` the two leases. `verbs` are the commands of the session, chosen in the initial state. History: `theirs`, the list a service had when it was taken over, and `manual`, endpoints the user pointed at the
listener, and `late`, what the user set since the network lease was last taken.

**Actions.** Leases: `Issue`, `Emergency` (off's first pass, under the network lease only), `TakeProfile`, `TimedOut`, `TakeNetwork`, `OtherEnds`. On:
`Starts`, `StartRefused`, `StartFails`, `Rearm` and `TakeOver` (the two halves of `enable()`), `Arm` (one networksetup write each), `Verify`, `EnableFails`. Restore and stop: `Restore`, `Undo`
(one write each, errors collected), `Confirm`, `RestoreFails`, `Stop`, `StopFails`. Routing set: `Switch` (what runs is stopped under the old routing, a
snapshot is restored), `Save`, `SaveFails`, then `Starts` and the rest of on. Repair, which is `install` over an installation: `Restore`, `Stop`, `Reinstall`, `Starts`. Every command loads the profile
in `Issue` and again under its lease (`Routing`), except repair, which keeps the copy of `Issue`. With explicit routing, on only starts the listener and `Restore` has nothing to do (`OwnsSettings`). Around them: `Crash` of a command (its leases are free), `ListenerHangs`, `ListenerReturns`, and the user's
`UserSetsProxy`, `UserSetsBypass`, `UserTogglesService`. A failing write may have taken effect.

**Abstractions.** Reading all services is one step; reading and saving the snapshot is one step. Since `enable()` refuses to start when any proxy is
enabled, every endpoint in a snapshot is off, and only bypass lists are kept in it. An endpoint's server and port are told apart only as ours or not. The traffic
probe, whose result changes only a message, and the drain tunnel are left out. The user may edit at any time, in the middle of a
command too. Removing a service from the system for good and the first installation, before which there is nothing to own, are not modelled.

**Checked.** `routing_safety`:

| Property | Says |
|---|---|
| `NothingIsLost` | outside the snapshot a service has its own list and none of our proxies; inside, its own list can be restored |
| `StopsOnlyWhenDirect` | a listener that answers is never stopped while a listed service points to it, unless the user pointed it there since the command took the network lease, or by hand at all when the routing is explicit (there the user's clients are the user's business, `docs/runtime.md` 40–43) |
| `ForeignIsLeftAlone` | no command writes over a proxy somebody else enabled before the command took the network lease |

`ForeignIsLeftAlone` goes as far as the code does and no further: the comment at `routing.py` 207 says "Do not overwrite an unrelated proxy enabled after we took the snapshot", but `restore()` looks for such proxies once, on all
services (208–212), and then writes service by service, a call of `networksetup` for each (213–222). A proxy that the user enables in between is switched off, in the model too, and the reading back finds nothing wrong. macOS
offers no compare-and-set for these preferences.

`routing_escape`: `OffIsNeverBlocked`. Fairness is on the steps of a command process, which the scheduler runs and whose system calls have timeouts; the command
that holds the profile lease (`other`) gets none and may keep it for ever. The property gives up only when something fails, dies or is edited
after off was issued, or when another command has the network lease at that moment, where off fails at once by design.

**Bounds.** Three commands by two processes. `routing_safety` has four sessions (`Everyday`): on, off and uninstall with system routing, two failures, one crash and one edit (an interrupted
`on`, an edit, and an `off` or a second `on` that has to cope); on, off and routing set from either mode, with one failure and the crash (from system) or the edit (from explicit); on, off and repair with one failure and one crash. A session spends the
rest of the bounds at the start (`spent`). Repair next to routing set is the session of `routing_repair` (section 8). The two command processes are symmetric and a permutation of them is applied. A hung listener counts as a failure. Stopping a *hung* listener in `start()` while settings point to it is outside `StopsOnlyWhenDirect`: it answers nothing already.

## 6. Packs

**Modules.** `PackRegistry` says what a saved registry must satisfy to be loaded (`load`), what the enabled packs project onto commands, pages, components
and capture, and which candidate each command may publish. `PageResources` is `order_page_resources`: one topological order for the resources of all packs of an origin, by Kahn's
algorithm with the first place of a resource as its rank (`Declared`); `Orderable` says when there is one. `Among` keeps the packs of a set in their order.
`PackCommands` are the `tap pack` subcommands (`cli.py`), from lease to lease and from one durable write to the next, and the dispatch of
installed commands (`commands.py`). `Background` adds the scheduler of `background.py`.

**State.** `registry` is `pack-registry.json`, `code` and `shared` the trees it points to (whole, torn, absent), `profile` and `lease` the file locks,
`proc` the operators' processes, `child` the providers that run, `live` and `bound` the capture service and the bindings it was started with,
`registered` the LaunchAgent, `jobs` and `failures` are `background.json`, `sched` is the scheduler's process.

**Abstractions.** What a manifest declares is a constant (`Manifest`); fetching, unpacking and hashing are the states of a directory. `Tamper` changes
installed code behind the program's back. Every lease fails at once when it is taken; the kernel frees it when the last process that has it open ends.

**Checked** (`packs_safety`):

| Property | Says |
|---|---|
| `RegistryStaysUsable` | the saved registry loads, its enabled packs compose, and unless files were changed their code verifies, wherever a command was cut off |
| `RunningCodeStays` | the code of a running provider is neither removed nor replaced, also after its dispatcher or the scheduler died |
| `OnlyAddReauthorizes` | from the look-up of a job to its child's end a pack keeps selection and grants, `pack add` excepted |
| `LiveBindingsStand` | a running profile keeps the handlers and request bodies it was started with |
| `LoadedWhenWanted` | with nothing in flight or cut short, the LaunchAgent is loaded exactly when there is something to schedule |
| `EveryJobRuns` | a pack that stays scheduled runs in the end, whatever its neighbours do |

`pack add` is excepted because it takes the lease without a key (`cli.py` 530–534), another file than the one of a pack's commands, and so does not wait for a provider. An add of the pack's next version goes through while its provider
runs and selects that version and its grants. The comment at 510–511 says that a "running command's immutable snapshot must not be mutated or re-authoritied mid-run", and the message at 533–534 that an add waits. What is checked is that only an
add does this, and that the code of the running version stays where it is (`RunningCodeStays`).

An `uninstall` that is cut off half way leaves a disabled pack with a torn version. `RegistryStaysUsable` asks enabled packs only, and such a pack's version is refused by `uninstall`, `enable` and `install` alike, as each verifies
what is there first.

Fairness (for `EveryJobRuns` only): processes go on, children end, launchd wakes a
loaded job; nobody is obliged to start a command. A provider that an operator started
ends too: one that went on for ever would keep its lease, and a lease that is busy ends the whole wake of the scheduler.

**Bounds.** Two packs with two versions, chosen so that every way to disagree occurs (a command path under another's, one
resource in two orders, a handler, a reader, request bodies). Eleven starting points: any one command with a cut during the scheduler's work, two commands at once, a run whose dispatcher dies,
commands in turn on a live and on a stopped profile, the profile switched on and off, broken code up to its quarantine (threshold two instead of the code's).

## 7. The parts of `MCParts`

`parts` checks eight small systems. All their Fairness conditions are on programs that the operating system schedules and on timers that run out.

**Installer** (`instll/ownership.py`, `instll/update`). An operation is the list of steps it has still to take, each a rename, removal or write;
a step fails (the operation then unwinds as the code does, ignoring what `rmtree` ignores) or everything is cut off.
`UpdateIsRecoverable`: whatever A had is in place, in a backup or in the recovery directory; an installation without pending record and recovery directory is wholly A or wholly B; no
checkout moves from under a running profile. `RollbackConverges`: a rollback that is repeated ends with A. Two updates, two failures, one cut, on four kinds of installations.
Here whoever began to finalize does not roll back (`loyal`); `installer_claim` drops that.

**Bridge** (`bridge.py`, `page_resources.py`, `page-runtime.js`, `hub.mjs`). `BridgePlan` composes the effective configuration and the plan of an origin; `Bridge` has the proxy, one
document, the Hub's copy and what is on the disk. `DocumentsKeepTheirScripts`: an open document's scripts are served as long as its origin is allowed and the proxy
is the same, whatever plans came later. `DocumentsCatchUp`: once the disk stays the same and is readable, the document has its plan, reloading if needed. Ten disks, two changes, a restart, a visit.
Fairness: the TTL passes, the runtime goes on checking.

**Pages** (`hub.mjs`, `page-runtime.js`, `page_control.py`). Messages of a socket arrive in order, each side learns of its end by itself, and nothing orders two sockets. Hub handlers are suspended at their `await`, behind which
a body that cannot be used is refused without further ado (`RefuseCommand`, `hub.mjs` 70–74); the upgrade of a socket may be refused as well (`UpgradeRefused`, 159–166).
`EveryCallIsAnswered`: every command and request gets an answer, be it a timeout or a refusal. `StaysReachable`: a page that wants to be connected ends up with the
socket the Hub knows, unless it gave up (as it does after its last try). One page, three sockets, two calls, up to two events. Fairness: handlers and timers; a command in the page may never end.
The Hub counts the waiting commands (`hub.mjs` 68) before it awaits the body and adds the command afterwards (78) without counting again. So commands whose bodies arrive together pass both bounds, in the model too, although
`docs/profile-bridge.md` 135 says "Commands have per-page and global concurrency bounds"; the page's own bound (`page-runtime.js` 109) holds. `EveryCallIsAnswered` is for those commands as well.

**Controller** (`service.py` `reader_loop`, `sync_readers`). A pack command saves and signals; the main loop stops, joins and starts workers.
`OneWorkerPerReader`: never two workers of a reader, though a thread may outlive its join. `RefreshIsNotLost`: when changes end, the controller's view is what is saved.
The run allows one failure, a sync that raises or a worker that outlives its join (`StaysAlive`, `MaxFaults`), and one worker that ends by itself after three failures of its reader (`MaxParked`,
`reader_loop` 67–80), with two changes of what is saved.

**Supervisor** (`service.py` `main`, `components.py`, `guardian.py`). The Hub and the services exit, hang and fail to start; probes, grace, restart budget and the crash budget of the controller.
`ServicesComeBack`: once faults are over, all services of a running controller are up, however much of the budget was used. Each start leaves its sliding window by a step of its own,
so windows of all lengths are covered. Two services, one restart allowed per window beyond the first start. `Controller` and `Supervisor` are two halves of one loop that share only its stop flag.

**PolicyReload** (`capture_policy.py`, `PolicyWatcher`). The commands and the watcher share two files. `DocumentComesIntoForce`: an acceptable document ends up in force, although it may
replace another one being read, be unreadable at first, or the proxy may start again. Two commands, two edits, one restart, one unreadable document, and a revision this proxy refuses.

**Freshness** (`freshness_policy.py`, `background.py`). Wakes, approval, one command for all targets, settlement; crashes leave an attempt in flight. `LooksAreRationed`: never more looks
in a window than the budget, and after k looks without news the next waits for the k-th back-off. The code's intervals are scaled (a wake and the base back-off are one tick, the window four), so that expiry,
back-off and budget all bite within five ticks; a night and the priorities of two targets are in the instance. The clock moves forward only.

**SessionObservation** (`session_observation.py`). The hook coalesces into a bounded queue; the worker checks grants again under the profile lock and publishes file by file.
`KeptIsQueued`: a kept observation's key is queued or in hand. `PublishedUnderGrant`: a credential is written only while its grant stands, for the version verified, never after a later one.
Two packs, a queue of one, three requests, one change of grants, one failed publication or restart.

## 8. Findings

The five runs that expect a violation each show a place where the program differs from what its documents, comments or messages say.

- `readers_receipts`: the three failures before a fresh record is skipped are failed *runs of the lane* (`service.py` 105–107, reset only at 101), so a record can be
  skipped after one failure of its own. `docs/managed-components.md` 22 promises three retries of the record.
- `readers_reattach`: a live attachment moves two cursors in two saves (`service.py` 154–156). A controller death between them leaves a fresh lane that backfills and
  later skips records with a receipt, although recovery is already past them and will not deliver them.
- `routing_repair`: `tap install` over an installation reads the profile before it has the lease (`cli.py` 598) and is the one command that does not read it again
  under the lease (`cli.py` 763). After `routing set system` and `on` in between, the repair acts on its explicit copy: it takes no network lease, restores nothing, stops the listener
  while the settings point at it, and saves the old mode back (`runtime.py` 529–536), so that a later `off` finds the snapshot but the profile says explicit. `docs/runtime.md` 36–38:
  repair "uses the saved configuration, restores direct routing before replacing the owned jobs".
- `installer_claim`: a finalize that was cut off after it dropped the checkout's backup, then a rollback: it puts A's mark back and returns `restored: true` over B's checkout
  (`instll/ownership.py` 375–378). `docs/install.md` 143–146 says that a failed rollback does not claim restore.
- `policy_unchanged`: `capture reload` compares its policy with the health record, not with the document on disk (`capture_policy.py` 70), and reports
  "applied, unchanged" while an earlier reload's document brings another policy into force. `docs/capture-records.md` 161–165.

Smaller things that the models keep as they are, for a reader of the code: the refusal "restart budget exhausted" is not final, the service is started again when the window slides; a worker that
outlived its join, and whose old definition is back at the retry, counts as attached although its thread is ending (`service.py` 143); a failed plan refresh keeps the plan but takes the
new development origins; an `off` that times out says "Network restored" (`cli.py` 760) although the command it waited for may have armed the settings again since off's first pass; a quarantine outlives the disabling of the only scheduled pack (`background.py` 74).

## 9. Proofs

The theorems hold for **all** values of the constants that satisfy the assumptions of the modules, so for any number of records, lines, packs, commands, failures, crashes and
restarts: the bounds of the runs are constants like the others. Each proof follows the same plan. An inductive invariant is stated beside the model
or at the head of the proof module; TLC has checked it on the instance first; `Init` gives it; one lemma or step per action keeps it; and it implies the properties. The tables
name what is proved and the property of a run that it covers.

| Module | Theorem | Property |
|---|---|---|
| `CaptureWriter_proofs` | `WriterInvariant`, `WriterInJournal` | (`WriterInv`, and `KeptInv`, `SizeInv` in `MCJournal`) |
| | `WriterTypes` | (`TypeOK`) |
| | `NoGluedRecords` | `TornOnlyAtTheEnd` |
| | `FailedAppendsStayLast` | `NothingFollowsAFailedAppend` |
| | `FilesInSubmissionOrder` | `JournalOrder` |
| | `NoRecordUncounted` | `EachRecordCountedOnce` |
| | `NoRecordStranded` | `NothingLeftBehind` |
| | `NothingMissing` | `NoHoleInTheJournal` |
| | `RetentionIsBounded` | `RetentionBound` |
| | `WriterKeepsTheJournal`, `WriterKeepsTheJournalInJournal` | `KeepsTheJournal` (implements `RetainedJournal`) |
| | `HooksInvariant`, `LinesAreReadable`, `BodiesGoFirst` | (`HooksInv`, and the two properties of the part alone) |
| | `LinesAreReadableInJournal` | `RecordsAreReadable` |
| | `BodiesGoFirstInJournal` | `NoBodyCostsTheLine` |
| `JournalScan_proofs` | `ScanInvariant`, `LeavesNothingOut` | (`ScanJournalInv`, and the property of the part alone) |
| `CaptureWriter_proofs` | `ScanLeavesNothingOutInJournal` | `ScanLeavesNothingOut` |
| `Readers_proofs` | `ReadersInvariant`, `ReaderTypes` | (`ReadersInv`, `TypeOK`) |
| | `RecoverySkipsNothing` | `ReplaySkipsNothing` |
| | `RecoveryOwnsTheRest` | `ReplayOwnsWhatFreshSkipped` |
| | `InvocationsNeverOverlap` | `OneChildAtATime` |
| | `ProgressIsKept` | `ProgressIsNeverUndone` (action property) |
| `SystemRouting_proofs` | `RoutingInvariant`, `RoutingTypes` | (`Inv`, `TypeOK`) |
| | `SettingsAreNeverLost` | `NothingIsLost` |
| | `ForeignProxiesAreSpared` | `ForeignIsLeftAlone` (action property) |
| | `StopsAreDirect` | `StopsOnlyWhenDirect` (action property) |
| `Background_proofs` | `BackgroundInvariant` | (`BackgroundInv`) |
| | `RegistryIsUsable` | `RegistryStaysUsable` |
| | `ProvidersKeepTheirCode` | `RunningCodeStays` |
| | `BindingsStand` | `LiveBindingsStand` |
| | `JobIsLoadedWhenWanted` | `LoadedWhenWanted` |
| | `OnlyAddChangesAuthority` | `OnlyAddReauthorizes` (action property) |
| `Parts_proofs` | `OneWorkerInParts` | `OneWorkerPerReader` |
| | `DocumentsKeepTheirScriptsInParts` | `DocumentsKeepTheirScripts` |
| `Freshness_proofs`, `Parts_proofs` | `LooksKeepToTheRation`, `LooksAreRationedInParts` | `LooksAreRationed` |
| `Parts_proofs` | `KeptIsQueuedInParts` | `KeptIsQueued` |
| | `PublishedUnderGrantInParts` | `PublishedUnderGrant` (action property) |
| | `WaitsAreKnownInParts` | (none: `WaitsAreKnown` of `Pages`) |
| | `AnswersAreFinalInParts` | (none: `AnswersAreFinal`, an action property of `Pages`) |
| `Installer_proofs`, `Parts_proofs` | `Recoverable`, `UpdateIsRecoverableInParts` | `UpdateIsRecoverable` |

**Writer.** `WriterAssumption`: positive limits, a record line of at least two bytes, sentinels that are no numbers or records.
None of the file properties is inductive alone. That a new line follows no torn one needs `TornInv` (a torn chunk is the one an append left,
and an open handle has none behind it) and `ControlInv` (a handle is open only with no rollback pending, except inside
an append, where the offset is just before the last chunk). That a failed append stays last needs the same offset, and that the record in hand
was never filed before: `FreshIds` orders the ids in files, in hand and in the queue. `JournalOrder` also needs `NewestStamp`: pruning leaves the newest archive or none, so
that a stamp above the newest existing name is above all of them. `WriterStep` takes one lemma per action; facts about `open_stream()`, which three actions share, are
`OpenStreamFacts` and `OpenStreamKeeps`. The accounting theorems use the invariant and a lemma per settlement. `NoHoleInTheJournal` is inductive with `ConfirmedStands` (`KeptInv`): what is confirmed in
`stream.jsonl` is whole and not behind the rollback offset, so that no rollback and no repair of a tail can take it away; pruning removes a prefix of the archives and so leaves no hole.
`RetentionBound` is inductive as `SizeInv`: the worker has checked the threshold before it stands at its append (`pc = "write"`), and inside the append the bound is
that of the file without its last chunk, as the check was before the bytes were there. The size of a file is a recursive function (`Bytes`), about which the lemmas prove what an appended and a cut chunk do to it.

**The journal.** `KeepsTheJournal` says that the writer implements `RetainedJournal`, where the journal is one sequence and the writer has it in several files. `Journal` flattens them in the order of their stamps; the proofs go by
way of `WholeIds`, the *set* of the ids of complete lines: `JournalFacts` shows that `Journal` ascends and has these elements, and `UpIsUnique` that an ascending sequence is known by its elements. So no step needs a computation with
sequences: `ForgetsWhen`, `RetractsWhen`, `ExtendsWhen` and `ConfirmsWhen` say, of the set, which step of `RetainedJournal` a step of the writer is, and each action of the writer has a lemma that gives it one of these (`PromiseStep`).
That retention takes the oldest lines (`OldestArePruned`) uses `JournalOrder`; that only the last line is taken back, `InDoubtFacts`. One fact joins `WriterInv`: `nextId <= MaxRecords` (`FewRecords`), as `Ids` of the abstract
specification ends there. `Journal` is written with `FlattenSeq` and the names in their order by CHOOSE; `NamesFacts` proves that there is such an order of any finite set of stamps.

**Scan.** `Bounds`: retention counts and the number of archive names are numbers. What the property compares, the confirmed lines and the lines of files that may be pruned by now, no variable relates: `start`, the number of lines confirmed before
each file began, is a history that only the proof needs, and the invariant (`ScanJournalInv`) says that *some* `start` fits; each step keeps it or extends it by one file. `DiskInv` describes the files: the archives are the files just before the
current one, and only the current one may be empty or end in doubt. The rest follows the scan: `OpenedInv` (an opened file has, under whatever name, what was confirmed before the scan), `NameInv` (a file with such
lines that the listing missed, because it was renamed, is found missing when the names are compared), `Consecutive` (files that were verified follow each other), `Identified` (a file without a first line
had nothing to miss) and `ReadInv` (what was read are consecutive confirmed lines, and at most one `Stray` behind them). A `Stray` is whole and waits to be counted (`Unconfirmed`): no step takes such a line back, as only unfinished ones are, and so it is
confirmed by the time another line follows. That is why a scan that reads other lines than those it could see when it opened a file still reads consecutive ones.

**Hooks.** `LinesAreReadable` (the lines that are written are readable) and `BodiesGoFirst` (no body costs a line) follow from `HooksInvariant`, assuming `Limits`: lengths are numbers, `None` is neither a number nor a body, and the initial limits satisfy `CaptureLimits`, that is a line has room for
twice the largest body and one more (what `capture.py` 122-127 checks when it reads the configuration). The invariant says more than the
properties: what the response hook submits already satisfies `validate_record`, *and* a base64 body fits without the request's body. The second half is needed because `fit_record` leaves
`body_encoding` behind when it drops a body, which `validate_record` refuses; base64 never grows to twice the bytes, so that case does not come up. And each body that is kept is UTF-8,
so that only the texts nobody checked can make the encoding raise. `DecisionFacts`, `ReconciledFacts`, `BodyFacts` and `RequestFacts` follow the
hooks, `FitFacts` the worker.

**Readers.** `ReplaySkipsNothing` fails by a step that moves a cursor to a line although an earlier one was not handled, so the invariant has to say what a run still has in its
hands: `Ahead` (in `RunInv`): no line of the journal behind the cursor and before the last entry is missing from the entries, and they ascend. Lines can still disappear (pruned, rolled back) or be appended
meanwhile, which is why it speaks of the lines that are there *now* and of `spent.lines`, above which no position is (`PositionsInv`). `ChildInv` ties the one child to the run or to an orphan's lock, and to
the checkpoint that names it; `AttachedInv` keeps recovery attached before fresh delivery.

**Routing.** `NothingIsLost` rests on `NetworkLeaseInv` (who reads or writes settings for a routing that owns them has the network lease, so that no two commands restore and take over at once) and `TodoInv` (what is still to be
written can be given back by the snapshot). `StopsOnlyWhenDirect` needs `ProfileLeaseInv` and `ReleasedInv` (behind `restore()` nothing is owned), and the hypothesis `SessionsApart`: no session
has both a repair and a routing set. It is not a convenience: `routing_repair` is the counterexample without it, finding 3 of section 8; all sessions of `routing_safety` satisfy it.

**Packs and scheduler.** `CommandsAssumption` (in `PackCommands`, evaluated by TLC): sentinels are no packs or versions, what a manifest lists is finite, and a scenario begins with a registry that loads and composes. The parts of `BackgroundInv`:

- `LeaseInv`: what each process holds at each position (`Holds`), by pack for keyed commands, and the scheduler's lease on the head of its list. Everything else rests on it.
- `ChildInv`: whoever runs a provider has its lease, or an orphan has (`Minded`), so no keyed command can touch its code. `ProvidersKeepTheirCode` follows; `pack add` never removes a version, which is why it may go on beside.
- `RegistryStaysUsable` is inductive once candidates are known to load: a lemma for each kind of candidate (`RecordedFacts`, `ActivatedLoads`, `RolledBackLoads`, `DisabledFacts`, `UninstalledFacts`). That a registry with *fewer* packs
  enabled still composes is not obvious, since an order of page resources is found by an algorithm. `FewerCompose` proves it: Kahn's algorithm fails exactly when some set of nodes has no first one
  (`TopologicalFails`, `OrderExists`), and such a set of fewer packs is one of more packs.
- `NoQuarantine` and `LoadedInv`: the LaunchAgent is loaded when something is `Wanted`, except while a command is on its way to reconcile; unless files were changed no job is quarantined, so wanted and due to be scheduled are the same (`TasksAreWanted`).

`OnlyAddReauthorizes` follows from `LeaseInv` and `ChildInv` by the frame of a command's step (`CommandFrames`).

**Controller and session observation.** That a reader has never two workers follows from `WorkersInv`: a thread is the one the controller has on its list, with what it runs and what it was told. `PublishedUnderGrant` needs
`GrantInv` (under the lock the grant is what it was verified to be) and `AgeInv` (published is no newer than in hand, in hand no newer than kept); `KeptIsQueued` needs that a key is never queued
twice nor queued and in hand (`QueueInv`). Hypotheses: `NoneIsNoJob`, `NoneIsNoNumber` (the sentinel is no value). `Parts_proofs` and `LinesAreReadableInJournal` carry these
into the compositions that the runs check: the `Same...` lemmas say that the part is the module, and a step of the composition is one of its part.

**Page and Hub.** What the runs check of `Pages` is liveness, which the prover does not reach; what it rests on is safety. `WaitsAreKnown`: a call waits exactly when the page or the Hub has a place for it, where its answer, its
time limit, the end of its socket and the end of the Hub look; a place that outlived its call would count against `HubCommands` or `PageRequests` for good, and a call without a place would never be answered. `AnswersAreFinal`:
the first answer of a call is its last, in whatever order a result, a time limit and the ends of both sides of a socket come. The invariant adds `AskingInv` (the page asks in a session only, over a socket that the Hub
had) and `Conns` (nothing came over a socket that the Hub never had). Hypothesis `CommandsAreNoRequests`: the ids of the two kinds are different (`randomUUID`, `hub.mjs` 75 and `page-runtime.js` 325).

**Installer.** `SetupsAreUpdates`: installations as `update.py` finds them, and nobody who began to finalize rolls back (`loyal`; `installer_claim` is the counterexample without it, section 8); `RuntimesAreNamed`, `NoneIsNothing`: names are different.
What a process may do is what is left of its plan, so the invariant speaks of the steps that are *left*. `MayTake` and `InOrder` are about the plans alone: no step that is left may come after one that is left before it (`Wrong`: no backup of
an item after it was replaced, no snapshot discarded before the record is written), and what is dropped is brought back (`ComesBack`). `Whatever` holds between and during operations, also when one was cut off: whatever A had is in place or kept, a
pending record or a kept item comes with the recovery directory. `During` and `Restoring` say for each item, file and mark that it is as the operation will leave it or that the step for it is still left. An operation that is cut off leaves `Whatever`,
from which any rollback starts. The plans are sequences that the proofs take apart by `FlattenSeq` and `SetInduction`, for any list of runtimes.

**Bridge.** `DocumentsKeepTheirScripts` says what can be fetched now about a plan that was made earlier. `Sound`: the configuration in force was on the disk once, and each of its scripts is published under its origins, so that a new
document finds the scripts of its plan (`DigestsAreOpen`: a plan names no script its origin may not have). `Later`: no refresh takes a grant back, also one that fails or that turns the bridge off, so that an
old document keeps what it has (`PublishedInv`, which does not ask whether the origin is allowed just now: it may be again). Hypothesis `ScriptsAreListed`: the scripts of a configuration are a sequence.

**Freshness policy.** `LooksAreRationed` speaks of the history of looks, the policy of the account that is saved, so `FreshnessInv` says for each target what the account knows of its looks. `Counted`: every look that is
still in the window is among the attempts, whose number the policy compares with the budget; the looks of a window are then no more than the attempts and the new one, by an injection. `Accounted`: the last look is
in flight, or its failure is counted and its back-off set, or it brought something, so that a look that is cut off or never heard of again is a failure like any other. `InOrder` and `WakeInv`: one look a wake, and
between approval and start nothing of the target changes. Hypothesis `Times`: intervals are numbers, `WakeInterval` and `Window` positive, `None` no number.

**Recursion.** What a recursive function computes is proved by `SetInduction`: a set of numbers with 0 and each successor is all of them, which follows from the
library's facts about finite sets. With it the lemmas about file sizes (`Bytes`), filtered sequences (`AmongFacts`), the digests of a plan (`DigestsAreOpen`) and Kahn's algorithm hold for every input.

**Model-checked only.** Liveness, as fairness and ENABLED are beyond the prover: `ShutdownEnds` and `EveryLineIsDelivered`, `OffIsNeverBlocked`, `EveryJobRuns`, and of the parts `RollbackConverges`, `DocumentsCatchUp`,
`EveryCallIsAnswered`, `StaysReachable`, `RefreshIsNotLost`, `DocumentComesIntoForce` and `ServicesComeBack`. `TypeOK` of `CaptureWriter`, `Readers` and `SystemRouting` is proved (of `Background` as a part of its invariant); no run
spends a property on it.

## 10. Mutants

Each property of a passing run has a mutated definition in `PROJECT.json`, kept beside the definition it replaces and marked "Mutant" in a
comment: a plausible bug (a lease that leaks, a torn tail left, a snapshot removed before verification) with which TLC finds the property violated.

## 11. Not modelled

- **Drain proxy** (`drain.py`): socket I/O whose state is a deadline and a count of connections.
- **Status, doctor and where views, projection, passthrough**: read-only reports, conversions and data.
- **Readers**: definition fingerprints, the recovery-only loop of `tap replay`; in the journal, cursors and records of the legacy form, and the limit of 64 segments, which makes
  every scan fail when `keep_rolls` is set higher (it has no upper bound in `capture.py`; the only hazard without a property).
- **Lifecycle**: the first installation, removal of a network service for good, the traffic probe.
- **Packs**: fetching and unpacking artifacts, the syntax of manifests, the doctor report.
- **Bridge**: rewriting of HTML, headers and CSP beyond whether a document gets its scripts.
- **Installer**: recording a first installation, grants for sudoers and the certificate, revocation and removal.
- **Power loss** everywhere: a crash loses memory and never bytes the file system has accepted.
