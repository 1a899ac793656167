# kimi-lastcall in TLA+

A model of [kimi-lastcall](../src/README.md), checked with TLC and, for its
central safety properties, proved with TLAPS. Paths below are relative to
`src/src/kimi_lastcall/` unless they say otherwise.

kimi-lastcall keeps a long-lived Kimi Code session in a managed tmux pane from
ending without a hand-off letter, and moves the pane on to a new session when
the letter is there. It has two halves: the *Relay gate*, a hook that blocks a
stop until a letter was written, and the *last-call controller*, a local server
that types `/new` and accepts the new session only on evidence.

## 1. Inventory

### Components, state and operations

| Component | State it keeps | Operations | Modelled in |
| --- | --- | --- | --- |
| Controller, `controller.py` | on disk: binding, pending SessionStart identity, switch marker, receipt, automatic request; in memory: `_lock`, `_auto_thread` | `status`, `confirm`, `_execute_switch`, `queue_auto_handoff`, `run_auto_handoff_worker`, `resume_auto_handoff`, `adopt`, `reconcile_pending`, `update_settings` | `Controller`; `update_settings` in `SharedFiles` |
| HTTP server, `web.py` | none but the controller's | `do_POST`, one thread per request; `make_server`, `serve` | `Controller`, `LastCall` |
| SessionStart hook, `adoption.py` | creates the pending file | `adopt_from_hook`: freeze the identity, POST it | `LastCall` |
| Stop hook, automatic half, `automation.py` | a flock on the session's lease file, held until the hook process ends | `request_from_stop_hook`, `wait_for_hook_exit` (controller side) | `LastCall`, `Controller` |
| Relay gate, `gate.py` | per session: demand anchor, block counter, skip file, skip-used file; one `handoff_missing.json` | `handle_stop`, `handle_session_start_notice` | `RelayGate`; threshold `Trigger`; reads of others' files `SharedFiles` |
| Owner-only files, `secure.py` | - | atomic replacing write, exclusive write, guarded removal | `SecureFile`, abstractly `PrivateFile` |
| Binding and artifacts, `binding.py` | - | `wait_for_session_artifacts`, `validate_session_artifacts`, load and save | `Artifacts`; load and save in `Controller` |
| tmux driver, `tmux_driver.py` | - | `send_new`, proof of the seat | three outcomes of `SendNew` |
| Command line, `cli.py` | config.json, hook block in Kimi's config | `serve`, `done`, `set-mode`, `set-trigger`, `install`, `uninstall`, ... | `HookBlock` (`install`, `uninstall`), `SharedFiles` (`set-trigger`, the token), `LastCall` (`serve`, `done`, `set-mode`) |
| Configuration, `config.py` | control token | `ensure_control_token`; loading and validation | token in `SharedFiles`, mode in `Controller` |
| Warnings `compat.py`, panel `web/`, `__main__.py`, template | - | - | not modelled |

### How they interact

    Kimi --Stop--> gate.py --(fresh marker, automatic)--> automation.py
                                                            | POST /auto-handoff
    Kimi --SessionStart--> gate.py --> adoption.py          v
                                          | POST /adopt   web.py --> Controller
    person --confirm--> web.py -----------+--------------->   |       |
                                                              |    state dir
    Kimi <------------- tmux <---- /new typed ----------------+

Hooks are processes of their own: they share the state directory, the lease
file and an HTTP request with the controller, and may be killed at any time.
The controller's threads share `_lock`, always taken without waiting by
`_execute_switch`, `queue_auto_handoff` and `adopt`, and with waiting by the
sections of the worker. Nothing under `_lock` covers the SessionStart hook's
creation of the pending file, the worker's reads before its decision, the
typing of `/new`, or the poll for the new session.

Two more files are shared with programs that know nothing of each other's locks.
`~/.kimi-code/config.toml` belongs to Kimi; `install` and `uninstall` rewrite it, and
the Stop hook reads the capacity of the model from it. `settings.json` holds the
threshold, written by the panel and `set-trigger`, read by the Stop hook.

### What is hard

- Five files written one after the other by several threads and processes,
  with a crash possible between any two writes, and repaired only by the order
  of the writes and by `reconcile_pending` / `resume_auto_handoff`.
- `/new` is typed into a terminal: the program cannot know whether it arrived.
- The new session announces itself by a separate process, late, twice or never,
  or a person starts one meanwhile.
- The Stop hook must be gone before `/new` is typed; the only evidence is a
  kernel lock that another hook of the session can take again.
- Nonblocking locks with no retry.
- In the gate: two time stamps on a coarse clock, counters that a killed hook
  leaves truncated, one-shot semantics for letters and skips, and one record
  of a missing letter for all sessions.
- A threshold accepted for one capacity and read for another.
- A user's configuration file rewritten in place, by commands that may die.
- `adopt` waits for files of a session whose creator waits for `adopt`.

The list with a source line for each is `hazards` in `PROJECT.json`.

### What makes each component correct

- *Files of the controller.* A marker names the session that is being left; a
  completed receipt names the bound one; a marker, a frozen identity and a
  binding are each given up only for a reason that is on disk (§3, Manual).
- *Switch.* It ends as completed only for its own operation; and it ends, or leaves the
  identity of the new session for the next start to adopt.
- *Automatic request.* It ends as completed only if such a switch was adopted;
  `/new` is typed once, after the hook has gone, and never in manual mode; the
  request reaches a final status, or stays queued with no worker and is taken up
  by the next start.
- *Server.* The lock is released, the worker ends.
- *Gate.* It blocks at most `MAX_BLOCKS` times; skips once, and a second time only if
  there was no state directory to record the first in; lets a letter release one stop
  and always the next one; a window that left no letter is told
  of once; the trigger lies below the limit of the model.
- *Private files.* Readers see complete contents or a file still being created;
  creation is exclusive; what is removed is a complete file (`PrivateFile`), the one that
  was read (`FileInv` of `SecureFile`).
- *Hook block.* The user's lines survive, in order, every sequence of commands.
- *Artifacts.* A fresh session is adopted without waiting for its wire, and the
  cursor bound with a session never skips a row.

## 2. Modules

| Module | Models |
| --- | --- |
| `Controller` | the state directory and the `serve` process: one action per step that other threads, hooks or a crash can come between |
| `LastCall` | `Controller` with its surroundings: Kimi's pane, SessionStart and Stop hooks, people, crashes; properties, fairness |
| `Rollover` | what the controller promises: one bound session, replaced only by the end of a switch that names it |
| `RelayGate` | the gate's files, with time |
| `SecureFile`, `PrivateFile` | the system calls behind a file of the state directory; what their callers take such a file for |
| `Trigger` | the arithmetic of the threshold: ratio, clamp, slider, explicit setting |
| `HookBlock` | `install` and `uninstall` on Kimi's `config.toml`, line by line |
| `Artifacts` | Kimi's files of a session and the wait of `adopt` for them |
| `SharedFiles` | the four together: commands, panel, `configure`, `serve`, hooks, Kimi and people on the same files |
| `MCLastCall`, `MCSharedFiles` | budgets, contents and symmetry for TLC; `RelayGate` needs nothing besides its constants |
| `LastCallProofs`, `OwnershipProofs` | theorems about `LastCall`: its files, which implement `PrivateFile`; whom a result belongs to, and the refinement of `Rollover` |
| `HookBlockProofs` | what `remove_block` computes for every text, and the invariant of `install` and `uninstall` |
| `RelayGateProofs`, `TriggerProofs`, `ArtifactsProofs`, `SharedFilesProofs` | theorems about the others |

`LastCall` extends `Controller`: every action of the controller occurs in it
together with what a hook learns from it. It uses only one bit of the gate
(`fresh`: would `marker_fresh` hold?), whose meaning `RelayGate` works out; the
two are separate because time and counters have no influence on the controller.
`SharedFiles` extends `HookBlock`, `SecureFile`, `Trigger` and `Artifacts`, and each of its
actions is a step of one of them or reads what another one writes. It is
separate from `LastCall` because the two meet only in `pending`, which `LastCall`
takes for what `PrivateFile` says. Both sides of that are checked and proved: the system calls of
`SecureFile` do no more than `PrivateFile` allows (`RefinesPrivateFile`), and what
`LastCall` does with `pending` and the marker is what `PrivateFile` allows for two created
files (`RefinesCreatedFiles`): created when absent, complete after that, removed
only when complete, never two changes at once.

### Correspondence with the code

`Controller`'s first group of variables are files: `binding` is
`current-binding.json`, `pending` the frozen SessionStart identity, `switch` the
marker of `_execute_switch`, `receipt` the last receipt, `request` the automatic
request. `marked` are the sessions with a done marker, `mode` is `switch_mode` in
`config.json`, `loaded` the mode `serve` read. `sw[t]` is the place of thread `t` in
`_execute_switch`, `wk` that of the worker, `srv[h]` that of the HTTP thread of hook
`h`, `adopt` that of whoever runs `adopt`. A section under the lock is one action
if it writes at most one file and its reads see only files that are written
under the lock; otherwise it is split at each write (`Take`, `Free`, `Pass`). Replacing
writes are atomic (`os.replace`); exclusive writes leave the file `Torn` for a step.
`ops`, `receipts` and `sent` are history for the properties.

A step that reads something the model does not hold (hand-off files, tokens,
the tmux seat, artifacts, the outcome of the callback) has an alternative for its
failure: `ExecuteSwitchRefused`, `QueueRefused`, `WorkerNotReady`, `AdoptFails`.
`SendNew` may type and succeed, type and fail, or fail.

Consecutive unlocked reads are merged when nothing distinguishes the merge:
`StatusReady` reads all of `status()` at once (pending, the only file written without
the lock, can also appear in the next step); `WorkerInspect` reads the binding and
`WorkerMoved`/`WorkerStayed` the receipt and the marker; `Poll` reads the binding and
`PollCheck` the marker and the receipt. A thread that finds its switch settled answers
with a whole `status()`, which may raise on a file that is just being created
(controller.py:342, 355): it ends in either of `SettledEnds`.

The branch of the worker in which the request changed before `running` is not
modelled: a request is replaced only when it is final, and only the worker ends
it (`WorkerEnds` would find the worker stuck there). `FileExistsError` of the marker
is not either: `SwitchCreateIsExclusive` is the property that says so.

In `RelayGate`, `marker`, `demand` are the mtimes of those files, `count` the counter (or
`Corrupt`, what a truncated file is read as), `gate[s]` the place of the hook in
`handle_stop`, with what it has read: the counter, or the time of the marker. `dir`
says whether the state directory exists. Where only the hooks are installed nothing has
made it (cli.py:224), so both cases are initial states; `Letter`, the counter, the record of a missing
letter and `audit` create it, `consume_skip` does not. A skip is three steps: the file is removed
(`StopSkip`), its use recorded if there is a directory (`StopSpend`), and `audit` creates the
directory (`StopSkipped`). `consume_marker` is two: `StopTouch` reads the marker and touches
the demand, `StopRelease` moves it. A tick is the resolution of the file system's clock. Kimi runs one
Stop hook of a session at a time with a turn of the model in between, so a
session has at most one hook per tick (`ran`). The SessionStart notice reads
`missing`, tells the next window, and then truncates (`NoticeOpen`) and writes
(`NoticeWrite`) the record; `StopMissing` truncates it and `StopRecord` writes it. `news`
is history: what became of the last record.

In `SecureFile` each action is one system call that others can see, or the last of
several that they cannot: the temporary file has a random name, so its creation,
writing and syncing are `ReplaceTemp`, and `os.replace` is `ReplaceCommit`.
`remove_private_file` is two actions, a read and an unlink by name. A process
may die between any two.

In `HookBlock` a file is its lines and whether the last one ends in a newline.
`write_text` truncates and then writes, so each rewriting is two actions
(`InstallOpen`, `InstallWrite`); `cli.read` is the content the command works on, `text`
the user's lines as history. `RemoveBlock` is the loop of `remove_block` with its
depth: nested markers are removed, an end marker without a beginning stays. `Keep`
and `Depth` are recursive functions on the positions of a text. The original file and
the user's lines are taken to hold no marker of their own (`BlockConstants`).

`Trigger` is translated function by function; `Round` is Python's `round`, ties to
the even integer. In `Artifacts` the checks of `validate_session_artifacts` come in two
steps, the directory and `state.json`, then the wire, because Kimi may write in
between; what is missing is waited for, what is wrong fails the adoption.

In `SharedFiles` `cmd[p]` is what a process decided on what it read: the threshold
with the capacity it was checked against, or the token it drew. `StopUsage` and
`StopTrigger` are the two reads of the Stop hook, of config.toml and of
settings.json.

## 3. What TLC checks

Sessions are model values and interchangeable: `SYMMETRY` over them (and over
the confirm threads) is used where a run has no liveness property. Bounds are
the number of events of each kind (`Budget`), of operations and of requests; a
bound stops the event, never a step that has begun, save that an operation above
`MaxOps` and a request above `MaxRequests` are refused. `CHECK_DEADLOCK FALSE` stands
in every configuration because the system may rightly stop: with the events used
up all threads are idle, and the gate's clock ends.

| Run | Instance | Shows |
| --- | --- | --- |
| `Manual` | 3 sessions, 2 confirm threads, 2 sessions by hand, 2 crashes, 2 operations; 0.70 M states | types, the inductive invariant, and the safety of the files; `RefinesCreatedFiles` |
| `Mixed` | 3 sessions, 1 confirm, 1 Stop, 1 crash, 1 change of mode; 1.9 M states | receipts are not mistaken for one another; manual mode types nothing; the invariant behind both; `RefinesRollover` |
| `Progress` | 2 sessions, 2 Stop hooks, 1 crash, 2 operations, 2 requests, everything may fail; 0.45 M states | `TypedAfterQueuingHook`, `TypedOnceUnlessRestarted`, `FinalMayOnlyFail`; `LockIsReleased`, `WorkerEnds`, `RequestSettles` |
| `Settle` | 2 sessions, 2 confirm threads and 2 confirmations, 1 Stop, automatic mode, nothing around the controller fails; 0.16 M states | `SwitchSettles` |
| `Gate` | 1 session, `MaxBlocks` 3, 10 ticks, with and without a state directory, markers dated up to 3 ticks ahead, skips armed by file and environment; 2.5 M states | `BlockLimit`, `SkipOnceIfRecorded`, `DemandNearNow` and their invariant, `OneShot`, `AnswerCounts`, `NextWindowIsTold` |
| `SharedFiles` | 4 commands, hooks or edits of any kind, 1 command of `cli.py` and any writer killed, texts of up to 3 lines, wires of 2 rows, 2 processes, 3 models; 1.3 M states | `UserLinesKept`, `Recoverable`, `BackedUpUnlessKilled`, `TriggerBelowLimit`, `AcceptedIsShown`, `CapacityAsWritten`, `TokenAgrees`, `FreshSessionIsBound`, `CursorWithinWire`, `RefinesPrivateFile` |

Why the bounds suffice: three sessions are the one left, the one reached, and a
third that does not belong to the switch; two operations are one and its
successor, which is what stale receipts and markers need; two hooks are one that
queues and one that comes in between; two crashes are one in the middle of a
switch and one in the middle of its repair. The liveness runs have two sessions, the
one left and the one reached; symmetry cannot be used in them. `Settle` has three parties
that compete for the lock when the new session is to be adopted: the two
confirmations, one of which runs the switch or neither, and the request of the Stop hook with its
worker. One operation is enough, as any other one is refused while the marker is there. An older SessionStart hook needs a
second session started by hand and a third to come; with those, manual mode and no Stop (0.14 M
states) the property holds as well. In the gate ten ticks are enough for a skip,
three blocks with their letters and releases, and the limit, with the clock
moving or standing in between; a tick is half a second. One session
can leave a record, be told of, and leave another; that two sessions add nothing
but overlaps is proved (`NextWindowIsToldHolds`).

In `SharedFiles` four commands are an install, an edit, an uninstall and one more, or
two that race and two that read the result; a process that dies in between is not
one of the four. The values are chosen at the edges of the arithmetic: a declared
capacity below one step (40 000), one whose 70 % is halfway between two steps
(250 000, where round half to even matters), one model that is unknown, a
threshold above the ceiling for an unknown capacity (300 000), one that is no
multiple of a step (120 000), ratios at 5, 70 and 99 %. The original file is absent,
empty, without a final newline, or begins with a blank line. What TLC cannot say
of other values and longer texts the theorems do.

### Fairness

`FairSpec` assumes that the threads of `serve` run (weak fairness of each), that the
deadline of the poll loop is met although the loop is at times in the middle
of a round (strong fairness of `PollTimeout`; the code reads the monotonic clock in
every round), and that `serve` is started again after a crash (README.md:132,
"under your normal process supervisor"; crashes are bounded by the budget, as always
in liveness). Nothing is assumed of Kimi, people or hooks; `LockIsReleased` and
`WorkerEnds` hold all the same.

`RequestSettles` too needs no more than that, with every fault of the model allowed. It
is in two parts. While `serve` is up a request becomes final or is left `Unattended`:
queued, with no worker and no thread about to start one. That happens when the hook is
gone at the 202 (web.py:183) and when the last worker is still in its `finally`
clause (`TwoStops`), and nothing is done for such a request while `serve` runs. And every active
request that a start of `serve` finds becomes final, or `serve` stops again.

`CooperativeSpec` adds: no dialog swallows `/new`, hooks are not killed, adoption does
not fail; Kimi reads what was typed and the hooks run; the controller is started
before Kimi. `SwitchSettles` needs this: a switch whose `/new` was
swallowed stays open on purpose (README.md:179). It says that a switch ends while `serve`
is up, with one exception, `LeftForRestart`: the identity of a session is frozen, its hook has
ended, and no one is adopting it. `adopt` takes the lock without waiting (controller.py:660),
so whoever has it at that instant (a second confirmation at its preflight, the
request of a Stop hook, the worker as it finishes, the hook of an older session) makes the
new session's SessionStart fail for good; an older frozen identity makes it fail as well. The switch then
stays open, and the next start of `serve` adopts what was frozen or, if it may not be
adopted, ends (`NoPanel`).

### Where the code and its documents differ

Each of these runs checks one statement of a document, comment or test that the
code does not keep. TLC prints a trace.

| Run | Statement | What happens |
| --- | --- | --- |
| `StaleWorker` | the persisted status is authoritative and idempotent (gate.py:101-102) | a worker started for `already_queued` after the first one ended overwrites the final status, since `_finish_auto_handoff` compares only the id |
| `RestartRetypes` | `/new` once, not automatically retried (README.md:170, 179) | tmux error after delivery, marker removed, crash before the request is finished: the resumed worker types again |
| `TwoStops` | request persisted, then worker started (README.md:254) | `start_auto_handoff_worker` returns False while the last worker is in its `finally`; the request stays queued |
| `NoPanel` | after a restart the panel reports manual recovery (README.md:255) | a frozen identity that may not be adopted ends `make_server` before the port is bound, every time |
| `GateNotice` | the previous window left no letter (gate.py:93-97) | the record is not withdrawn when the session writes its letter after all |
| `TornBackup` | a backup copy is written before the first modification (cli.py:7-8) | an install that dies while it writes the backup leaves an incomplete one; the next install sees that a backup exists and truncates config.toml |

For two of them a passing run says what does hold. A late worker may only turn a
final status into `failed_closed`: nothing is declared successful or made active
again (`FinalMayOnlyFail`, in `Progress`). And config.toml is truncated only behind a
complete backup as long as no command was killed (`BackedUpUnlessKilled`, in
`SharedFiles`). Likewise `TypedOnceUnlessRestarted` for the second.

Some behaviours met while modelling have no run of their own.

- The worker waits for the lease once and lets it go (automation.py:94). Another
  Stop of the session, answered `already_queued`, may be alive when `/new` is typed
  (README.md:170). `TypedAfterQueuingHook` is what does hold: the hook that
  queued the request has gone.
- A person may change the session in the pane before `/new` is typed.
- `consume_skip` does not create the state directory and ignores the failed write of the
  skip-used file (gate.py:369-372). On a fresh install of the hooks alone, with the skip
  armed by the environment, the first stop is released without a record, `audit` creates
  the directory, and the second stop is released by the skip as well, whereas
  `tests/test_relay_gate.py:358-371` expects "one skip per session". `SkipOnceIfRecorded` is
  what does hold.
- A hook that is killed between the two calls of `consume_marker` (gate.py:147-153)
  leaves a letter of the same tick fresh; it releases the next stop again.
- A marker dated into the future releases more than once; `OneShot` excludes it.
  The block counter counts blocks that were answered as well (gate.py:503).
- A hook killed while it writes `handoff_missing.json`, or two that overlap, may
  lose the record or have it told twice; `NextWindowIsTold` says when it is not.
- A command saves what it read: a save by Kimi or a person in between is
  overwritten (cli.py:136). Lines put between the markers of the block go with it
  (cli.py:87). Uninstalling restores every line but not every byte: a missing
  final newline is added, and a file with only blank lines is removed.
- Where the capacity is at most 50 000 the slider still offers 50 000 (gate.py:299),
  which is then refused; `Writable` is stricter than `SliderMax`.
- A control token whose writer died is torn and refused from then on until someone
  removes it (config.py:217).
- A `state.json` found half written fails the adoption at once, while a missing one
  is waited for (binding.py:71).
- Two `serve` processes have a lock each, and the second runs `reconcile_pending`
  before it finds the port taken (web.py:205). See the plan.

Every property of a passing run is also shown to bite: `PROJECT.json` lists for each
a plausible mistake in the code (the definitions named `Mutant...`) under which TLC
finds it violated.

## 4. What TLAPS proves

For every set of sessions, confirm threads and hooks, every bound and budget,
from the assumptions `BoundsAreSound`, `NoneAndTornAreNoData` (the special values are
no sessions and no records), `OwnersAreDistinct` and `BudgetIsNatural`:

| Theorem | Property |
| --- | --- |
| `TypeCorrect`, `Safety` | `TypeOK`, `SafetyInv` |
| `SwitchNamesBindingHolds` | a marker names the session being left, or the adoption under way can be completed by a restart |
| `ReceiptNamesBindingHolds` | with no marker, a completed receipt names the bound session |
| `SwitchCreateIsExclusiveHolds` | the exclusive creation of the marker never finds one |
| `SwitchEndHasReceiptHolds` | a marker disappears only after its receipt was written |
| `BindingMovesOnlyUnderSwitchHolds` | a bound session is replaced only under a marker that names it |
| `PendingClearedWhenBoundHolds` | a frozen identity is removed only when bound and with no marker left |
| `CreatedFilesRefine` | the marker and the frozen identity implement `PrivateFile` |
| `OwnershipHolds` | `OwnershipInv`, the invariant behind the next six |
| `CompletedIsOwnHolds` | a thread reports only its own switch as completed |
| `AutoCompletedWasAdoptedHolds` | a request recorded as completed had an automatic switch adopted |
| `ManualNeverTypesAloneHolds` | a controller in manual mode never types on its own |
| `TypedAfterQueuingHookHolds` | `/new` is typed when the hook that queued the request has gone |
| `TypedOnceUnlessRestartedHolds` | until `serve` is restarted `/new` is typed once for a request |
| `FinalMayOnlyFailHolds` | a final status may only become `failed_closed` |
| `Refinement` | `LastCall` implements `Rollover` (also from `NoneIsNoSwitch`: a record is not `None`) |

For the gate, from `GateConstants`, for any number of sessions: `GateTypeCorrect`,
`GateInvHolds`, `BlockLimitHolds`, `SkipOnceIfRecordedHolds`, `DemandNearNowHolds`, `OneShotHolds`,
`AnswerCountsHolds`, `NextWindowIsToldHolds`.

For the threshold, from `TriggerConstants`, for all integers: `ReadTriggerBelow` (the
trigger lies below any limit above 1) and `WritableIsShown` (what may be saved is
what the panel and the gate use). For the shared files, from `FileConstants`,
`SharedConstants`, `ArtifactConstants` and `BlockConstants`: `SharedTypeCorrect`,
`TriggerBelowLimitHolds`, `AcceptedIsShownHolds`, `TokenAgreesHolds`, `FilesRefine` (all writers
together implement `PrivateFile`), `FreshSessionIsBoundHolds`, `CursorWithinWireHolds`, and
for texts of any length and any number of commands `BlockInvHolds`,
`UserLinesKeptHolds`, `RecoverableHolds`, `BackedUpUnlessKilledHolds`, `CapacityAsWrittenHolds`.

Every safety property of a passing run is a theorem. The two large invariants of `LastCall` are
checked in one run each, `SafetyInv` in `Manual` and `OwnershipInv` in `Mixed`; for the other
instances the theorems speak.

### The files of the controller

The invariant is `TypeOK /\ SafetyInv`, and `SafetyInv` has six parts. `LockInv`: a thread
inside a split section owns the lock, so there is one such thread. `SessionInv`:
a running step knows its session. `SwitchInv`: between the preflight and the
writing of the marker the binding and the absence of a marker, as read, still
hold. `FreezeInv`: one hook at most is writing the pending file it created.
`AdoptInv`: in each step of `adopt` what the earlier steps read or wrote is still on
disk. `DiskInv`: the two file properties themselves. The file properties are not
inductive without the others: that `AdoptUnswitch` may remove the marker follows
from the receipt `AdoptReceipt` wrote, which no one overwrote because `adopt` has the
lock. A thread whose send failed also writes a receipt and removes a marker
under the lock; that it cannot spoil a completed adoption is the `drop` part of
`SwitchInv`.

The proof has a lemma per group of steps (`SwitchStep`, `WorkStep`, `AdoptStep`,
`BootStartStep`, `BootResumeStep`, `StopHookStep`, `HookStep`, `SeatStep`), each a case per
action; `DiskUntouched` frames the steps that write no file of the invariant;
`InvStep` puts them together. The action properties use `Writers`, which says which
actions write the binding, the marker and the pending file.

### Whom a result belongs to

`_execute_switch` takes whatever completed receipt it finds for its own, the worker
finishes a request by its id, and a worker may be started twice for one request.
`OwnershipInv` says why nothing goes wrong while `serve` runs.

`OpInv`: an operation id is used once, and every receipt has an id that was given.
`CreditInv`: while a thread waits, either its marker is still on disk or its completed
receipt has been written; a completed receipt that carries the id of the marker on
disk is the one that `adopt` is about to complete, or a crashed `adopt` left, for
the bound session, and no thread has that id unless `adopt` is at the removal. So a
thread that finds no marker finds a receipt, perhaps of another switch, but its own
was written before: `CompletedIsOwn`. A thread whose send failed writes its failed
receipt only while the marker is there.

`RequestInv`: who holds an id of a request knows its session; past the claim the
request is the worker's and active, since only a final request is replaced and only
the worker that claimed it ends it. The same is so of a worker about to record any
verdict but `failed_closed`, the one that a worker reaches without the claim when
its wait for the lease times out; this is what `FinalMayOnlyFail` needs. `StatusWriters`
lists the five steps that write the request. `ServeInv`: no thread before the port is bound, and
the worker is past the preflight only if the loaded mode is automatic. `LeaseInv`: a
hook that is alive holds the lease, and a worker for its request has not got past
the wait. `TypedInv`: as long as there was no crash, a request for which `/new` was typed
is final, or still in the hands of the worker that typed. A crash breaks exactly
this one (`RestartRetypes`), which is why it is conditional.

The refinement reads `Rollover`'s variables off the disk: while a marker is complete its
old session still counts as bound and a completed receipt with its id does not count
yet, so that the four writes of `adopt` are stutters up to the removal of the marker,
which is `Complete`; `DropSwitch` is `Fail`, since no completed receipt has that id
(`CreditInv`); the writing of a torn marker is `Begin`. `SwitchMaps`, `SaveMaps`,
`ReceiptMaps` and `UnswitchMaps` are the cases.

### The gate and the shared files

`CounterInv`: a hook about to block has already counted the block on disk, or left the
counter unreadable, which counts as full. `SkipInv`: one about to spend the skip
found it unspent; a session that has skipped without a record has a directory by then, so its
next skip is recorded, and each skip that is recorded is the last. `TimesInv`: a hook about to
move the demand still holds the time of the marker it releases; a used letter is older than the demand and, a turn
later, older than the clock, so that a demand stamped back to the clock keeps it
stale; an answer is as new as the demand. `NewsInv`: while a record is written it is
torn, and an untold record on disk has no notice under way.

`FInv`: who creates a file is alone with it until it is complete, and what is about
to be unlinked is what was read; creators cannot get in between because the file
exists. `CmdInv`: a threshold on its way to the disk was accepted for the capacity it
was read with; a token on its way is the one the process will go on with. With
`RemoverInv` (only the pending file is ever removed) a token that is in the file stays
there. `TriggerBelowLimit` then needs nothing of the settings, since `ReadTriggerBelow`
holds for every content. `ArtifactInv`: while `adopt` waits for a fresh session Kimi has
not created the wire, so no check finds it unfinished.

### The hook block

What `remove_block` does for every text is proved in `HookBlockProofs`. The provers
cannot instantiate an induction theorem that takes a predicate, so the induction is stated
with a set: a set of numbers that has 0 and is closed under successor has every
number, by the least one that would be missing (`SetInduction`, from `NatLessThanWellFounded`);
`SeqInduction` is the same for texts, from the empty one by appending a line. From it
come the recursions of `Keep` and `Depth` (`KeepRecursion`, `DepthRecursion`), their value
on an appended line and on two joined texts, and with them what matters: lines of
the user pass unchanged (`RestUser`), a block vanishes (`RestBlock`), and the two
together (`RestConcat`) give `RemoveBlockTidy`.

`UserLinesKept` is not inductive: it speaks of moments with no command under way. `Tidy`
says that a text is the user's lines with at most one block put in somewhere; `Good`,
that no line of the user is missing from it (blank ones aside). `WorkKept`: config.toml is tidy and
good, unless a command has just truncated it, and so is what a command under way has read;
it can only fail when a command is killed or overwrites an edit. `BackupKnown`: a backup
that is there is good, unless it is being written, and a file with a block in it
has one behind it, since install made it first. The first death leaves one of
the two intact, whichever step it comes at (`CliDeath`), which is `Recoverable`.
`BlockInv` is the conjunction; that it allows a second death nothing is not a
weakness of the proof: `TornBackup` is the counterexample.

`CapacityAsWritten`: the reader takes the first line that declares a capacity. No line of the
block does, so the first one in the file is the first one of the user's text
(`OnlyFirst`), whatever the block is put between.

### Files created by hooks and threads

`CreatedFilesRefine` maps `pending` and `switch` to two created files of `PrivateFile`. A torn file is one
under creation; the steps that complete it are `FreezeWrite` and `ExecuteSwitchWrite`, those
that remove it `AdoptClear`, `AdoptUnswitch` and `DropSwitch`. That the first two still find the
file they created follows from `FreezeInv` and `SwitchInv`, that `adopt` removes complete files
from `AdoptInv`, and that no step changes both from `Writers`.

### Only model-checked

All liveness: `LockIsReleased`, `WorkerEnds`, `SwitchSettles`, `RequestSettles`. It needs fairness
and so ENABLED, which the prover does not treat.

## 5. Not modelled

- Authentication, Origin checks, cookies and static files of the server.
- Owner, mode and link checks of files, and input/output errors of the state directory:
  a full disk is modelled only where `cli.py` writes Kimi's config.
- Parsing of Kimi's logs: what the wire and the transcript say of tokens used is an
  outcome of the environment. Of the capacity only the line that declares it matters.
- `configure`'s arguments and the validation of `config.json`; of its values only the
  mode and the token matter here, timeouts are nondeterminism.
- The proof of the tmux seat: it reads tmux and may fail at any time.
- The panel's page, the warnings of `compat.py`, `status`, `doctor`, `template`: they read
  and print.
- A `serve` that is started twice (below).

## 6. Plan

Done: `Controller` and `LastCall` with the manual and the automatic path, fairness and
liveness; `Rollover` and its refinement; `RelayGate` with the record of a missing letter;
`Trigger`, `SecureFile`, `HookBlock`, `Artifacts` and their composition `SharedFiles`; proofs of
all safety properties of the passing runs.

Left:

1. A second `serve` on the same directory, with a lock of its own: another instance of
   `Controller`'s `adopt` and `reconcile_pending` with `lock`, `adopt` and `serve` renamed.
   `AdoptVerify` must then be split, since the pending file is checked before the wait
   for the artifacts and the marker after it, and `AdoptUnswitch` and `AdoptClear` need an
   outcome for a file that is gone. Two processes that adopt the same session under the
   same marker write the same contents; the question is what happens when a new
   switch begins while the second one still waits.
2. The lease file as a file: `automation.py` creates it, and it is never removed.

## Running

    tlc -workers 2 -config Manual.cfg MCLastCall.tla
    tlc -workers 2 -config Gate.cfg RelayGate.tla
    tlc -workers 2 -config SharedFiles.cfg MCSharedFiles.tla
    tlapm LastCallProofs.tla
    tlapm OwnershipProofs.tla
    tlapm RelayGateProofs.tla
    tlapm TriggerProofs.tla
    tlapm HookBlockProofs.tla
    tlapm ArtifactsProofs.tla
    tlapm SharedFilesProofs.tla

`Mixed`, `Progress`, `Settle`, `StaleWorker`, `RestartRetypes`, `TwoStops` and `NoPanel` run like
`Manual`; `GateNotice` like `Gate`; `TornBackup` like `SharedFiles`. The longest take about
two minutes with two workers.
