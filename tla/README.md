# ponte, specified

`ponte` keeps SSH tunnels alive: a daemon runs one `ssh` child per configured
profile, reconnects it with a backoff when it ends, kills it when it is alive but
forwards nothing, keeps statistics in a JSON file, alerts on an outage, and applies
a changed configuration without dropping the tunnels that did not change. All of
that is threads: two per profile, a supervisor, two watchers, a worker per reload,
and signal handlers. This directory holds a TLA+ model of that program, the TLC
runs that check it and the TLAPS proofs about it.

## The system

| part | source | state | operations | properties that make it correct |
|---|---|---|---|---|
| ssh session, `TunnelManager` | core.py | `process`, `_connected_at`, `_last_session_duration`, the child | `connect`, `stop`, `is_running`, the port probes | a live child belongs to a running `connect()`; a stop ends the session it found |
| reconnect loop, `RetryRunner` | retry.py | `_stop`, `retries_used` | `run` (a generator), `stop` | the budget is kept; a stop ends the loop; the loop ends for no other reason |
| profile runner, `ProfileRunner` | daemon.py | the two threads, `error`, `_failures`, `_alerted` | `start`, `_run`, `abort`, `finish`, `_note_disconnect` | an abort ends the loop; one alert per outage |
| status file, `_StatusStore` | daemon.py | the JSON file | `begin`, `edit`, `remove`, `_record_retry_event` | counters agree with each other and survive restarts; sections match the configuration |
| alerts, `Notifier` | notify.py | the cooldown of each profile | `notify`, `send_test` | no alert too early, none twice |
| health monitor, `HealthChecker` and `_on_health` | health.py, daemon.py | the failure counter of each profile | `check`, `run_loop`, `_on_health` | a working tunnel is not killed, a zombie is |
| supervisor, `TunnelDaemon` | daemon.py | `config`, `_runners`, `_shutdown`, `_reconciling`, `_reload_lock` | `run`, `request_stop`, `request_reload`, `_reconcile`, `_retire` | runners match the configuration; nobody is forgotten; a stop ends the daemon |
| lifecycle | daemon.py, main.py | pid file, stop marker, process table | `start`, `stop`, `restart`, `_spawn_background`, `_force_kill` | one daemon at a time; stop stops it; nothing is left behind |
| web endpoint | serve.py | none (a snapshot) | `health_response`, metrics, dashboard, routing | every verdict agrees with the others and with the status |
| configuration | config.py | none (the file) | search, parse, validate, `daemon_paths_from_file`, `init_config` | what is accepted can run; a typo does not lock the user out |
| commands | main.py | none | every `ponte` command | they act on the daemon the user means |
| demo timeline | demo.py | none | `_locate`, `_events`, `_next_change` | what is computed of a moment is what living through it adds up to |
| diagnosis | doctor.py | none | independent checks, an exit code | no false alarm, no false comfort, the right part blamed |
| service installation | daemon.py | unit files | install, uninstall; respawn and stop hook | only I/O; what it does to the processes is the lifecycle's |
| legacy scripts | legacy/ | | | superseded |

How they interact. `ProfileRunner._run` drains the generator `RetryRunner.run`, which
blocks in `TunnelManager.connect`; every event it yields is folded into the status
file and into the alert logic before the generator goes on. Any other thread stops a
session by setting `_stop` and calling `TunnelManager.stop`, which shares
`self.process` with `connect()` without a lock. The health thread calls the same
`stop` for a zombie. The supervisor's list of runners is rebound by a reload worker
while the supervisor and the stop request iterate over it. The status file is the
only memory that outlives the process; `ponte status`, `ponte watch` and `ponte serve`
read it in other processes, while it is being written. The commands find a daemon
through the pid file their own configuration names, and talk to it by a marker file and
signals.

What is hard here: `stop` against `connect` (no lock); a flag that `run` clears in
its first statement; checks whose reads are seconds apart; a duration that a failed
launch leaves stale; a file that is emptied before it is written; a reload beside a
stop, beside another reload, beside the supervisor's own look at the list; threads
that outlive a join; a stop marker, a pid file and a service manager that know nothing of
each other; readers of a half-written file; a configuration that is edited while the
daemon it started runs. `PROJECT.json` lists each of these at its line under `hazards`,
with the properties that are about it.

## The modules

| module | models | built on |
|---|---|---|
| `Tunnel` | what one profile promises, without threads (abstract) | |
| `ProfileSession` | the reconnect loop, `connect`, `stop`, and every thread that calls them | refines `Tunnel` |
| `Accounting` | `_record_retry_event`, `_note_disconnect`, the counters of the status file, death and restart of the daemon | extends `ProfileSession`: the same steps, with what they record |
| `HealthMonitor`, `MCHealth` | a check read by read, `_on_health`, the forced reconnect | extends `ProfileSession`: the monitor is one of its callers of `stop` |
| `Daemon`, `MCDaemon` | `TunnelDaemon.run`, `request_stop`, reload workers | runners reduced to their threads |
| `Lifecycle` | daemon processes from spawn to exit, the commands `start`, `stop`, `restart`, the service manager | the daemon of `Daemon` reduced to its phases |
| `Verdict` | what a check becomes on its way to /healthz, /metrics, the page and the tables (functions) | |
| `StatusFile`, `MCStatus` | the sections of the status file, their writers, a reader at any moment | extends `Verdict` |
| `Config` | what a file means: search, validation, ssh's arguments (functions) | |
| `Doctor` | every check of `ponte doctor` (functions) | extends `Config` |
| `Workstation`, `MCWorkstation` | files, daemons and the commands that go by them | extends `Doctor` |
| `DemoTimeline` | the data of `ponte serve --demo` beside a clock | |
| `ProfileSession_proofs`, `Accounting_proofs`, `HealthMonitor_proofs`, `Daemon_proofs`, `Lifecycle_proofs`, `StatusFile_proofs`, `Workstation_proofs`, `DemoTimeline_proofs` | the theorems about those modules | |

**ProfileSession.** `pc` is the place of the loop thread: `top`, `settle`, `check` and
`sleep` are in the generator, `launch`, `publish`, `wait` and `unpublish` in `connect`
(between them lie `Popen`, the assignment of `self.process`, `wait()`, the
assignment of the duration and the clearing of `self.process`), `consume` is the body
of `_run`'s loop with the event in `event`, `final` its `finally` clause. `cpc[c]` is
the place of a caller `c` in `abort` and `stop`: each read of `self.process` is a step
of its own, and one that finds `None` raises. Three kinds of callers: `Watchers` run
`request_stop`, `Finishers` run `finish`, `Monitors` run `stop` alone. A signal does
not end the child, it makes `SshExit` likely; only `Kill` ends it. `poll()` may still
report a child that just died as alive while the loop thread is inside `waitpid`
(`PolledAlive`). A thread can always be started: that `Thread.start` of the stderr reader
(core.py:244) raises with the child alive, which would leave the child behind, is left out
here and in `Tunnel`. `attempts` and `late` are history: `connect` calls since the last
stable session, and launches made while `_stop` was set.

**Tunnel.** `down`, `trying`, `up`, `lost`, `over`: a tunnel is retried after every
loss and is over only because somebody asked, the reconnects are spent, or the backoff
cannot be computed. The refinement mapping (end of `ProfileSession`) derives the phase
from `pc` and `event`; the one subtle part is `LostStable`: between the end of a stable
session and the code's `retries_used = 0` the abstract counter is already zero.

**Accounting.** `LoopConsume` of the session becomes `Handle`, which also writes the
section and, on a disconnect, runs `_note_disconnect`; `LoopOverflow` becomes
`HandleCrash`. Seconds are units: a short session lasts one, a stable one two, a gap
one. `Write` is what `_write` may leave behind, a full disk included, and
`OtherWriteFails` the same for the write of another thread; `Die` is what a death leaves
at any moment, also in the middle of a write. The history `intact` says that every write
succeeded so far: what the counters say is stated for the files without a failed write
(after one, a session can be counted whose attempt was lost), the alert logic for all. The
alert logic is that of one runner: its flag and its count die with it, here and in the code,
so an outage that lasts over a restart of the daemon or a replacement of the runner can be
alerted once by each.

**HealthMonitor.** The check reads `self.process` (`ReadHandle`), reads it again and
polls (`PollChild`), perhaps a third time after an exception (`RereadHandle`), then
probes. `_on_health` is four actions by verdict. `profile` is the monitored profile: the sides on which
its rules listen and its `remote_check_enabled`. `established` says that the child has set up
its forwards, `lost` on which sides they are gone again. `Checked` are the sides a check looks at.
With `remote_check_enabled = false` those of `-R` rules are not among them, and of a profile that has
no other rules the code looks at nothing but `process_alive`: such a check is healthy as long as
ssh runs, whatever became of the ports, and the monitor never ends a zombie of that profile.
`ZombieRecovered` and `CalmTunnelKept` are therefore about the checked ports.
One probe stands for both port checks. Nobody else listens on the forwarded ports: a
port taken by another process reads as healthy, in the code and outside this model.

**Daemon.** The main thread is `mpc` with the list of its running `for` loop in `todo`;
a worker is `wpc[w]` with the locals of the `_reconcile` that holds the lock in `plan`.
The list of runners is a set, visited in the order runners were built; `_reconcile`
meets the profiles of the new configuration in any order. A change of `[retry]` or
`[health]` changes the setting of every profile. `abort` may raise, as `ProfileSession`
shows it can, at any call. A loop that was told to stop before its first statement
clears that (`deaf`). The status file, the notifier and the health threads are left out
of this module: no decision of the supervisor depends on them. The history `clean` says
that no abort raised and no reload ran beside the shutdown: both cut a shutdown short in
the code, so `StopReachesAll` is stated for the shutdowns without them.

**Lifecycle.** `phase[p]` is where a daemon process is: `booting` (before its own look at
`status()`), `checked`, `written` (the pid file), `cleared` (the stop marker), `running`,
`draining` (the runners are finished), `cleaning` (the pid file is gone, the marker not yet),
`gone`. `cmd[c]` is a command with its place: `look` is `main.py`'s test of `status()`,
`stop` the one in `TunnelDaemon.stop`, `hook` and `hooked` the `systemctl stop` of an installed
service, `mark`, `wait`, `term`, `grace`, `kill` the escalation, `unmark` and `unpid` the
two removals at its end. A crash, a failed boot and a Ctrl-C may come between any two steps;
timeouts may run out at any moment, so that "20 s" is longer or shorter than whatever it
races. `Begin` and `ServiceSpawn` leave a pid for every command at work, so that the bound
`MaxPid` never stops one. The history `raced` says that two commands, or a command
and a booting daemon, overlapped: then two starts can both see no daemon, and `stop` can remove
the pid file of a daemon it did not stop; `DaemonNamed`, `MarkerHitsTarget` and
`StartAnswers` are stated for the behaviours before that. `StoppedIsDead` and `StopEnds` have
no such premise. A shutdown of the daemon's own need not end its ssh children (`LetGo`): an abort
between `Popen` and the assignment of `self.process` finds none, and `finish` gives up after
10 s. Nor does it always come to `_cleanup` (`GiveUp`): an abort that raises leaves `run` with pid
file and marker in place. `unclean` is the history of the daemons that ended without `_cleanup`,
killed or not. So there is no property about who may leave children behind: anybody may.

**Verdict, StatusFile.** `Outcomes` is what a check can meet, `Reported` the section
`_on_health` makes of it, `Payload` what `status()` and `_status_payload` make of the file;
the verdicts are functions of that payload, both borders of `ponte watch` among them: `WatchBorder`
is that of the whole, `ProfileBorder` that of each profile, which the command draws when there are
several. The latter knows `healthy` only, and is red around a check that never got to ask, where
all other views say "unknown"; `VerdictsAgree` says that this is the one case in which it
differs. A write is two steps (`StartWrite`,
`Flush`), since a reader in another process may find the file empty in between; a write that
fails leaves it so. A reload swaps the runners, then `begin`s and `remove`s; retired
runners in `late` may report once more. `writing.to` is what the file will hold: `Stored` is
that or the file, and the properties about sections are about `Stored`, those about what a
reader concludes about the file as it is.

**Config, Doctor, Workstation.** A value of a file is a record of its type, its number and its
text, and each validator says what it accepts ("ok"), rejects ("error", a `ConfigError`) or
dies of ("crash", another exception). `LoadOutcome` is the whole file, in the order in which
the code comes upon the errors; `ConfigOf` what it becomes, `BuildArgs` what ssh is
given. `Listener`, `Interfaces` and `Clash` are what OpenSSH makes of those arguments.
`Workstation` has the four places where a file can be, the daemons by their pid files and
the page of `ponte serve`; a command is one step here, the steps in between are
`Lifecycle`'s. `Doctor` changes nothing, so its properties are invariants: what it would say
in each world of `Worlds`, of each configuration that loads. A world tells apart what the code
asks separately: `direct` (a socket reaches the first hop by its literal name, which is what
`JumpCheck` asks) and `hop` (ssh gets through it by way of `~/.ssh/config`); whether the tunnel
works, whether a fresh `login` does now, and whether a command sent over it (`probe`) does; and an
`ssh` that is found, missing, or cannot be looked for (`raises`). `lastError` is there because
`NotifyCheck` reads it; the `Notifier` it reads it from was made by doctor itself a moment before
and has sent nothing, so no world of the run has it, and the proofs hold with it all the same. In
the contents of a file, `others` are the keys nobody knows at the top level and in a profile; those of
a section are in the section (`Warnings`).

**DemoTimeline.** `demo.py` computes everything from the moment asked for. The module keeps
those functions as they are and lets the moments pass second by second (`Tick`), with the
history of the moments before beside it; `Press` is the button of a page that is pinned to a
moment. The phases are numbered through all rounds, and the feed is the set of the numbers
it shows (`Fed`), so that its order is the order of numbers.

## What the runs show

Passing runs; every one also has, for each of its properties, a mutant of a modelled
definition that breaks it.

| run | bounds | shows |
|---|---|---|
| `SessionSafety` | one watcher, one finisher, one monitor, `MaxRetries` 2, `OverflowAt` 3 | `BudgetKept`, `StopBoundsLaunches`, `SshOwned`, and that the session implements `Tunnel` |
| `SessionLive` | a watcher and a monitor, no retry limit, `OverflowAt` 1 | `StopHonoured`, `AbortEndsPublishedSession` |
| `Accounting` | no limit, overflow after 2 reconnects, three of each counter, any write may fail | `CountersAgree`, `AttemptShown`, `OneAlertPerOutage`, `AlertNotEarly`, `OutageAlerted`, `CountersSurvive` |
| `Health` | a watcher and the monitor, limit of 2 failures, one retry, three profiles: remote forwards, remote forwards that are not checked, both kinds | `CalmTunnelKept`, `ZombieRecovered` |
| `Daemon` | two profiles, three configurations, two workers, four runners, three requests | `NoLoopForgotten`, `RunnersMatchConfig`, `UnchangedUntouched`, `StopReachesAll` |
| `DaemonEnds` | one profile, one worker, three runners, two requests | `ShutdownCompletes`, `LastLoopEndsDaemon` |
| `Lifecycle` | two commands at a time, two daemons, every fault | `StoppedIsDead`, `DaemonNamed`, `MarkerHitsTarget`, `StartAnswers`, `StopEnds` |
| `Status` | two profiles with a port of each kind, four outcomes of a check, two faults | `VerdictsAgree`, `DegradedIsExplained`, `UnobservedNotClosed`, `GhostsAreLate`, `VerdictSettles` |
| `Workstation` | nineteen files, four places, fourteen worlds, one edit | `NoSelfConflict`, `ControlFindsDaemon`, `PageGuarded`, `NoFalseAlarm`, `ClearMeansFlowing`, and that no daemon runs on a configuration that was not accepted whole (in `WorkstationTypeOK`) |
| `Demo` | 2520 seconds, three anchors | `StatsAgree`, `NextIsNext`, `FeedAgrees`, `NothingTakenBack` |

`CHECK_DEADLOCK FALSE` in the session, accounting, health, daemon and demo runs: a profile
that gave up, a daemon that exited and a clock at its bound have nothing left to do, and that
is their normal end. `Lifecycle`, `Status` and `Workstation` are checked for deadlock.

The type invariants of `ProfileSession`, `Accounting`, `HealthMonitor`, `Daemon`, `Lifecycle` and
`StatusFile` are theorems for every value of the constants and no longer part of a run (that of
`Workstation` is both, since it says more than types), and
that the session implements `Tunnel` also past the backoff's overflow is the theorem
`Refinement`.

Runs that find a violation check a sentence of a comment or docstring which the code
does not keep; `findings` in `PROJECT.json` quotes each.

| run | the code, in a sentence |
|---|---|
| `DaemonReloadLost` | a reload request that lands during a reload is dropped |
| `StatusDownUnseen` | `ponte serve` says "running" whatever `status()` found: with the daemon down, `/healthz` answers 200 |

More of this kind is visible in the models, without a run of its own:

- `max_retries = 0` gives up after 1023 reconnects without a stable session: `OverflowError`
  in the backoff (`LoopOverflow`, which `Tunnel` has as a crash).
- An abort before `run`'s first statement is cleared by it; one in the window around `Popen`
  stops nothing, and `finish` then returns with the session up.
- After a stable session, an outage of launches that raise is never alerted, because each of
  them leaves the duration of that session (`misread`; `OutageAlerted` speaks of all other
  outages); the duration is added to the uptime again, too.
- The wait after a kill can be for the next session and has no timeout; the monitor then
  finds no zombie until that session ends.
- `stop()` raises when `connect()` clears `self.process` between two of its reads (`HandleGone`
  in `ProfileSession`, which is why `abort` may raise in `Daemon`); daemon.py:1149 says of the stop
  request that it "never raises".
- The supervisor tests `_reconciling` before it reads the list of runners, and can end the
  daemon in the middle of a swap, which the comment at daemon.py:1207 is about.
- On POSIX a force kill leaves the ssh children of the daemon alive, "its whole tree" at
  daemon.py:1508 notwithstanding; so can a shutdown of the daemon's own (`LetGo`).
- `ponte watch` paints the panel of a profile red whose check never got to ask, around the word
  "unknown", of which main.py:350 says that it must not be painted red (`VerdictsAgree`).
- doctor connects to the literal name of the first hop: a chain that ssh gets through by an alias
  of `~/.ssh/config`, as README.md:282 recommends, is a FAIL (`NoFalseAlarm`).
- With `remote_check_enabled = false` a zombie of a profile of `-R` rules is never ended.
- doctor fails a tunnel that works when a login made now does not come through.
- The session a forced reconnect terminates can be younger than the check that condemned it.
- A death during `_write` loses every counter.
- Two commands that overlap can leave two daemons, or one that no pid file names; a pid file
  whose path was edited while the daemon runs is not found, and `start` starts a second one.
- `ponte stop` in the seconds in which systemd waits before a respawn finds no daemon, and
  does not keep systemd from starting the next.
- `ponte reload` validates the file the command finds, the daemon reloads the one it was started
  from.
- A restarted daemon is shown with the health, the session and the error of the last one until
  it reports for itself; `error` is never cleared.
- `ponte serve` lists the profiles of the file it read at its start.
- NaN passes the bounds of a number. An infinite number, or a file that is not UTF-8, ends a
  control command and a reload with an exception that is no `ConfigError`.
- Duplicate listeners are told apart by the text of their address, and in each profile for
  itself.
- In the demonstration, a session of "web" that runs on over the end of a cycle is shown as a
  new one, with an event "connected" after the event "connected" and attempts that jump;
  the last notification of "db" is unknown for the first 30 s of every other cycle. `SessionStart`
  and `Notified` have it that way, and no property says otherwise.

**The bounds.** One thread of each kind: two threads of a kind run the same code against
the same shared state and block nobody, and the proofs of the session's safety hold for
any number. Two reconnects reach the first, a middle and the last of a budget;
`OverflowAt` stands for 1023 and only has to lie on either side of the limit in some run.
`FailureLimit` 2 (the code has 3) is the smallest at which an inconclusive check can come
between two counted ones. In `Daemon` four runners are two to begin with and two
successors, or a profile that leaves and comes back; two workers are a reload that holds
the lock and one that does not get it; they are interchangeable (`SYMMETRY`), and the run
has no liveness property. In `Lifecycle` two commands are every pair of `start`, `stop`
and `restart` at every pair of places, and two daemons an old and a new one, or one by a
command and one by the service manager; more commands do nothing these do not do to each
other, and all safety properties of `Lifecycle` are proved for any number. In `Status`
two faults are, among others, a reload and a death, a failed write and a change, or two
reloads in a row with a late report between. In `Workstation` the files are one that loads
and its variations, a rule or a section each, and one edit of any place turns any of them
into any other while daemons started from it run; its properties are proved for any files
and worlds. `Demo` runs over the common period of the three cycles (2520 s for 180, 120 and
210), after which their places repeat; its properties are proved for any moment.
`AttemptBound`, `RunnerBound`, `RequestBound`, `MaxPid`, `Faults` of `StatusFile`,
`MaxEdits` and `Horizon` stop the counters, the runners built, the requests from outside,
the daemons spawned, the faults, the edits and the clock; nothing else is cut off.

**Fairness.** Weak fairness of each thread that can take a step: the operating system
schedules threads, and the waits of the loop, of `stop()` and of `join` have timeouts
(the one after a kill has none, but is over when the session ends). None on `SshExit`: a
session may stay up for ever. The property about a stop which only waits for the session,
`StopHonoured`, has `SessionsEnd` as its premise: every ssh session ends some day. None on a new
request, on the loss of a forward, or on the end of a loop in `Daemon`. `HealthMonitor` assumes
strong fairness of a probe that finds closed ports: of repeated probes, some get through. A
reload worker is fair, and so is the watcher that starts one for a marker. In `Lifecycle` a
command that is not interrupted goes on, and nothing is assumed of the daemons: `StopEnds`
holds because every wait of a stop has a timeout. In `StatusFile` an opened file is written, a
daemon that is down is started again, a thread told to stop ends; the two writes of a reload and
the report of each check have strong fairness, since the lock is taken and given back
for ever and whoever waits for it gets it some time. None on a failed write, a death, a reload
or a change: their number is bounded.

## What is proved

`ProfileSession_proofs`, for every `MaxRetries`, `OverflowAt` and every set of threads,
from `BudgetAssumption` and `ThreadAssumption`:

- `TypeCorrect`, `BudgetIsKept`, `StopIsHeeded`, `ChildIsOwned`: `Spec => []` of `TypeOK`,
  `BudgetKept`, `StopBoundsLaunches` and `SshOwned`.
- `Refinement`: `Spec => Abstract!Spec`, the session implements `Tunnel`.

None of the three invariants is inductive. `IInv` adds `EventInv`, which keeps the event
in step with the place of the generator; `HandleInv`: the handle is set exactly in `wait`
and `unpublish`, and a child runs only in `publish` and `wait`; `BudgetInv`, which ties
`attempts` to `used`: no more calls than reconnects before an attempt and one more after
it, none once a stable session was lost, and `used` within the limit and, until the loop
is over, within the backoff; and `LateInv`: a launch made after the stop leaves the loop on
its way out, where nothing clears the flag and no further attempt begins. The lemmas
`InitInv`, `StepInv` and `Inductive` establish it; the refinement uses it for the steps
that lose a session and count a reconnect.

`HealthMonitor_proofs`, in addition from `MonitorAssumption` and `ProfileAssumption`, so for any
profile, checked remotely or not:

- `CalmTunnelIsKept`: `HealthSpec => []CalmTunnelKept`, for every failure limit. The
  strengthening `CalmInv` says that the counter never runs ahead of the checks that saw
  the tunnel down, and that a check which will be counted has already seen it down.
- `MonitoredSession`: the budget and the ownership of the child hold beside the monitor.
  Every step of the monitored system is a step of the session or leaves it alone
  (`MonitorKeepsSession`), so `IInv` carries over.
- `MonitoredRefinement`: `HealthSpec => Abstract!Spec`, the monitored session implements `Tunnel`
  too, from the same lemma and `StepRefines`.

- `MonitorTypes`: `HealthTypeOK`, from the types of the session and the steps of the monitor.

`Accounting_proofs`, from `AccountingAssumption` and the assumptions of the session:

- `AccountsTyped`, `OneAlert`, `NoEarlyAlert`, `EveryOutageAlerted`, `CountersAlwaysAgree`,
  `AttemptAlwaysShown`: `AccountingSpec => []` of `AccountingTypeOK`, `OneAlertPerOutage`,
  `AlertNotEarly`, `OutageAlerted`, `CountersAgree`, `AttemptShown`; and `CountersNeverFall`, the action property
  `CountersSurvive`. Two strengthenings: `AlertInv` ties the alerts sent to the flag and the
  count of the code, which is the failures in a row less the launches it misread; `SectionInv` ties the counters
  to the place of the loop, as every session that is counted was an attempt before, and a gap is
  open only between two attempts.

`Daemon_proofs`, from `ConfigAssumption`, `BoundAssumption` and `FreeAssumption`, so for any
configurations, any number of workers and any bounds:

- `DaemonTypes`, `NobodyForgotten`, `StopTellsAll`, `ConfigServed`, `UnchangedLeftAlone`: all
  the safety properties of `Daemon`. `TypeInv` adds to the types that the lock is held by the
  worker that is inside, and that a runner which is known has been built. `ForgetInv`
  says where a loop is that the list does not have: in the plan of the reload, or told. `StopInv`
  follows the stop request through its list; `MatchInv` says what the plan and the list
  have in common at each step of a swap (`PlanInv`: a profile is served by a kept runner, half
  way, or vacant); `ReloadInv` that what is retired differs from what was read.

`Lifecycle_proofs`, from the three assumptions of the module, for any number of commands:

- `ProcessTypes`, `StoppedMeansDead`: `Spec => []` of `LifecycleTypeOK` and `StoppedIsDead`. The
  strengthening `Chosen`: a stop works on a process that was spawned.
- `DaemonAlwaysNamed`: `Spec => []DaemonNamed`; `MarkerAimed` and `StartAnswersRight`, the action
  properties `MarkerHitsTarget` and `StartAnswers`. What is true before `raced` is the invariant
  `AloneInv`: at most one command is at work, at most one daemon boots, at each place of a command
  it is fixed what it still knows of the daemons (`CommandAlone`), the pid file names whoever
  serves, and a marker that is there was dropped for whoever can see it (`Marked`). Without that
  premise, `PidInv`: a pid file names a daemon that serves or one that ended without its cleanup
  (`unclean`).

`StatusFile_proofs`, from `MetAssumption` and `FaultAssumption`, for any profiles and ports:

- `StatusTypes`, `NotObservedNotClosed`, `DegradedExplained`: `Spec => []` of `StatusTypeOK`,
  `UnobservedNotClosed`, `DegradedIsExplained`; and `GhostsOnlyLate`, the action property
  `GhostsAreLate`. The strengthening `ReportInv`: a section with a verdict, in the file or in what
  is being written, is `Reported` of the last check, whatever the section was before.
- `VerdictsAlwaysAgree`: `Spec => []VerdictsAgree`. The payload of any file a reader can meet has
  the form `Payloads`; of such a payload each verdict is computed in a lemma of its own, and the
  five views come to the same, profile by profile too (`BordersAgree`: the border of a profile has
  the colour of its row, or is red around a check that was inconclusive).

`Workstation_proofs`, from `ContentsAssumption`, `WorldsAssumption` and `EditsAssumption`: for any
set of files that have the shape TOML gives them, any worlds, key files and number of edits.

- `WorkstationTypes`, `ControlAlwaysFinds`, `PageAlwaysGuarded`, `NeverSelfConflicting`,
  `DoctorNeverFalselyAlarms`, `ClearAlwaysMeansFlowing`: `Spec => []` of `WorkstationTypeOK`,
  `ControlFindsDaemon`, `PageGuarded`, `NoSelfConflict`, `NoFalseAlarm`, `ClearMeansFlowing`. So a
  rule that is missing in a validator would be found whatever a file says, not only in one of the
  nineteen of the run.

The invariant `WorkInv` is short: a daemon runs on a configuration that was accepted
(`Accepted`), through every edit, reload and refused reload. The work is in what "accepted"
gives: `OutcomeIs` says that a sequence of checks passes only if each passes, `ProfilesAreSound`
and `ListenersApart` follow that through the sections to the arguments of ssh, `MoreKeys` and
`LoadResult` say what a load depends on. Doctor's two properties are lemmas about every check
(`ProfileNotBlamed`, `ProfileBlamed`, `WholeNotBlamed`, `ProfileFlows`) and need no induction. `NoFalseAlarm` says
what can make doctor fail beside a daemon that found nothing wrong (`Calm`): nothing offline, and
online exactly the profiles that are not `Reachable`, that is, those with a login that does not come through now, a
first hop that no socket reaches by its name, or ports a probe saw closed. The first two can be so
while the tunnel works: there doctor does raise an alarm, and the property says that this is all.

`DemoTimeline_proofs`, from `HorizonAssumption` and `AnchorAssumption`:

- `StatsAlwaysAgree`, `NextIsAlwaysNext`, `FeedAlwaysAgrees`: `Spec => []` of `StatsAgree`,
  `NextIsNext`, `FeedAgrees`; and `NothingIsTakenBack`, the action property `NothingTakenBack`.
  `StatsAgree` is inductive with the type of the moment. The three profiles are data: for
  each of them every number of a moment is a function of its round and its offset (`WebStats`,
  `DbStats`, `MetricsStats`), and a second adds to it what the history adds (`EveryPasses`); the
  first boundary that looks different is computed the same way (`WebForetold`, ...), and so is the
  place of the last disconnection in the feed (`WebFeed`, ...).

All safety properties of the passing runs are thereby theorems. Only model-checked: the
liveness properties (`StopHonoured`, `AbortEndsPublishedSession`, `ZombieRecovered`,
`ShutdownCompletes`, `LastLoopEndsDaemon`, `StopEnds`, `VerdictSettles`), since liveness under
fairness is beyond the prover. What a recursive definition computes of arbitrary data is beyond it
too; where the models had one in the way of a proof (the order of checks in `Config`, the
cursor and the feed of the demonstration) they have a least index, a recursive function over the
four phases, and a set of numbers instead.

## What is not modelled, and the plan

Left out of the modules above: delays, intervals and other durations; the text of events,
reasons and logs; the event feed and the migration of a one-profile status file; the thread that
drains stderr (it shares nothing with the others but the pipe); the parsing of probe listings,
jump hops and URLs, known by what they come to; Windows, except where the code is the
same. The pid of a dead process is never reused. One reading of the status file stands for the
two of `status()`: the second only gives the start time.

HTML, style sheet and script of the page, the layout of tables, the files an installation
writes, `ponte logs` and the legacy scripts are I/O and layout and stay out.

What could come next: a proof that a daemon which is not `raced` implements an abstract register
of one running daemon; the refinement of `Tunnel` by every life of the daemon in `Accounting`;
the event feed with its limit beside `Accounting`; a session with delays as numbers, for the
fact that an interval "backed off" is never the shorter one.
