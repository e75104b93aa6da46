-------------------------------- MODULE Daemon --------------------------------
(***************************************************************************)
(* TunnelDaemon.run: the main thread that supervises one ProfileRunner per *)
(* profile, the stop request that any thread may make, and the reloads     *)
(* that replace runners under it, each on a worker thread of its own       *)
(* (_reconcile).                                                           *)
(*                                                                         *)
(* A runner is what ProfileSession describes; here it is a loop thread     *)
(* that begins some time after start(), clears what abort() told it before *)
(* that, and may end at any moment.  A change of the [retry] or [health]   *)
(* section rebuilds every runner, so both are part of each profile's       *)
(* setting here; the notifier and the status file are not modelled.        *)
(***************************************************************************)
EXTENDS Naturals, FiniteSets

CONSTANTS
    Configs,        \* what the config file may say: functions from the names
                    \* of the profiles to their settings
    Broken,         \* a file load_config rejects
    First,          \* the configuration the daemon starts with
    Workers,        \* reload threads alive at the same time
    RunnerBound,    \* bound: runners ever built
    RequestBound    \* bound: edits of the file, reload requests and SIGHUPs

ASSUME ConfigAssumption == First \in Configs /\ Broken \notin Configs
ASSUME BoundAssumption == RunnerBound \in Nat /\ RequestBound \in Nat

Runners == 1 .. RunnerBound
Names == UNION {DOMAIN c : c \in Configs}
Nobody == [name |-> "", setting |-> 0]

VARIABLES
    disk,       \* the config file
    marker,     \* the reload marker exists
    requests,   \* edits, requests and signals so far
    config,     \* TunnelDaemon.config
    runners,    \* TunnelDaemon._runners
    who,        \* each runner's profile and its setting
    loop,       \* each runner's loop thread
    told,       \* its RetryRunner._stop is set
    reconciling,\* TunnelDaemon._reconciling
    holder,     \* the worker that holds _reload_lock
    wpc,        \* where each worker is
    read,       \* the config it loaded
    plan,       \* locals of the _reconcile that holds the lock
    shutdown,   \* TunnelDaemon._shutdown
    mpc,        \* where the main thread is
    todo,       \* runners the main thread's running for loop has yet to visit
    stopping,   \* runners request_stop, on another thread, has yet to abort
    deaf,       \* history: runners that cleared an abort when they began
    clean       \* history: no abort raised, no reload ran beside a shutdown

file     == <<disk, marker, requests>>
threads  == <<who, loop, told>>
worker   == <<reconciling, holder, wpc, read, plan>>
main     == <<mpc, todo>>
history  == <<deaf, clean>>
vars == <<file, config, runners, threads, worker, shutdown, main, stopping,
          history>>

Free == "free"
ASSUME FreeAssumption == Free \notin Workers

NoPlan == [previous |-> {}, latest |-> {}, names |-> {}, retiring |-> 0,
           target |-> ""]

FileTypeOK ==
    /\ disk \in Configs \cup {Broken}
    /\ marker \in BOOLEAN
    /\ requests \in 0 .. RequestBound

ThreadsTypeOK ==
    /\ DOMAIN who = Runners
    /\ \A r \in Runners : loop[r] # "none" => who[r].name \in Names
    /\ loop \in [Runners -> {"none", "built", "started", "running", "ended"}]
    /\ told \in [Runners -> BOOLEAN]
    /\ deaf \subseteq Runners

WorkerTypeOK ==
    /\ reconciling \in BOOLEAN
    /\ holder \in Workers \cup {Free}
    /\ wpc \in [Workers -> {"idle", "load", "lock", "plan", "abort", "join", "build",
                            "release"}]
    /\ read \in [Workers -> Configs]

PlanTypeOK ==
    plan \in [previous : SUBSET Runners, latest : SUBSET Runners, names : SUBSET Names,
              retiring : Runners \cup {0}, target : Names \cup {""}]

MainTypeOK ==
    /\ config \in Configs
    /\ runners \subseteq Runners
    /\ shutdown \in BOOLEAN
    /\ mpc \in {"build", "start", "while", "tick", "look", "stop", "abort", "list",
                "finish", "join", "cleanup", "exited"}
    /\ todo \subseteq Runners /\ stopping \subseteq Runners
    /\ clean \in BOOLEAN

\* The locals of a reload live as long as it holds the lock.
FreeTypeOK == holder = Free => plan = NoPlan /\ ~reconciling

DaemonTypeOK ==
    FileTypeOK /\ ThreadsTypeOK /\ WorkerTypeOK /\ PlanTypeOK /\ MainTypeOK /\ FreeTypeOK

Init ==
    /\ disk = First /\ marker = FALSE /\ requests = 0
    /\ config = First
    /\ runners = {}
    /\ who = [r \in Runners |-> Nobody]
    /\ loop = [r \in Runners |-> "none"]
    /\ told = [r \in Runners |-> FALSE]
    /\ reconciling = FALSE /\ holder = Free
    /\ wpc = [w \in Workers |-> "idle"]
    /\ read = [w \in Workers |-> First]
    /\ plan = NoPlan
    /\ shutdown = FALSE
    /\ mpc = "build" /\ todo = {} /\ stopping = {}
    /\ deaf = {} /\ clean = TRUE

Alive == mpc # "exited"
NameOf(r) == who[r].name
Next1(rs) == CHOOSE r \in rs : \A q \in rs : r <= q

-----------------------------------------------------------------------------
(* Runners.                                                                *)

Construct(r, n, c) ==
    /\ loop[r] = "none" /\ (r > 1 => loop[r - 1] # "none")
    /\ who' = [who EXCEPT ![r] = [name |-> n, setting |-> c[n]]]

NotTold(r) == UNCHANGED threads     \* Mutant: self.retry.stop() is missing

\* ProfileRunner.abort, which may raise in manager.stop() once _stop is set.
Told(r) ==
    /\ told' = [told EXCEPT ![r] = TRUE]
    /\ UNCHANGED <<who, loop>>

\* The first statement of RetryRunner.run.
LoopBegins(r) ==
    /\ Alive
    /\ loop[r] = "started"
    /\ loop' = [loop EXCEPT ![r] = "running"]
    /\ told' = [told EXCEPT ![r] = FALSE]
    /\ deaf' = IF told[r] THEN deaf \cup {r} ELSE deaf
    /\ UNCHANGED <<file, config, runners, who, worker, shutdown, main, stopping,
                   clean>>

\* Stopped, out of retries, or crashed.
LoopEnds(r) ==
    /\ Alive
    /\ loop[r] = "running"
    /\ loop' = [loop EXCEPT ![r] = "ended"]
    /\ UNCHANGED <<file, config, runners, who, told, worker, shutdown, main,
                   stopping, history>>

-----------------------------------------------------------------------------
(* Requests from outside the daemon.                                       *)

Bounded == requests < RequestBound /\ requests' = requests + 1

EditFile ==
    /\ Alive /\ Bounded
    /\ \E c \in (Configs \cup {Broken}) \ {disk} : disk' = c
    /\ UNCHANGED <<marker, config, runners, threads, worker, shutdown, main,
                   stopping, history>>

\* `ponte reload` loads the file itself before it leaves the marker.
AskReload ==
    /\ Alive /\ mpc # "build" /\ Bounded
    /\ disk # Broken
    /\ marker' = TRUE
    /\ UNCHANGED <<disk, config, runners, threads, worker, shutdown, main, stopping,
                   history>>

\* A worker is started by the watcher's next sweep, or by SIGHUP.
StartWorker(w) ==
    /\ Alive /\ mpc # "build"
    /\ wpc[w] = "idle"
    /\ wpc' = [wpc EXCEPT ![w] = "load"]
    /\ \/ marker /\ ~shutdown /\ marker' = FALSE /\ UNCHANGED requests
       \/ Bounded /\ UNCHANGED marker
    /\ UNCHANGED <<disk, config, runners, threads, reconciling, holder, read, plan,
                   shutdown, main, stopping, history>>

\* request_stop on the marker watcher or in a signal handler.
RequestStop ==
    /\ Alive /\ mpc # "build"
    /\ ~shutdown
    /\ shutdown' = TRUE
    /\ stopping' = runners
    /\ clean' = (clean /\ holder = Free)
    /\ UNCHANGED <<file, config, runners, threads, worker, main, deaf>>

\* A raising abort ends the for loop: the runners behind it are not told.
StopNext ==
    /\ Alive /\ stopping # {}
    /\ Told(Next1(stopping))
    /\ \E raised \in BOOLEAN :
          /\ stopping' = IF raised THEN {} ELSE stopping \ {Next1(stopping)}
          /\ clean' = (clean /\ ~raised)
    /\ UNCHANGED <<file, config, runners, worker, shutdown, main, deaf>>

-----------------------------------------------------------------------------
(* _reconcile.                                                             *)

Move(w, from, to) == Alive /\ wpc[w] = from /\ wpc' = [wpc EXCEPT ![w] = to]

\* load_config comes before the lock.
Load(w) ==
    /\ Move(w, "load", IF disk = Broken THEN "idle" ELSE "lock")
    /\ read' = [read EXCEPT ![w] = IF disk = Broken THEN @ ELSE disk]
    /\ UNCHANGED <<file, config, runners, threads, reconciling, holder, plan,
                   shutdown, main, stopping, history>>

Unlocked == TRUE            \* Mutant of LockFree
LockFree == holder = Free

Acquire(w) ==
    /\ LockFree
    /\ Move(w, "lock", "plan")
    /\ holder' = w
    /\ reconciling' = TRUE
    /\ plan' = [NoPlan EXCEPT !.previous = runners, !.names = DOMAIN read[w]]
    /\ clean' = (clean /\ ~shutdown)
    /\ UNCHANGED <<file, config, runners, threads, read, shutdown, main, stopping,
                   deaf>>

\* The request is dropped: another reload is in progress.
Ignored(w) ==
    /\ ~LockFree
    /\ Move(w, "lock", "idle")
    /\ UNCHANGED <<file, config, runners, threads, reconciling, holder, read, plan,
                   shutdown, main, stopping, history>>

\* Mutants: a changed setting is overlooked; every profile is rebuilt.
SameName(r, c) == NameOf(r) \in DOMAIN c
NeverSame(r, c) == FALSE
Unchanged(r, c) == NameOf(r) \in DOMAIN c /\ who[r].setting = c[NameOf(r)]

Planning(w) ==
    UNCHANGED <<file, config, runners, threads, reconciling, holder, read, shutdown,
                main, stopping, history>>

Keep(w, r) ==
    /\ r \in plan.previous /\ NameOf(r) \in plan.names
    /\ Unchanged(r, read[w])
    /\ Move(w, "plan", "plan")
    /\ plan' = [plan EXCEPT !.previous = @ \ {r}, !.latest = @ \cup {r},
                            !.names = @ \ {NameOf(r)}]
    /\ Planning(w)

\* A changed profile is retired before its successor is built; the removed
\* ones follow once every profile of the new config is done.
Retire(w, r) ==
    /\ r \in plan.previous
    /\ IF NameOf(r) \in plan.names THEN ~Unchanged(r, read[w]) ELSE plan.names = {}
    /\ Move(w, "plan", "abort")
    /\ plan' = [plan EXCEPT !.previous = @ \ {r}, !.retiring = r,
                    !.target = IF NameOf(r) \in plan.names THEN NameOf(r) ELSE ""]
    /\ Planning(w)

Add(w, n) ==
    /\ n \in plan.names
    /\ \A r \in plan.previous : NameOf(r) # n
    /\ Move(w, "plan", "build")
    /\ plan' = [plan EXCEPT !.target = n]
    /\ Planning(w)

Retired == IF plan.target = "" THEN "plan" ELSE "build"

\* _retire swallows what finish() raises, and then has not joined.
Abort(w) ==
    /\ \E raised \in BOOLEAN :
          /\ Move(w, "abort", IF raised THEN Retired ELSE "join")
          /\ clean' = (clean /\ ~raised)
    /\ Told(plan.retiring)
    /\ UNCHANGED <<file, config, runners, reconciling, holder, read, plan, shutdown,
                   main, stopping, deaf>>

\* join(timeout=_PROFILE_JOIN_TIMEOUT): the thread has ended, or time is up.
JoinForEver(r) == loop[r] \notin {"started", "running"}     \* Mutant
JoinReturns(r) == TRUE

Join(w) ==
    /\ Move(w, "join", Retired)
    /\ JoinReturns(plan.retiring)
    /\ UNCHANGED <<file, config, runners, threads, reconciling, holder, read, plan,
                   shutdown, main, stopping, history>>

Build(w) ==
    /\ Move(w, "build", "plan")
    /\ \E r \in Runners :
          /\ Construct(r, plan.target, read[w])
          /\ loop' = [loop EXCEPT ![r] = "started"]
          /\ plan' = [plan EXCEPT !.latest = @ \cup {r}, !.names = @ \ {plan.target},
                                  !.target = ""]
    /\ UNCHANGED <<file, config, runners, told, reconciling, holder, read, shutdown,
                   main, stopping, history>>

\* self.config and self._runners are swapped at the end.
Rebind(w) ==
    /\ plan.names = {} /\ plan.previous = {}
    /\ Move(w, "plan", "release")
    /\ runners' = plan.latest
    /\ config' = read[w]
    /\ UNCHANGED <<file, threads, reconciling, holder, read, plan, shutdown, main,
                   stopping, history>>

StillReconciling == reconciling' = TRUE     \* Mutant of Reconciled
Reconciled == reconciling' = FALSE

Release(w) ==
    /\ Move(w, "release", "idle")
    /\ Reconciled
    /\ holder' = Free
    /\ plan' = NoPlan
    /\ UNCHANGED <<file, config, runners, threads, read, shutdown, main, stopping,
                   history>>

Reconcile(w) ==
    \/ Load(w) \/ Acquire(w) \/ Ignored(w)
    \/ \E r \in Runners : Keep(w, r) \/ Retire(w, r)
    \/ \E n \in Names : Add(w, n)
    \/ Abort(w) \/ Join(w) \/ Build(w) \/ Rebind(w) \/ Release(w)

-----------------------------------------------------------------------------
(* The main thread.                                                        *)

MainMove(from, to) == mpc = from /\ mpc' = to

BuildRunner(n, r) ==
    /\ MainMove("build", "build")
    /\ n \in DOMAIN First \ {NameOf(q) : q \in runners}
    /\ Construct(r, n, First)
    /\ loop' = [loop EXCEPT ![r] = "built"]
    /\ runners' = runners \cup {r}
    /\ UNCHANGED <<file, config, told, worker, shutdown, todo, stopping, history>>

Quiescent == UNCHANGED <<file, config, runners, threads, worker, shutdown, stopping,
                         history>>

\* for runner in self._runners: the list is the one of this moment.
Built ==
    /\ MainMove("build", "start")
    /\ {NameOf(q) : q \in runners} = DOMAIN First
    /\ todo' = runners
    /\ Quiescent

StartRunner ==
    /\ todo # {}
    /\ MainMove("start", "start")
    /\ todo' = todo \ {Next1(todo)}
    /\ loop' = [loop EXCEPT ![Next1(todo)] = "started"]
    /\ UNCHANGED <<file, config, runners, who, told, worker, shutdown, stopping,
                   history>>

Started == todo = {} /\ MainMove("start", "while") /\ UNCHANGED todo /\ Quiescent

While == MainMove("while", IF shutdown THEN "stop" ELSE "tick") /\ UNCHANGED todo /\ Quiescent

Tick == MainMove("tick", IF reconciling THEN "while" ELSE "look") /\ UNCHANGED todo /\ Quiescent

\* if not any(runner.is_alive() ...): break
Look ==
    /\ MainMove("look", IF \E r \in runners : loop[r] \in {"started", "running"}
                        THEN "while" ELSE "stop")
    /\ UNCHANGED todo /\ Quiescent

\* request_stop("daemon shutdown") in the finally clause.
StopAtLast ==
    /\ MainMove("stop", IF shutdown THEN "list" ELSE "abort")
    /\ shutdown' = TRUE
    /\ todo' = IF shutdown THEN todo ELSE runners
    /\ clean' = (clean /\ (shutdown \/ holder = Free))
    /\ UNCHANGED <<file, config, runners, threads, worker, stopping, deaf>>

\* What abort() raises here leaves run(): no finish, no cleanup.
AbortNext ==
    /\ todo # {} /\ mpc = "abort"
    /\ Told(Next1(todo))
    /\ \E raised \in BOOLEAN :
          /\ mpc' = IF raised THEN "exited" ELSE "abort"
          /\ clean' = (clean /\ ~raised)
    /\ todo' = todo \ {Next1(todo)}
    /\ UNCHANGED <<file, config, runners, worker, shutdown, stopping, deaf>>

Aborted == todo = {} /\ MainMove("abort", "list") /\ UNCHANGED todo /\ Quiescent

List == MainMove("list", "finish") /\ todo' = runners /\ Quiescent

FinishNext ==
    /\ todo # {} /\ mpc = "finish"
    /\ Told(Next1(todo))
    /\ \E raised \in BOOLEAN :
          /\ mpc' = IF raised THEN "exited" ELSE "join"
          /\ clean' = (clean /\ ~raised)
    /\ UNCHANGED <<file, config, runners, worker, shutdown, todo, stopping, deaf>>

JoinNext ==
    /\ MainMove("join", "finish")
    /\ JoinReturns(Next1(todo))
    /\ todo' = todo \ {Next1(todo)}
    /\ Quiescent

Finished == todo = {} /\ MainMove("finish", "cleanup") /\ UNCHANGED todo /\ Quiescent

\* _cleanup, and the process is gone with every daemon thread.
Cleanup ==
    /\ MainMove("cleanup", "exited")
    /\ marker' = FALSE
    /\ UNCHANGED <<disk, requests, config, runners, threads, worker, shutdown, todo,
                   stopping, history>>

Main ==
    \/ \E n \in Names, r \in Runners : BuildRunner(n, r)
    \/ Built \/ StartRunner \/ Started \/ While \/ Tick \/ Look \/ StopAtLast
    \/ AbortNext \/ Aborted \/ List \/ FinishNext \/ JoinNext \/ Finished \/ Cleanup

Threads == \E r \in Runners : LoopBegins(r) \/ LoopEnds(r)

Next ==
    \/ Threads \/ EditFile \/ AskReload \/ RequestStop \/ StopNext
    \/ \E w \in Workers : StartWorker(w) \/ Reconcile(w)
    \/ Main

\* Started threads run, the watcher sweeps, and joins time out.
Fairness ==
    /\ WF_vars(Main) /\ WF_vars(StopNext)
    /\ \A w \in Workers : WF_vars(Reconcile(w)) /\ WF_vars(marker /\ StartWorker(w))
    /\ \A r \in Runners : WF_vars(LoopBegins(r))

Spec == Init /\ [][Next]_vars /\ Fairness

-----------------------------------------------------------------------------
(* Properties.                                                             *)

Loops == {r \in Runners : loop[r] \in {"started", "running"}}

\* _reconcile, run: a loop nobody told to stop is one the daemon still knows,
\* through every reload and stop, unless it cleared its abort itself.
NoLoopForgotten ==
    \A r \in Loops : told[r] \/ r \in runners \cup plan.latest \cup deaf

\* _reconcile: whenever no reload is in progress the supervised runners are those
\* of the configuration in force, one for each profile.
RunnersMatchConfig ==
    holder = Free /\ mpc # "build" =>
        /\ {<<NameOf(r), who[r].setting>> : r \in runners}
             = {<<n, config[n]>> : n \in DOMAIN config}
        /\ Cardinality(runners) = Cardinality(DOMAIN config)

\* "Restarts only the profiles whose settings actually changed": a reload tells a
\* runner to stop only if its profile is gone from the new config or differs.
UnchangedUntouched ==
    [][\A w \in Workers, r \in Runners :
          wpc[w] = "abort" /\ plan.retiring = r /\ wpc'[w] # "abort" =>
             \/ NameOf(r) \notin DOMAIN read[w]
             \/ who[r].setting # read[w][NameOf(r)]]_vars

\* run: a daemon that is gone has told every loop to stop, unless an abort raised,
\* a reload ran beside the shutdown, or a loop cleared its abort.
StopReachesAll == mpc = "exited" /\ clean => \A r \in Loops : told[r] \/ r \in deaf

\* request_stop: the daemon exits, also when a loop does not react.
ShutdownCompletes == shutdown ~> (mpc = "exited")

\* run: it "exits once every profile loop has ended".
LastLoopEndsDaemon ==
    <>[](runners \cap Loops = {} /\ mpc # "build") => <>(mpc = "exited")

-----------------------------------------------------------------------------
(* What the comments say and the code does not keep.                       *)

\* _watch_reload_marker: "a request that lands mid-reload is then kept for the
\* next sweep instead of being lost".  The next sweep finds the lock taken.
ReloadNotLost ==
    \A c \in Configs :
        (marker /\ disk = c) ~> (config = c \/ disk # c \/ shutdown)
=============================================================================
