------------------------------ MODULE Lifecycle ------------------------------
(***************************************************************************)
(* The processes of ponte on one POSIX machine: daemons, each from its     *)
(* spawn to its death, and the commands that start, stop and restart them, *)
(* which share nothing with them but the pid file, the stop marker and     *)
(* signals.                                                                *)
(*                                                                         *)
(* A process is named by its pid; no pid is used twice.  What a daemon     *)
(* does while it runs is the module Daemon's: here it has ssh children or  *)
(* not.  How long a boot, a shutdown or a timeout takes is left open.      *)
(***************************************************************************)
EXTENDS Naturals, FiniteSets

CONSTANTS
    Slots,      \* commands at work at the same time
    MaxPid,     \* bound: daemons ever spawned
    Faults      \* which of "crash", "interrupt" (Ctrl-C), "raise" can happen

ASSUME SlotAssumption == IsFiniteSet(Slots)
ASSUME PidAssumption == MaxPid \in Nat
ASSUME FaultAssumption == Faults \subseteq {"crash", "interrupt", "raise"}

Pids == 1 .. MaxPid
NoPid == 0

VARIABLES
    pidFile,    \* what the pid file says, NoPid when there is none
    marker,     \* the stop marker exists
    phase,      \* where each daemon is
    ssh,        \* it has ssh children that are alive
    unit,       \* the service manager: the daemon it started and keeps, or none
    enabled,    \* the unit is to be kept running
    cmd,        \* each command: what it does, where it is, the pid it goes by
    aimed,      \* history: the daemons the marker that is there was dropped for
    raced,      \* history: a command or a spawn beside another or beside a boot
    unclean     \* history: daemons that ended without their _cleanup

files   == <<pidFile, marker>>
service == <<unit, enabled>>
history == <<aimed, raced, unclean>>
vars == <<files, phase, ssh, service, cmd, history>>

Booting == {"booting", "checked"}
Serving == {"written", "cleared", "running", "draining"}
DaemonPhases == Booting \cup Serving \cup {"cleaning"}
StopPcs == {"stop", "hook", "hooked", "mark", "wait", "term", "grace", "kill",
            "unmark", "unpid"}
CmdPcs == {"idle", "look", "spawn", "await"} \cup StopPcs
Idle == [op |-> "none", pc |-> "idle", pid |-> NoPid, child |-> NoPid]

LifecycleTypeOK ==
    /\ pidFile \in Pids \cup {NoPid}
    /\ marker \in BOOLEAN
    /\ phase \in [Pids -> DaemonPhases \cup {"none", "gone"}]
    /\ ssh \in [Pids -> BOOLEAN]
    /\ unit \in Pids \cup {NoPid}
    /\ enabled \in BOOLEAN
    /\ cmd \in [Slots -> [op : {"none", "start", "stop", "restart"}, pc : CmdPcs,
                          pid : Pids \cup {NoPid}, child : Pids \cup {NoPid}]]
    /\ \A c \in Slots : cmd[c].pc \in StopPcs \ {"stop"} => cmd[c].pid \in Pids
    /\ aimed \subseteq Pids
    /\ raced \in BOOLEAN
    /\ unclean \subseteq Pids

Init ==
    /\ pidFile = NoPid /\ marker = FALSE
    /\ phase = [p \in Pids |-> "none"]
    /\ ssh = [p \in Pids |-> FALSE]
    /\ unit = NoPid /\ enabled \in BOOLEAN
    /\ cmd = [c \in Slots |-> Idle]
    /\ aimed = {} /\ raced = FALSE /\ unclean = {}

\* _pid_alive.
Alive(p) == p # NoPid /\ phase[p] \in DaemonPhases

\* status(): the file names a live process.
Running == Alive(pidFile)

-----------------------------------------------------------------------------
(* A daemon, from `start --foreground` to its exit.                        *)

Goes(p, from, to) == phase[p] = from /\ phase' = [phase EXCEPT ![p] = to]

\* Its main() looks for another daemon before it becomes one.
Check(p) ==
    /\ Goes(p, "booting", IF Running THEN "gone" ELSE "checked")
    /\ UNCHANGED <<files, ssh, service, cmd, history>>

\* The import, the configuration, the log file or the pid file fails.
BootFails(p) ==
    /\ "raise" \in Faults
    /\ phase[p] \in Booting
    /\ phase' = [phase EXCEPT ![p] = "gone"]
    /\ UNCHANGED <<files, ssh, service, cmd, history>>

WritePid(p) ==
    /\ Goes(p, "checked", "written")
    /\ pidFile' = p
    /\ UNCHANGED <<marker, ssh, service, cmd, history>>

KeepMarker(p) ==                        \* Mutant: the old marker is left there
    /\ Goes(p, "written", "cleared")
    /\ UNCHANGED <<files, ssh, service, cmd, history>>

\* A request meant for an earlier daemon must not reach this one.
ClearMarker(p) ==
    /\ Goes(p, "written", "cleared")
    /\ marker' = FALSE /\ aimed' = {}
    /\ UNCHANGED <<pidFile, ssh, service, cmd, raced, unclean>>

\* Signal handlers, watchers and profile loops.
Serve(p) ==
    /\ Goes(p, "cleared", "running")
    /\ ssh' = [ssh EXCEPT ![p] = TRUE]
    /\ UNCHANGED <<files, service, cmd, history>>

SeeMarker(p) ==
    /\ Goes(p, "running", "draining")
    /\ marker
    /\ UNCHANGED <<files, ssh, service, cmd, history>>

\* Every profile loop has ended.
LoopsEnd(p) ==
    /\ Goes(p, "running", "draining")
    /\ UNCHANGED <<files, ssh, service, cmd, history>>

\* What becomes of its ssh children in a shutdown of its own: all are ended, or
\* some live on, those that abort() did not find (between Popen and self.process)
\* or whose loop finish() gave up to wait for.
LetGo(p) == \E left \in {FALSE, ssh[p]} : ssh' = [ssh EXCEPT ![p] = left]

LeavePid(p) ==                          \* Mutant: the pid file is left behind
    /\ Goes(p, "draining", "cleaning")
    /\ LetGo(p)
    /\ UNCHANGED <<files, service, cmd, history>>

\* The runners are finished one after the other; then _cleanup.
RemovePid(p) ==
    /\ Goes(p, "draining", "cleaning")
    /\ LetGo(p)
    /\ pidFile' = NoPid
    /\ UNCHANGED <<marker, service, cmd, history>>

\* No thread can be started, or an abort() raises within finish(): run() is left
\* without its _cleanup.
GiveUp(p) ==
    /\ "raise" \in Faults
    /\ phase[p] \in {"cleared", "draining"}
    /\ phase' = [phase EXCEPT ![p] = "gone"]
    /\ LetGo(p)
    /\ unclean' = unclean \cup {p}
    /\ UNCHANGED <<files, service, cmd, aimed, raced>>

PidLast(p) ==                           \* Mutant: the pid file goes last
    /\ Goes(p, "cleaning", "gone")
    /\ pidFile' = NoPid /\ marker' = FALSE /\ aimed' = {}
    /\ UNCHANGED <<ssh, service, cmd, raced, unclean>>

Exit(p) ==
    /\ Goes(p, "cleaning", "gone")
    /\ marker' = FALSE /\ aimed' = {}
    /\ UNCHANGED <<pidFile, ssh, service, cmd, raced, unclean>>

Crash(p) ==
    /\ "crash" \in Faults
    /\ Alive(p)
    /\ phase' = [phase EXCEPT ![p] = "gone"]
    /\ unclean' = unclean \cup {p}
    /\ UNCHANGED <<files, ssh, service, cmd, aimed, raced>>

Fault(p) == BootFails(p) \/ GiveUp(p) \/ Crash(p)

Daemon(p) ==
    \/ Check(p) \/ WritePid(p) \/ ClearMarker(p) \/ Serve(p) \/ SeeMarker(p)
    \/ LoopsEnd(p) \/ RemovePid(p) \/ Exit(p)

-----------------------------------------------------------------------------
(* The service manager, and what a spawn has in common.                    *)

Fresh == {p \in Pids : phase[p] = "none"}
NextPid == CHOOSE p \in Fresh : TRUE
Active == {c \in Slots : cmd[c].pc # "idle"}
Overlap(others) == others # {} \/ \E p \in Pids : phase[p] \in Booting

\* Restart=always: `start --foreground` again once the last one has exited.
ServiceSpawn ==
    /\ enabled /\ ~Alive(unit)
    /\ Cardinality(Fresh) > Cardinality(Active)
    /\ unit' = NextPid
    /\ phase' = [phase EXCEPT ![NextPid] = "booting"]
    /\ raced' = (raced \/ Overlap(Active))
    /\ UNCHANGED <<files, ssh, enabled, cmd, aimed, unclean>>

\* SIGTERM: before its handlers are there it ends the process at once.
Terminated(p) ==
    /\ phase' = [phase EXCEPT ![p] =
                    CASE @ \in {"booting", "checked", "written", "cleared"} -> "gone"
                      [] @ = "running" -> "draining"
                      [] OTHER -> @]
    /\ unclean' = IF phase[p] \in Booting \cup {"written", "cleared"}
                 THEN unclean \cup {p} ELSE unclean

-----------------------------------------------------------------------------
(* Commands.                                                               *)

Step(c, from, to) == cmd[c].pc = from /\ cmd' = [cmd EXCEPT ![c].pc = to]
End(c) == cmd' = [cmd EXCEPT ![c] = Idle]

Begin(c) ==
    /\ cmd[c] = Idle
    /\ \E op \in {"start", "stop", "restart"} :
          /\ op # "stop" => Cardinality(Fresh) > Cardinality(Active)
          /\ cmd' = [cmd EXCEPT ![c] = [Idle EXCEPT !.op = op, !.pc = "look"]]
    /\ raced' = (raced \/ Overlap(Active))
    /\ UNCHANGED <<files, phase, ssh, service, aimed, unclean>>

\* The command's own look at status().
Look(c) ==
    /\ cmd[c].pc = "look"
    /\ \/ /\ cmd[c].op = "start" /\ Running /\ End(c)
       \/ /\ cmd[c].op = "stop" /\ ~Running /\ End(c)
       \/ /\ cmd[c].op # "stop" /\ ~Running /\ Step(c, "look", "spawn")
       \/ /\ cmd[c].op # "start" /\ Running /\ Step(c, "look", "stop")
    /\ UNCHANGED <<files, phase, ssh, service, history>>

\* _spawn_background.  Begin has left a pid for it.
Spawn(c) ==
    /\ cmd[c].pc = "spawn" /\ Fresh # {}
    /\ phase' = [phase EXCEPT ![NextPid] = "booting"]
    /\ cmd' = [cmd EXCEPT ![c].pc = "await", ![c].child = NextPid]
    /\ raced' = (raced \/ Overlap(Active \ {c}))
    /\ UNCHANGED <<files, ssh, service, aimed, unclean>>

\* The first pid the file holds is the answer; or none for 10 s.
Await(c) ==
    /\ cmd[c].pc = "await"
    /\ End(c)
    /\ UNCHANGED <<files, phase, ssh, service, history>>

\* stop() looks for itself.
StopLook(c) ==
    /\ cmd[c].pc = "stop"
    /\ IF Running
       THEN cmd' = [cmd EXCEPT ![c].pc = "hook", ![c].pid = pidFile]
       ELSE IF cmd[c].op = "restart" THEN Step(c, "stop", "spawn") ELSE End(c)
    /\ UNCHANGED <<files, phase, ssh, service, history>>

\* _stop_autostart: `systemctl stop` ends the daemon of the unit.
StopHook(c) ==
    /\ Step(c, "hook", "hooked")
    /\ enabled' = FALSE
    /\ IF Alive(unit) THEN Terminated(unit) ELSE UNCHANGED <<phase, unclean>>
    /\ UNCHANGED <<files, ssh, unit, aimed, raced>>

\* It returns when that daemon is gone; after 90 s its whole group is killed.
StopHooked(c) ==
    /\ Step(c, "hooked", "mark")
    /\ IF Alive(unit)
       THEN /\ phase' = [phase EXCEPT ![unit] = "gone"]
            /\ ssh' = [ssh EXCEPT ![unit] = FALSE]
            /\ unclean' = unclean \cup {unit}
       ELSE UNCHANGED <<phase, ssh, unclean>>
    /\ UNCHANGED <<files, service, aimed, raced>>

\* A marker that cannot be written is logged, and the stop goes on.
DropMarker(c) ==
    /\ Step(c, "mark", "wait")
    /\ \/ marker' = TRUE /\ aimed' = aimed \cup {cmd[c].pid}
       \/ "raise" \in Faults /\ UNCHANGED <<marker, aimed>>
    /\ UNCHANGED <<pidFile, phase, ssh, service, raced, unclean>>

NeverForce(c) ==                        \* Mutant: no escalation
    /\ Step(c, "wait", "unmark")
    /\ UNCHANGED <<files, phase, ssh, service, history>>

\* Until the process is gone, or for 20 s.
Wait(c) ==
    /\ Step(c, "wait", IF Alive(cmd[c].pid) THEN "term" ELSE "unmark")
    /\ UNCHANGED <<files, phase, ssh, service, history>>

\* _force_kill, first half.
Term(c) ==
    /\ Step(c, "term", IF Alive(cmd[c].pid) THEN "grace" ELSE "unmark")
    /\ IF Alive(cmd[c].pid) THEN Terminated(cmd[c].pid)
                            ELSE UNCHANGED <<phase, unclean>>
    /\ UNCHANGED <<files, ssh, service, aimed, raced>>

PatientGrace(c) ==                      \* Mutant: no kill_timeout
    /\ Step(c, "grace", "unmark")
    /\ ~Alive(cmd[c].pid)
    /\ UNCHANGED <<files, phase, ssh, service, history>>

\* Until it is gone, or for kill_timeout.
Grace(c) ==
    /\ Step(c, "grace", IF Alive(cmd[c].pid) THEN "kill" ELSE "unmark")
    /\ UNCHANGED <<files, phase, ssh, service, history>>

\* SIGKILL reaches the daemon, not its ssh children.
Kill(c) ==
    /\ Step(c, "kill", "unmark")
    /\ IF Alive(cmd[c].pid)
       THEN /\ phase' = [phase EXCEPT ![cmd[c].pid] = "gone"]
            /\ unclean' = unclean \cup {cmd[c].pid}
       ELSE UNCHANGED <<phase, unclean>>
    /\ UNCHANGED <<files, ssh, service, aimed, raced>>

Unmark(c) ==
    /\ Step(c, "unmark", "unpid")
    /\ marker' = FALSE /\ aimed' = {}
    /\ UNCHANGED <<pidFile, phase, ssh, service, raced, unclean>>

\* Whatever the pid file says by now.
Unpid(c) ==
    /\ cmd[c].pc = "unpid"
    /\ IF cmd[c].op = "restart" THEN Step(c, "unpid", "spawn") ELSE End(c)
    /\ pidFile' = NoPid
    /\ UNCHANGED <<marker, phase, ssh, service, history>>

Interrupt(c) ==
    /\ "interrupt" \in Faults
    /\ cmd[c].pc # "idle" /\ End(c)
    /\ UNCHANGED <<files, phase, ssh, service, history>>

Command(c) ==
    \/ Look(c) \/ Spawn(c) \/ Await(c) \/ StopLook(c) \/ StopHook(c)
    \/ StopHooked(c) \/ DropMarker(c) \/ Wait(c) \/ Term(c) \/ Grace(c)
    \/ Kill(c) \/ Unmark(c) \/ Unpid(c)

Next ==
    \/ \E p \in Pids : Daemon(p) \/ Fault(p)
    \/ ServiceSpawn
    \/ \E c \in Slots : Begin(c) \/ Command(c) \/ Interrupt(c)

\* A command that is not interrupted goes on; of a daemon nothing is assumed.
Spec == Init /\ [][Next]_vars /\ \A c \in Slots : WF_vars(Command(c))

-----------------------------------------------------------------------------
(* Properties.                                                             *)

\* stop() reports a daemon stopped only when the process it set out to stop is
\* gone: with the marker lost to a daemon that clears it at its start, not
\* written, or ignored by a shutdown that hangs.
StoppedIsDead ==
    \A c \in Slots : cmd[c].pc \in {"unmark", "unpid"} => phase[cmd[c].pid] = "gone"

\* As long as no two commands are at work at once and none is given while a
\* daemon still boots, the pid file names every daemon that runs: there is one
\* at most, and status, stop and a second start find it, whatever crashes, is
\* killed or is interrupted half way.
DaemonNamed ==
    ~raced => \A p \in Pids : phase[p] \in Serving => pidFile = p

\* A stop marker ends only daemons it was dropped for: one an interrupted stop
\* left behind does not stop the next daemon.
MarkerHitsTarget ==
    [][\A p \in Pids :
          ~raced /\ marker /\ phase[p] = "running" /\ SeeMarker(p) => p \in aimed]_vars

\* A stop or restart that was begun and is not interrupted ends, although no
\* daemon has to react to it.
StopEnds ==
    \A c \in Slots : cmd[c].pc \in StopPcs ~> cmd[c].pc = "idle"

\* start() answers the pid of the daemon it spawned, or that of one that ended
\* without its _cleanup and could not remove its pid file: never one whose own
\* shutdown went through.
StartAnswers ==
    [][\A c \in Slots :
          Await(c) /\ ~raced /\ pidFile # NoPid =>
             pidFile = cmd[c].child \/ pidFile \in unclean]_vars
=============================================================================
