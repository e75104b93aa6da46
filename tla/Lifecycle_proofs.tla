--------------------------- MODULE Lifecycle_proofs ---------------------------
(***************************************************************************)
(* Theorems about the processes of ponte, for any number of commands at    *)
(* work at once and of daemons ever spawned, and whatever crashes.         *)
(***************************************************************************)
EXTENDS Lifecycle, FiniteSetTheorems, TLAPS

Phases == DaemonPhases \cup {"none", "gone"}
Cmds == [op : {"none", "start", "stop", "restart"}, pc : CmdPcs,
         pid : Pids \cup {NoPid}, child : Pids \cup {NoPid}]

\* A stop works on a process that was there when it began.
Chosen == \A c \in Slots : cmd[c].pc \in StopPcs \ {"stop"} => phase[cmd[c].pid] # "none"

IInv == LifecycleTypeOK /\ Chosen /\ StoppedIsDead

\* No process comes back: what a step can do to the phases of the daemons.
Forward ==
    /\ phase' \in [Pids -> Phases]
    /\ \A p \in Pids : /\ phase[p] # "none" => phase'[p] # "none"
                       /\ phase[p] = "gone" => phase'[p] = "gone"

Children ==
    /\ ssh' \in [Pids -> BOOLEAN]
    /\ unclean' \subseteq Pids

\* What a step of a daemon leaves alone.
Untouched == UNCHANGED <<cmd, unit, enabled, raced>>

LEMMA DaemonStep ==
    ASSUME IInv, NEW p \in Pids, Daemon(p) \/ Fault(p)
    PROVE  /\ Forward /\ Children /\ Untouched
           /\ pidFile' \in Pids \cup {NoPid} /\ marker' \in BOOLEAN /\ aimed' \subseteq Pids
  <1> USE DEF IInv, LifecycleTypeOK, Forward, Children, Untouched, Goes,
              Phases, DaemonPhases, Booting, Serving, files, service, history
  <1>1. CASE Check(p)
    BY <1>1 DEF Check
  <1>2. CASE WritePid(p)
    BY <1>2 DEF WritePid
  <1>3. CASE ClearMarker(p)
    BY <1>3 DEF ClearMarker
  <1>4. CASE Serve(p)
    BY <1>4 DEF Serve
  <1>5. CASE SeeMarker(p) \/ LoopsEnd(p)
    BY <1>5 DEF SeeMarker, LoopsEnd
  <1>6. CASE RemovePid(p)
    BY <1>6 DEF RemovePid, LetGo
  <1>7. CASE Exit(p)
    BY <1>7 DEF Exit
  <1>8. CASE BootFails(p)
    BY <1>8 DEF BootFails
  <1>9. CASE Crash(p)
    BY <1>9 DEF Crash, Alive
  <1>10. CASE GiveUp(p)
    BY <1>10 DEF GiveUp, LetGo
  <1>11. QED
    BY <1>1, <1>2, <1>3, <1>4, <1>5, <1>6, <1>7, <1>8, <1>9, <1>10 DEF Daemon, Fault

\* Of a daemon, IInv asks no more than that.
LEMMA DaemonKeeps ==
    ASSUME IInv, NEW p \in Pids, Daemon(p) \/ Fault(p)
    PROVE  IInv'
  <1>1. /\ Forward /\ Children /\ Untouched
        /\ pidFile' \in Pids \cup {NoPid} /\ marker' \in BOOLEAN /\ aimed' \subseteq Pids
    BY DaemonStep
  <1>2. LifecycleTypeOK'
    BY <1>1 DEF IInv, LifecycleTypeOK, Forward, Children, Untouched, Phases
  <1>3. Chosen' /\ StoppedIsDead'
    BY <1>1 DEF IInv, LifecycleTypeOK, Chosen, StoppedIsDead, Forward, Untouched, StopPcs
  <1>4. QED
    BY <1>1, <1>2, <1>3 DEF IInv, Children

-----------------------------------------------------------------------------
(* Spawns and signals.                                                     *)

LEMMA FreshPid ==
    ASSUME Fresh # {}
    PROVE  NextPid \in Pids /\ phase[NextPid] = "none"
  BY DEF NextPid, Fresh

LEMMA SpawnStep ==
    ASSUME IInv, NextPid \in Pids, phase[NextPid] = "none",
           phase' = [phase EXCEPT ![NextPid] = "booting"], UNCHANGED <<ssh, unclean>>
    PROVE  Forward /\ Children
  BY DEF IInv, LifecycleTypeOK, Forward, Children, Phases, DaemonPhases, Booting

LEMMA TermStep ==
    ASSUME IInv, NEW p \in Pids, phase[p] \in DaemonPhases, Terminated(p), UNCHANGED ssh
    PROVE  Forward /\ Children
  BY DEF IInv, LifecycleTypeOK, Forward, Children, Terminated, Phases,
         DaemonPhases, Booting, Serving

LEMMA KillStep ==
    ASSUME IInv, NEW p \in Pids, phase' = [phase EXCEPT ![p] = "gone"],
           phase[p] # "none", unclean' = unclean \cup {p},
           ssh' = ssh \/ ssh' = [ssh EXCEPT ![p] = FALSE]
    PROVE  Forward /\ Children /\ phase'[p] = "gone"
  BY DEF IInv, LifecycleTypeOK, Forward, Children, Phases, DaemonPhases,
         Booting, Serving

LEMMA StillStep ==
    ASSUME IInv, UNCHANGED <<phase, ssh, unclean>>
    PROVE  Forward /\ Children
  BY DEF IInv, LifecycleTypeOK, Forward, Children, Phases

\* What is left to show of a command once its effect on the processes is known.
LEMMA CommandKeeps ==
    ASSUME IInv, Forward, Children, NEW c \in Slots, NEW r \in Cmds,
           cmd' = [cmd EXCEPT ![c] = r],
           r.pc \in StopPcs \ {"stop"} => r.pid \in Pids /\ phase'[r.pid] # "none",
           r.pc \in {"unmark", "unpid"} => phase'[r.pid] = "gone",
           pidFile' \in Pids \cup {NoPid}, marker' \in BOOLEAN,
           unit' \in Pids \cup {NoPid}, enabled' \in BOOLEAN,
           aimed' \subseteq Pids, raced' \in BOOLEAN
    PROVE  IInv'
  <1>1. cmd' \in [Slots -> Cmds]
    BY DEF IInv, LifecycleTypeOK, Cmds
  <1>2. \A d \in Slots : cmd'[d] = IF d = c THEN r ELSE cmd[d]
    BY DEF IInv, LifecycleTypeOK
  <1>3. LifecycleTypeOK'
    BY <1>1, <1>2 DEF IInv, LifecycleTypeOK, Forward, Children, Phases, Cmds
  <1>4. Chosen' /\ StoppedIsDead'
    BY <1>2 DEF IInv, LifecycleTypeOK, Chosen, StoppedIsDead, Forward, StopPcs
  <1>5. QED
    BY <1>3, <1>4 DEF IInv, Children

-----------------------------------------------------------------------------
(* The commands, one by one.                                               *)

\* A command that ends or is given another place, and touches nothing else.
LEMMA PlainStep ==
    ASSUME IInv, NEW c \in Slots, NEW r \in Cmds, cmd' = [cmd EXCEPT ![c] = r],
           r.pc \in StopPcs \ {"stop"} => r.pid \in Pids /\ phase[r.pid] # "none",
           r.pc \in {"unmark", "unpid"} => phase[r.pid] = "gone",
           raced' \in BOOLEAN, UNCHANGED <<phase, ssh, service, aimed, unclean>>,
           marker' \in BOOLEAN, pidFile' \in Pids \cup {NoPid}
    PROVE  IInv'
  <1>1. Forward /\ Children
    BY StillStep
  <1>2. r.pid \in Pids /\ phase[r.pid] # "none" => phase'[r.pid] # "none"
    OBVIOUS
  <1>3. QED
    BY <1>1, <1>2, CommandKeeps DEF IInv, LifecycleTypeOK, service

LEMMA IdleCmd == Idle \in Cmds
  BY DEF Idle, Cmds, CmdPcs, StopPcs

LEMMA MovedCmd ==
    ASSUME IInv, NEW c \in Slots, NEW from, NEW to \in CmdPcs, Step(c, from, to)
    PROVE  /\ [cmd[c] EXCEPT !.pc = to] \in Cmds
           /\ cmd' = [cmd EXCEPT ![c] = [cmd[c] EXCEPT !.pc = to]]
           /\ cmd[c].pc = from
  BY DEF IInv, LifecycleTypeOK, Step, Cmds

\* What is known of the process a stop works on.
LEMMA ChosenPid ==
    ASSUME IInv, NEW c \in Slots, cmd[c].pc \in StopPcs \ {"stop"}
    PROVE  /\ cmd[c].pid \in Pids /\ phase[cmd[c].pid] # "none"
           /\ ~Alive(cmd[c].pid) => phase[cmd[c].pid] = "gone"
  BY DEF IInv, LifecycleTypeOK, Chosen, Alive, DaemonPhases, Pids, NoPid

LEMMA EndKeeps ==
    ASSUME IInv, NEW c \in Slots, End(c), raced' \in BOOLEAN,
           UNCHANGED <<phase, ssh, service, aimed, unclean, marker>>,
           pidFile' \in Pids \cup {NoPid}
    PROVE  IInv'
  BY IdleCmd, PlainStep DEF End, Idle, IInv, LifecycleTypeOK, StopPcs

\* A move within the command: what the place it goes to asks for.
LEMMA MoveKeeps ==
    ASSUME IInv, NEW c \in Slots, NEW from, NEW to \in CmdPcs, Step(c, from, to),
           to \in StopPcs \ {"stop"} => from \in StopPcs \ {"stop"},
           to \in {"unmark", "unpid"} => phase'[cmd[c].pid] = "gone",
           Forward, Children, pidFile' \in Pids \cup {NoPid}, marker' \in BOOLEAN,
           unit' \in Pids \cup {NoPid}, enabled' \in BOOLEAN, aimed' \subseteq Pids,
           raced' \in BOOLEAN
    PROVE  IInv'
  <1> DEFINE r == [cmd[c] EXCEPT !.pc = to]
  <1>1. r \in Cmds /\ cmd' = [cmd EXCEPT ![c] = r] /\ cmd[c].pc = from
    BY MovedCmd
  <1>2. r.pc = to /\ r.pid = cmd[c].pid
    BY DEF IInv, LifecycleTypeOK
  <1>3. r.pc \in StopPcs \ {"stop"} => r.pid \in Pids /\ phase'[r.pid] # "none"
    BY <1>1, <1>2, ChosenPid DEF Forward
  <1> HIDE DEF r
  <1>4. QED
    BY <1>1, <1>2, <1>3, CommandKeeps

LEMMA BeginKeeps ==
    ASSUME IInv, NEW c \in Slots, Begin(c)
    PROVE  IInv'
  <1>1. PICK op \in {"start", "stop", "restart"} :
           cmd' = [cmd EXCEPT ![c] = [Idle EXCEPT !.op = op, !.pc = "look"]]
    BY DEF Begin
  <1> DEFINE r == [Idle EXCEPT !.op = op, !.pc = "look"]
  <1>2. r \in Cmds /\ r.pc = "look"
    BY IdleCmd DEF Cmds, CmdPcs, Idle
  <1>3. raced' \in BOOLEAN
    BY DEF Begin, IInv, LifecycleTypeOK, Overlap
  <1>4. QED
    BY <1>1, <1>2, <1>3, PlainStep DEF Begin, IInv, LifecycleTypeOK, files, service, StopPcs

LEMMA SpawnKeeps ==
    ASSUME IInv, NEW c \in Slots, Spawn(c)
    PROVE  IInv'
  <1>1. NextPid \in Pids /\ phase[NextPid] = "none"
    BY FreshPid DEF Spawn
  <1>2. Forward /\ Children
    BY <1>1, SpawnStep DEF Spawn
  <1> DEFINE r == [cmd[c] EXCEPT !.pc = "await", !.child = NextPid]
  <1>3. r \in Cmds /\ r.pc = "await" /\ cmd' = [cmd EXCEPT ![c] = r]
    BY <1>1 DEF Spawn, IInv, LifecycleTypeOK, Cmds, CmdPcs
  <1>4. raced' \in BOOLEAN
    BY DEF Spawn, IInv, LifecycleTypeOK, Overlap
  <1> HIDE DEF r
  <1>5. QED
    BY <1>2, <1>3, <1>4, CommandKeeps
    DEF Spawn, IInv, LifecycleTypeOK, files, service, StopPcs

LEMMA ServicePid ==
    ASSUME ServiceSpawn
    PROVE  NextPid \in Pids /\ phase[NextPid] = "none"
  <1>1. Active \subseteq Slots
    BY DEF Active
  <1>2. Cardinality(Active) \in Nat
    BY <1>1, SlotAssumption, FS_Subset, FS_CardinalityType
  <1>3. Fresh # {}
    BY <1>2, FS_EmptySet DEF ServiceSpawn
  <1>4. QED
    BY <1>3, FreshPid

LEMMA ServiceKeeps ==
    ASSUME IInv, ServiceSpawn
    PROVE  IInv'
  <1>1. NextPid \in Pids /\ phase[NextPid] = "none"
    BY ServicePid
  <1>2. Forward /\ Children
    BY <1>1, SpawnStep DEF ServiceSpawn
  <1>3. LifecycleTypeOK'
    BY <1>1, <1>2
    DEF ServiceSpawn, IInv, LifecycleTypeOK, Forward, Children, Phases, files, Overlap
  <1>4. Chosen' /\ StoppedIsDead'
    BY <1>2 DEF ServiceSpawn, IInv, LifecycleTypeOK, Chosen, StoppedIsDead, Forward, StopPcs
  <1>5. QED
    BY <1>2, <1>3, <1>4 DEF IInv, Children

LEMMA CommandInv ==
    ASSUME IInv, NEW c \in Slots, Command(c)
    PROVE  IInv'
  <1> USE DEF IInv, LifecycleTypeOK, files, service, history
  <1>1. CASE Look(c)
    <2>1. CASE End(c)
      BY <1>1, <2>1, EndKeeps DEF Look
    <2>2. CASE Step(c, "look", "spawn") \/ Step(c, "look", "stop")
      BY <1>1, <2>2, StillStep, MoveKeeps DEF Look, CmdPcs, StopPcs
    <2>3. QED
      BY <1>1, <2>1, <2>2 DEF Look
  <1>2. CASE Spawn(c)
    BY <1>2, SpawnKeeps
  <1>3. CASE Await(c)
    BY <1>3, EndKeeps DEF Await
  <1>4. CASE StopLook(c)
    <2>1. CASE End(c)
      BY <1>4, <2>1, EndKeeps DEF StopLook
    <2>2. CASE Step(c, "stop", "spawn")
      BY <1>4, <2>2, StillStep, MoveKeeps DEF StopLook, CmdPcs, StopPcs
    <2>3. CASE Running /\ cmd' = [cmd EXCEPT ![c].pc = "hook", ![c].pid = pidFile]
      <3> DEFINE r == [cmd[c] EXCEPT !.pc = "hook", !.pid = pidFile]
      <3>1. pidFile \in Pids /\ phase[pidFile] # "none"
        BY <2>3 DEF Running, Alive, DaemonPhases, Booting, Serving, Pids, NoPid
      <3>2. r \in Cmds /\ r.pc = "hook" /\ r.pid = pidFile
            /\ cmd' = [cmd EXCEPT ![c] = r]
        BY <2>3, <3>1 DEF Cmds, CmdPcs, StopPcs
      <3> HIDE DEF r
      <3>3. QED
        BY <1>4, <3>1, <3>2, PlainStep DEF StopLook, StopPcs
    <2>4. QED
      BY <1>4, <2>1, <2>2, <2>3 DEF StopLook
  <1>5. CASE StopHook(c)
    <2>1. Forward /\ Children
      <3>1. CASE Alive(unit)
        BY <1>5, <3>1, TermStep DEF StopHook, Alive, Pids, NoPid
      <3>2. CASE ~Alive(unit)
        BY <1>5, <3>2, StillStep DEF StopHook
      <3>3. QED
        BY <3>1, <3>2
    <2>2. QED
      BY <1>5, <2>1, MoveKeeps DEF StopHook, CmdPcs, StopPcs
  <1>6. CASE StopHooked(c)
    <2>1. Forward /\ Children
      <3>1. CASE Alive(unit)
        BY <1>6, <3>1, KillStep DEF StopHooked, Alive, DaemonPhases, Booting, Serving, Pids, NoPid
      <3>2. CASE ~Alive(unit)
        BY <1>6, <3>2, StillStep DEF StopHooked
      <3>3. QED
        BY <3>1, <3>2
    <2>2. QED
      BY <1>6, <2>1, MoveKeeps DEF StopHooked, CmdPcs, StopPcs
  <1>7. CASE DropMarker(c)
    <2>1. cmd[c].pid \in Pids
      BY <1>7, ChosenPid DEF DropMarker, Step, StopPcs
    <2>2. QED
      BY <1>7, <2>1, StillStep, MoveKeeps DEF DropMarker, CmdPcs, StopPcs
  <1>8. CASE Wait(c)
    <2>1. /\ cmd[c].pc \in StopPcs \ {"stop"}
          /\ Step(c, "wait", "term") \/ (~Alive(cmd[c].pid) /\ Step(c, "wait", "unmark"))
      BY <1>8 DEF Wait, Step, StopPcs
    <2>2. QED
      BY <1>8, <2>1, ChosenPid, StillStep, MoveKeeps DEF Wait, CmdPcs, StopPcs
  <1>9. CASE Term(c)
    <2>1. cmd[c].pc \in StopPcs \ {"stop"}
      BY <1>9 DEF Term, Step, StopPcs
    <2>2. CASE Alive(cmd[c].pid)
      <3>1. Forward /\ Children
        BY <1>9, <2>1, <2>2, ChosenPid, TermStep DEF Term, Alive
      <3>2. Step(c, "term", "grace")
        BY <1>9, <2>2 DEF Term
      <3>3. QED
        BY <1>9, <3>1, <3>2, MoveKeeps DEF Term, CmdPcs, StopPcs
    <2>3. CASE ~Alive(cmd[c].pid)
      BY <1>9, <2>1, <2>3, ChosenPid, StillStep, MoveKeeps DEF Term, CmdPcs, StopPcs
    <2>4. QED
      BY <2>2, <2>3
  <1>10. CASE Grace(c)
    <2>1. /\ cmd[c].pc \in StopPcs \ {"stop"}
          /\ Step(c, "grace", "kill") \/ (~Alive(cmd[c].pid) /\ Step(c, "grace", "unmark"))
      BY <1>10 DEF Grace, Step, StopPcs
    <2>2. QED
      BY <1>10, <2>1, ChosenPid, StillStep, MoveKeeps DEF Grace, CmdPcs, StopPcs
  <1>11. CASE Kill(c)
    <2>1. cmd[c].pc \in StopPcs \ {"stop"} /\ Step(c, "kill", "unmark")
      BY <1>11 DEF Kill, Step, StopPcs
    <2>2. cmd[c].pid \in Pids /\ phase[cmd[c].pid] # "none"
      BY <2>1, ChosenPid
    <2>3. Forward /\ Children /\ phase'[cmd[c].pid] = "gone"
      <3>1. CASE Alive(cmd[c].pid)
        BY <1>11, <2>2, <3>1, KillStep DEF Kill
      <3>2. CASE ~Alive(cmd[c].pid)
        BY <1>11, <2>1, <3>2, ChosenPid, StillStep DEF Kill
      <3>3. QED
        BY <3>1, <3>2
    <2>4. QED
      BY <1>11, <2>1, <2>3, MoveKeeps DEF Kill, CmdPcs, StopPcs
  <1>12. CASE Unmark(c)
    <2>1. cmd[c].pc = "unmark" /\ Step(c, "unmark", "unpid")
      BY <1>12 DEF Unmark, Step
    <2>2. phase[cmd[c].pid] = "gone"
      BY <2>1 DEF StoppedIsDead
    <2>3. QED
      BY <1>12, <2>1, <2>2, StillStep, MoveKeeps DEF Unmark, CmdPcs, StopPcs
  <1>13. CASE Unpid(c)
    <2>1. CASE End(c)
      BY <1>13, <2>1, EndKeeps DEF Unpid
    <2>2. CASE Step(c, "unpid", "spawn")
      BY <1>13, <2>2, StillStep, MoveKeeps DEF Unpid, CmdPcs, StopPcs
    <2>3. QED
      BY <1>13, <2>1, <2>2 DEF Unpid
  <1>14. QED
    BY <1>1, <1>2, <1>3, <1>4, <1>5, <1>6, <1>7, <1>8, <1>9, <1>10, <1>11, <1>12, <1>13
    DEF Command

-----------------------------------------------------------------------------
(* The invariant, and what follows from it.                                *)

LEMMA InitIInv == Init => IInv
  <1> SUFFICES ASSUME Init
               PROVE  IInv
    OBVIOUS
  <1>1. \A c \in Slots : cmd[c] = Idle
    BY DEF Init
  <1>2. cmd \in [Slots -> Cmds]
    BY IdleCmd DEF Init
  <1>3. LifecycleTypeOK
    BY <1>1, <1>2 DEF Init, LifecycleTypeOK, Cmds, Idle, StopPcs
  <1>4. QED
    BY <1>1, <1>3 DEF Init, IInv, Chosen, StoppedIsDead, Idle, StopPcs

LEMMA StepIInv == IInv /\ [Next]_vars => IInv'
  <1> SUFFICES ASSUME IInv, [Next]_vars
               PROVE  IInv'
    OBVIOUS
  <1>1. CASE \E p \in Pids : Daemon(p) \/ Fault(p)
    BY <1>1, DaemonKeeps
  <1>2. CASE ServiceSpawn
    BY <1>2, ServiceKeeps
  <1>3. CASE \E c \in Slots : Begin(c) \/ Command(c) \/ Interrupt(c)
    <2>1. PICK c \in Slots : Begin(c) \/ Command(c) \/ Interrupt(c)
      BY <1>3
    <2>2. CASE Begin(c)
      BY <2>2, BeginKeeps
    <2>3. CASE Command(c)
      BY <2>3, CommandInv
    <2>4. CASE Interrupt(c)
      BY <2>4, EndKeeps DEF Interrupt, IInv, LifecycleTypeOK, files, service, history
    <2>5. QED
      BY <2>1, <2>2, <2>3, <2>4
  <1>4. CASE UNCHANGED vars
    BY <1>4 DEF vars, files, service, history, IInv, LifecycleTypeOK, Chosen,
                StoppedIsDead
  <1>5. QED
    BY <1>1, <1>2, <1>3, <1>4 DEF Next

LEMMA AlwaysIInv == Spec => []IInv
  BY InitIInv, StepIInv, PTL DEF Spec

\* The pid file, the marker, the processes and the commands of
\* TunnelDaemon.start, stop and status keep to their shapes: a stop past its
\* look at status() always holds a pid.
THEOREM ProcessTypes == Spec => []LifecycleTypeOK
  <1>1. IInv => LifecycleTypeOK
    BY DEF IInv
  <1>2. QED
    BY <1>1, AlwaysIInv, PTL

\* Whatever crashes, is interrupted or runs beside it, stop() goes on to remove
\* marker and pid file only when the process it chose is dead: no code is there
\* that would make a process come back, and SIGKILL ends the wait.
THEOREM StoppedMeansDead == Spec => []StoppedIsDead
  <1>1. IInv => StoppedIsDead
    BY DEF IInv
  <1>2. QED
    BY <1>1, AlwaysIInv, PTL

-----------------------------------------------------------------------------
(* One command at a time: as long as none overlaps another or a boot.      *)

OneCommand == \A c, d \in Slots : cmd[c].pc # "idle" /\ cmd[d].pc # "idle" => c = d
OneBoot == \A p, q \in Pids : phase[p] \in Booting /\ phase[q] \in Booting => p = q
CheckedAlone == \A p, q \in Pids : phase[p] = "checked" => phase[q] \notin Serving
Named == \A p \in Pids : phase[p] \in Serving => pidFile = p

\* What a command of which nobody gets in the way knows of the daemons.
CommandAlone ==
    \A c \in Slots, p \in Pids :
        /\ cmd[c].pc \notin {"idle", "await"} => phase[p] \notin Booting
        /\ cmd[c].pc \in StopPcs \ {"stop"} /\ phase[p] \in Serving => p = cmd[c].pid
        /\ cmd[c].pc = "spawn" => phase[p] \notin Serving
        /\ cmd[c].pc = "await" /\ phase[p] \in Booting \cup Serving => p = cmd[c].child

\* A marker that is there was dropped for whoever can see it.
Marked == marker => \A p \in Pids : phase[p] \in {"cleared", "running"} => p \in aimed

Alone == OneCommand /\ OneBoot /\ CheckedAlone /\ Named /\ CommandAlone /\ Marked
AloneInv == ~raced => Alone

\* A daemon whose _cleanup was reached takes its pid file along.
PidInv == pidFile # NoPid => phase[pidFile] \in Serving \/ pidFile \in unclean

\* No daemon is spawned, and none gets as far as writing its pid.
Recede ==
    \A p \in Pids : /\ phase'[p] \in Serving => phase[p] \in Serving
                    /\ phase'[p] \in Booting => phase[p] \in Booting
                    /\ phase'[p] = "checked" => phase[p] = "checked"
                    /\ phase'[p] \in {"cleared", "running"} =>
                          phase[p] \in {"cleared", "running"}

NoServing == \A p \in Pids : phase[p] \notin Serving

\* Of a command that goes on to the record r beside daemons that at most end.
LEMMA CommandAloneKeeps ==
    ASSUME IInv, Alone, Recede, NEW c \in Slots, NEW r \in Cmds,
           cmd' = [cmd EXCEPT ![c] = r],
           r.pc # "await",
           r.pc # "idle" => /\ \A d \in Slots \ {c} : cmd[d].pc = "idle"
                            /\ \A p \in Pids : phase[p] \notin Booting,
           r.pc \in StopPcs \ {"stop"} =>
              \A p \in Pids : phase[p] \in Serving => p = r.pid,
           r.pc = "spawn" => NoServing,
           pidFile' = pidFile \/ NoServing,
           Marked'
    PROVE  Alone'
  <1> USE DEF Alone, Recede
  <1>1. \A d \in Slots : cmd'[d] = IF d = c THEN r ELSE cmd[d]
    BY DEF IInv, LifecycleTypeOK
  <1>2. OneCommand'
    BY <1>1 DEF OneCommand
  <1>3. OneBoot' /\ CheckedAlone'
    BY DEF OneBoot, CheckedAlone
  <1>4. Named'
    BY DEF Named, NoServing
  <1>5. CommandAlone'
    <2> SUFFICES ASSUME NEW d \in Slots, NEW p \in Pids
                 PROVE  /\ cmd'[d].pc \notin {"idle", "await"} => phase'[p] \notin Booting
                        /\ cmd'[d].pc \in StopPcs \ {"stop"} /\ phase'[p] \in Serving =>
                              p = cmd'[d].pid
                        /\ cmd'[d].pc = "spawn" => phase'[p] \notin Serving
                        /\ cmd'[d].pc = "await" /\ phase'[p] \in Booting \cup Serving =>
                              p = cmd'[d].child
      BY DEF CommandAlone
    <2>1. CASE d = c
      BY <1>1, <2>1 DEF NoServing
    <2>2. CASE d # c
      BY <1>1, <2>2 DEF CommandAlone
    <2>3. QED
      BY <2>1, <2>2
  <1>6. QED
    BY <1>2, <1>3, <1>4, <1>5

\* Of a step that leaves the commands where they are, beside daemons that at
\* most end.
LEMMA StillAlone ==
    ASSUME Alone, Recede, UNCHANGED cmd, pidFile' = pidFile \/ NoServing \/ Named', Marked'
    PROVE  Alone'
  <1> USE DEF Alone, Recede
  <1>1. OneCommand' /\ OneBoot' /\ CheckedAlone'
    BY DEF OneCommand, OneBoot, CheckedAlone
  <1>2. Named'
    BY DEF Named, NoServing
  <1>3. CommandAlone'
    BY DEF CommandAlone
  <1>4. QED
    BY <1>1, <1>2, <1>3

LEMMA DaemonAlone ==
    ASSUME IInv, Alone, NEW p \in Pids, Daemon(p) \/ Fault(p)
    PROVE  Alone'
  <1> USE DEF IInv, LifecycleTypeOK, Goes, DaemonPhases, Booting, Serving, files, service,
              history
  <1>1. CASE Check(p)
    <2>1. UNCHANGED <<cmd, pidFile, marker, aimed>>
      BY <1>1 DEF Check
    <2>2. CASE Running
      <3>1. Recede
        BY <1>1, <2>2 DEF Check, Recede
      <3>2. Marked'
        BY <2>1, <3>1 DEF Alone, Marked, Recede
      <3>3. QED
        BY <2>1, <3>1, <3>2, StillAlone
    <2>3. CASE ~Running
      <3>1. /\ phase[p] = "booting"
            /\ \A q \in Pids : phase'[q] = IF q = p THEN "checked" ELSE phase[q]
        BY <1>1, <2>3 DEF Check
      <3>2. NoServing
        BY <2>3 DEF Running, Alive, Alone, Named, NoServing, Pids, NoPid
      <3>3. OneCommand' /\ OneBoot' /\ CheckedAlone'
        BY <2>1, <3>1, <3>2 DEF Alone, OneCommand, OneBoot, CheckedAlone, NoServing
      <3>4. Named' /\ Marked'
        BY <2>1, <3>1, <3>2 DEF Named, Marked, NoServing
      <3>5. CommandAlone'
        BY <2>1, <3>1 DEF Alone, CommandAlone
      <3>6. QED
        BY <3>3, <3>4, <3>5 DEF Alone
    <2>4. QED
      BY <2>2, <2>3
  <1>2. CASE WritePid(p)
    <2>1. /\ phase[p] = "checked" /\ pidFile' = p
          /\ \A q \in Pids : phase'[q] = IF q = p THEN "written" ELSE phase[q]
          /\ UNCHANGED <<cmd, marker, aimed>>
      BY <1>2 DEF WritePid
    <2>2. NoServing
      BY <2>1 DEF Alone, CheckedAlone, NoServing
    <2>3. OneCommand' /\ OneBoot' /\ CheckedAlone'
      BY <2>1, <2>2 DEF Alone, OneCommand, OneBoot, CheckedAlone
    <2>4. Named' /\ Marked'
      BY <2>1, <2>2 DEF Alone, Named, Marked, NoServing
    <2>5. CommandAlone'
      BY <2>1 DEF Alone, CommandAlone, StopPcs
    <2>6. QED
      BY <2>3, <2>4, <2>5 DEF Alone
  <1>3. CASE ClearMarker(p) \/ Serve(p)
    <2>1. UNCHANGED <<cmd, pidFile>>
      BY <1>3 DEF ClearMarker, Serve
    <2>2. /\ phase[p] \in {"written", "cleared"} /\ phase'[p] \in {"cleared", "running"}
          /\ \A q \in Pids \ {p} : phase'[q] = phase[q]
      BY <1>3 DEF ClearMarker, Serve
    <2>3. OneCommand' /\ OneBoot' /\ CheckedAlone' /\ Named'
      BY <2>1, <2>2 DEF Alone, OneCommand, OneBoot, CheckedAlone, Named
    <2>4. CommandAlone'
      BY <2>1, <2>2 DEF Alone, CommandAlone
    <2>5. Marked'
      BY <1>3, <2>2 DEF ClearMarker, Serve, Alone, Marked
    <2>6. QED
      BY <2>3, <2>4, <2>5 DEF Alone
  <1>4. CASE SeeMarker(p) \/ LoopsEnd(p) \/ Fault(p)
    <2>1. UNCHANGED <<cmd, pidFile, marker, aimed>>
      BY <1>4 DEF SeeMarker, LoopsEnd, Fault, BootFails, GiveUp, Crash
    <2>2. Recede
      BY <1>4 DEF SeeMarker, LoopsEnd, Fault, BootFails, GiveUp, Crash, Recede
    <2>3. Marked'
      BY <2>1, <2>2 DEF Alone, Marked, Recede
    <2>4. QED
      BY <2>1, <2>2, <2>3, StillAlone
  <1>5. CASE RemovePid(p)
    <2>1. /\ UNCHANGED <<cmd, marker, aimed>>
          /\ phase[p] = "draining"
          /\ \A q \in Pids : phase'[q] = IF q = p THEN "cleaning" ELSE phase[q]
      BY <1>5 DEF RemovePid
    <2>2. Recede
      BY <2>1 DEF Recede
    <2>3. Marked'
      BY <2>1, <2>2 DEF Alone, Marked, Recede
    <2>4. Named'
      BY <2>1 DEF Alone, Named
    <2>5. QED
      BY <2>1, <2>2, <2>3, <2>4, StillAlone
  <1>6. CASE Exit(p)
    <2>1. UNCHANGED <<cmd, pidFile>> /\ marker' = FALSE
      BY <1>6 DEF Exit
    <2>2. Recede
      BY <1>6 DEF Exit, Recede
    <2>3. Marked'
      BY <2>1 DEF Marked
    <2>4. QED
      BY <2>1, <2>2, <2>3, StillAlone
  <1>7. QED
    BY <1>1, <1>2, <1>3, <1>4, <1>5, <1>6 DEF Daemon

\* A spawn, by a command that awaits its child or by the service manager while no
\* command is at work.
LEMMA SpawnAlone ==
    ASSUME IInv, Alone, NEW p \in Pids, phase[p] = "none",
           phase' = [phase EXCEPT ![p] = "booting"],
           \A q \in Pids : phase[q] \notin Booting,
           UNCHANGED <<files, aimed>>,
           \/ UNCHANGED cmd /\ Active = {}
           \/ \E c \in Slots : /\ cmd[c].pc = "spawn" /\ Active \subseteq {c}
                               /\ cmd' = [cmd EXCEPT ![c].pc = "await", ![c].child = p]
    PROVE  Alone'
  <1> USE DEF Booting, Serving
  <1>1. \A q \in Pids : phase'[q] = IF q = p THEN "booting" ELSE phase[q]
    BY DEF IInv, LifecycleTypeOK
  <1>2. OneBoot' /\ CheckedAlone' /\ Named' /\ Marked'
    BY <1>1 DEF Alone, OneBoot, CheckedAlone, Named, Marked, files
  <1>3. OneCommand' /\ CommandAlone'
    <2>1. CASE UNCHANGED cmd /\ Active = {}
      BY <1>1, <2>1 DEF Active, OneCommand, CommandAlone, StopPcs
    <2>2. CASE \E c \in Slots :
                  /\ cmd[c].pc = "spawn" /\ Active \subseteq {c}
                  /\ cmd' = [cmd EXCEPT ![c].pc = "await", ![c].child = p]
      <3>1. PICK c \in Slots :
                  /\ cmd[c].pc = "spawn" /\ Active \subseteq {c}
                  /\ cmd' = [cmd EXCEPT ![c].pc = "await", ![c].child = p]
        BY <2>2
      <3>2. \A d \in Slots : /\ cmd'[d].pc = IF d = c THEN "await" ELSE cmd[d].pc
                             /\ d # c => cmd[d].pc = "idle"
        BY <3>1 DEF IInv, LifecycleTypeOK, Active
      <3>3. cmd'[c].child = p
        BY <3>1 DEF IInv, LifecycleTypeOK
      <3>4. \A q \in Pids : phase[q] \notin Serving
        BY <3>1 DEF Alone, CommandAlone
      <3>5. QED
        BY <1>1, <3>2, <3>3, <3>4 DEF OneCommand, CommandAlone, StopPcs
    <2>3. QED
      BY <2>1, <2>2
  <1>4. QED
    BY <1>2, <1>3 DEF Alone

\* A command that ends.
LEMMA EndAlone ==
    ASSUME IInv, Alone, NEW c \in Slots, End(c), Recede, pidFile' = pidFile \/ NoServing,
           UNCHANGED <<marker, aimed>>
    PROVE  Alone'
  <1>1. Idle \in Cmds /\ Idle.pc = "idle" /\ cmd' = [cmd EXCEPT ![c] = Idle]
    BY IdleCmd DEF Idle, End
  <1>2. Marked'
    BY DEF Alone, Marked, Recede
  <1>3. QED
    BY <1>1, <1>2, CommandAloneKeeps DEF StopPcs

\* A command that goes on, and spawns nothing.
LEMMA MoveAlone ==
    ASSUME IInv, Alone, NEW c \in Slots, NEW from, NEW to \in CmdPcs, Step(c, from, to),
           from \notin {"idle", "await"}, to # "await", Recede,
           to \in StopPcs \ {"stop"} => from \in StopPcs \ {"stop"},
           to = "spawn" => NoServing, pidFile' = pidFile \/ NoServing, Marked'
    PROVE  Alone'
  <1> DEFINE r == [cmd[c] EXCEPT !.pc = to]
  <1>1. r \in Cmds /\ cmd' = [cmd EXCEPT ![c] = r] /\ cmd[c].pc = from
    BY MovedCmd
  <1>2. r.pc = to /\ r.pid = cmd[c].pid
    BY DEF IInv, LifecycleTypeOK
  <1>3. \A d \in Slots \ {c} : cmd[d].pc = "idle"
    BY <1>1 DEF Alone, OneCommand
  <1>4. \A p \in Pids : phase[p] \notin Booting
    BY <1>1 DEF Alone, CommandAlone
  <1>5. r.pc \in StopPcs \ {"stop"} => \A p \in Pids : phase[p] \in Serving => p = r.pid
    BY <1>1, <1>2 DEF Alone, CommandAlone
  <1> HIDE DEF r
  <1>6. QED
    BY <1>1, <1>2, <1>3, <1>4, <1>5, CommandAloneKeeps

\* What signals do to the daemons.
LEMMA TermRecedes ==
    ASSUME IInv, NEW p \in Pids, Terminated(p)
    PROVE  Recede
  BY DEF IInv, LifecycleTypeOK, Recede, Terminated, DaemonPhases, Booting, Serving

LEMMA KillRecedes ==
    ASSUME IInv, NEW p \in Pids, phase' = [phase EXCEPT ![p] = "gone"]
    PROVE  Recede
  BY DEF IInv, LifecycleTypeOK, Recede, Booting, Serving

LEMMA StillRecedes ==
    ASSUME UNCHANGED phase
    PROVE  Recede
  BY DEF Recede

\* status() finds nobody only when nobody serves.
LEMMA NotRunning ==
    ASSUME Alone, ~Running
    PROVE  NoServing
  BY DEF Alone, Named, Running, Alive, NoServing, Pids, NoPid, DaemonPhases

\* At the end of a stop the process it chose is dead, and there was no other.
LEMMA StopLeavesNobody ==
    ASSUME IInv, Alone, NEW c \in Slots, cmd[c].pc \in {"unmark", "unpid"}
    PROVE  NoServing
  BY DEF IInv, StoppedIsDead, Alone, CommandAlone, NoServing, Serving, StopPcs

LEMMA BeginAlone ==
    ASSUME IInv, Alone, NEW c \in Slots, Begin(c), ~raced'
    PROVE  Alone'
  <1>1. PICK op \in {"start", "stop", "restart"} :
           cmd' = [cmd EXCEPT ![c] = [Idle EXCEPT !.op = op, !.pc = "look"]]
    BY DEF Begin
  <1> DEFINE r == [Idle EXCEPT !.op = op, !.pc = "look"]
  <1>2. r \in Cmds /\ r.pc = "look"
    BY IdleCmd DEF Cmds, CmdPcs, Idle
  <1>3. Active = {} /\ \A p \in Pids : phase[p] \notin Booting
    BY DEF Begin, Overlap
  <1>4. \A d \in Slots \ {c} : cmd[d].pc = "idle"
    BY <1>3 DEF Active
  <1>5. Recede /\ pidFile' = pidFile /\ Marked'
    BY DEF Begin, files, Recede, Alone, Marked
  <1> HIDE DEF r
  <1>6. QED
    BY <1>1, <1>2, <1>3, <1>4, <1>5, CommandAloneKeeps DEF StopPcs, r

LEMMA SpawnByCommand ==
    ASSUME IInv, Alone, NEW c \in Slots, Spawn(c), ~raced'
    PROVE  Alone'
  <1>1. NextPid \in Pids /\ phase[NextPid] = "none"
    BY FreshPid DEF Spawn
  <1>2. Active \subseteq {c} /\ \A p \in Pids : phase[p] \notin Booting
    BY DEF Spawn, Overlap
  <1>3. /\ cmd[c].pc = "spawn"
        /\ cmd' = [cmd EXCEPT ![c].pc = "await", ![c].child = NextPid]
        /\ phase' = [phase EXCEPT ![NextPid] = "booting"]
        /\ UNCHANGED <<files, aimed>>
    BY DEF Spawn
  <1>4. QED
    BY <1>1, <1>2, <1>3, SpawnAlone

LEMMA SpawnByService ==
    ASSUME IInv, Alone, ServiceSpawn, ~raced'
    PROVE  Alone'
  <1>1. NextPid \in Pids /\ phase[NextPid] = "none"
    BY ServicePid
  <1>2. Active = {} /\ \A p \in Pids : phase[p] \notin Booting
    BY DEF ServiceSpawn, Overlap
  <1>3. phase' = [phase EXCEPT ![NextPid] = "booting"] /\ UNCHANGED <<files, aimed, cmd>>
    BY DEF ServiceSpawn
  <1>4. QED
    BY <1>1, <1>2, <1>3, SpawnAlone

LEMMA CommandsAlone ==
    ASSUME IInv, Alone, NEW c \in Slots, Command(c), ~raced'
    PROVE  Alone'
  <1> USE DEF files, service, history
  <1>1. CASE Look(c)
    <2>1. Recede /\ Marked'
      BY <1>1 DEF Look, Recede, Alone, Marked
    <2>2. CASE End(c)
      BY <1>1, <2>1, <2>2, EndAlone DEF Look
    <2>3. CASE ~Running /\ Step(c, "look", "spawn")
      BY <1>1, <2>1, <2>3, NotRunning, MoveAlone DEF Look, CmdPcs, StopPcs
    <2>4. CASE Step(c, "look", "stop")
      BY <1>1, <2>1, <2>4, MoveAlone DEF Look, CmdPcs, StopPcs
    <2>5. QED
      BY <1>1, <2>2, <2>3, <2>4 DEF Look
  <1>2. CASE Spawn(c)
    BY <1>2, SpawnByCommand
  <1>3. CASE Await(c)
    BY <1>3, StillRecedes, EndAlone DEF Await
  <1>4. CASE StopLook(c)
    <2>1. Recede /\ Marked'
      BY <1>4 DEF StopLook, Recede, Alone, Marked
    <2>2. CASE ~Running /\ End(c)
      BY <1>4, <2>1, <2>2, EndAlone DEF StopLook
    <2>3. CASE ~Running /\ Step(c, "stop", "spawn")
      BY <1>4, <2>1, <2>3, NotRunning, MoveAlone DEF StopLook, CmdPcs, StopPcs
    <2>4. CASE Running /\ cmd' = [cmd EXCEPT ![c].pc = "hook", ![c].pid = pidFile]
      <3> DEFINE r == [cmd[c] EXCEPT !.pc = "hook", !.pid = pidFile]
      <3>1. r \in Cmds /\ r.pc = "hook" /\ r.pid = pidFile /\ cmd' = [cmd EXCEPT ![c] = r]
        BY <2>4 DEF IInv, LifecycleTypeOK, Cmds, CmdPcs, StopPcs
      <3>2. cmd[c].pc = "stop" /\ pidFile' = pidFile
        BY <1>4 DEF StopLook
      <3>3. \A d \in Slots \ {c} : cmd[d].pc = "idle"
        BY <3>2 DEF Alone, OneCommand
      <3>4. \A p \in Pids : phase[p] \notin Booting
        BY <3>2 DEF Alone, CommandAlone
      <3>5. \A p \in Pids : phase[p] \in Serving => p = r.pid
        BY <3>1 DEF Alone, Named
      <3> HIDE DEF r
      <3>6. QED
        BY <2>1, <3>1, <3>2, <3>3, <3>4, <3>5, CommandAloneKeeps
    <2>5. QED
      BY <1>4, <2>2, <2>3, <2>4 DEF StopLook
  <1>5. CASE StopHook(c)
    <2>1. Recede
      <3>1. CASE Alive(unit)
        BY <1>5, <3>1, TermRecedes DEF StopHook, Alive, Pids, NoPid, IInv, LifecycleTypeOK
      <3>2. CASE ~Alive(unit)
        BY <1>5, <3>2, StillRecedes DEF StopHook
      <3>3. QED
        BY <3>1, <3>2
    <2>2. Marked'
      BY <1>5, <2>1 DEF StopHook, Alone, Marked, Recede
    <2>3. QED
      BY <1>5, <2>1, <2>2, MoveAlone DEF StopHook, CmdPcs, StopPcs
  <1>6. CASE StopHooked(c)
    <2>1. Recede
      <3>1. CASE Alive(unit)
        BY <1>6, <3>1, KillRecedes DEF StopHooked, Alive, Pids, NoPid, IInv, LifecycleTypeOK
      <3>2. CASE ~Alive(unit)
        BY <1>6, <3>2, StillRecedes DEF StopHooked
      <3>3. QED
        BY <3>1, <3>2
    <2>2. Marked'
      BY <1>6, <2>1 DEF StopHooked, Alone, Marked, Recede
    <2>3. QED
      BY <1>6, <2>1, <2>2, MoveAlone DEF StopHooked, CmdPcs, StopPcs
  <1>7. CASE DropMarker(c)
    <2>1. Step(c, "mark", "wait") /\ UNCHANGED <<phase, pidFile>>
      BY <1>7 DEF DropMarker
    <2>2. \A p \in Pids : phase[p] \in Serving => p = cmd[c].pid
      BY <2>1 DEF Alone, CommandAlone, Step, StopPcs
    <2>3. Marked'
      BY <1>7, <2>1, <2>2 DEF DropMarker, Alone, Marked, Serving
    <2>4. QED
      BY <2>1, <2>3, StillRecedes, MoveAlone DEF CmdPcs, StopPcs
  <1>8. CASE Wait(c) \/ Grace(c)
    <2>1. Recede /\ Marked' /\ pidFile' = pidFile
      BY <1>8 DEF Wait, Grace, Recede, Alone, Marked
    <2>2. PICK from \in {"wait", "grace"}, to \in {"term", "kill", "unmark"} : Step(c, from, to)
      BY <1>8 DEF Wait, Grace
    <2>3. QED
      BY <2>1, <2>2, MoveAlone DEF CmdPcs, StopPcs
  <1>9. CASE Term(c) \/ Kill(c)
    <2>1. PICK from \in {"term", "kill"}, to \in {"grace", "unmark"} : Step(c, from, to)
      BY <1>9 DEF Term, Kill
    <2>2. cmd[c].pid \in Pids
      BY <2>1, ChosenPid DEF Step, StopPcs
    <2>3. Recede
      <3>1. CASE UNCHANGED phase
        BY <3>1, StillRecedes
      <3>2. CASE Terminated(cmd[c].pid)
        BY <2>2, <3>2, TermRecedes
      <3>3. CASE phase' = [phase EXCEPT ![cmd[c].pid] = "gone"]
        BY <2>2, <3>3, KillRecedes
      <3>4. QED
        BY <1>9, <3>1, <3>2, <3>3 DEF Term, Kill
    <2>4. UNCHANGED <<pidFile, marker, aimed>>
      BY <1>9 DEF Term, Kill
    <2>5. Marked'
      BY <2>3, <2>4 DEF Alone, Marked, Recede
    <2>6. QED
      BY <2>1, <2>3, <2>4, <2>5, MoveAlone DEF CmdPcs, StopPcs
  <1>10. CASE Unmark(c)
    <2>1. Recede /\ Marked' /\ pidFile' = pidFile /\ Step(c, "unmark", "unpid")
      BY <1>10 DEF Unmark, Recede, Marked
    <2>2. QED
      BY <2>1, MoveAlone DEF CmdPcs, StopPcs
  <1>11. CASE Unpid(c)
    <2>1. Recede /\ Marked'
      BY <1>11 DEF Unpid, Recede, Alone, Marked
    <2>2. NoServing
      BY <1>11, StopLeavesNobody DEF Unpid
    <2>3. CASE End(c)
      BY <1>11, <2>1, <2>2, <2>3, EndAlone DEF Unpid
    <2>4. CASE Step(c, "unpid", "spawn")
      BY <2>1, <2>2, <2>4, MoveAlone DEF CmdPcs, StopPcs
    <2>5. QED
      BY <1>11, <2>3, <2>4 DEF Unpid
  <1>12. QED
    BY <1>1, <1>2, <1>3, <1>4, <1>5, <1>6, <1>7, <1>8, <1>9, <1>10, <1>11 DEF Command

-----------------------------------------------------------------------------
(* What the pid file names.                                                *)

\* Who serves goes on serving, ends without its _cleanup, or takes the pid file
\* along.
LEMMA PidKeeps ==
    ASSUME IInv, PidInv, pidFile' \in {pidFile, NoPid}, unclean \subseteq unclean',
           \A p \in Pids : phase[p] \in Serving =>
              phase'[p] \in Serving \/ p \in unclean' \/ pidFile' # p
    PROVE  PidInv'
  BY DEF IInv, LifecycleTypeOK, PidInv

LEMMA DaemonPid ==
    ASSUME IInv, PidInv, NEW p \in Pids, Daemon(p) \/ Fault(p)
    PROVE  PidInv'
  <1> USE DEF IInv, LifecycleTypeOK, Goes, Booting, Serving, files, history
  <1>1. CASE WritePid(p)
    BY <1>1 DEF WritePid, PidInv
  <1>2. CASE RemovePid(p)
    BY <1>2 DEF RemovePid, PidInv
  <1>3. CASE Crash(p) \/ GiveUp(p)
    <2>1. /\ phase' = [phase EXCEPT ![p] = "gone"] /\ unclean' = unclean \cup {p}
          /\ pidFile' = pidFile
      BY <1>3 DEF Crash, GiveUp
    <2>2. QED
      BY <2>1, PidKeeps
  <1>4. CASE Check(p) \/ ClearMarker(p) \/ Serve(p) \/ SeeMarker(p) \/ LoopsEnd(p)
             \/ Exit(p) \/ BootFails(p)
    <2>1. UNCHANGED <<pidFile, unclean>>
      BY <1>4 DEF Check, ClearMarker, Serve, SeeMarker, LoopsEnd, Exit, BootFails
    <2>2. \A q \in Pids : phase[q] \in Serving => phase'[q] \in Serving
      BY <1>4 DEF Check, ClearMarker, Serve, SeeMarker, LoopsEnd, Exit, BootFails
    <2>3. QED
      BY <2>1, <2>2, PidKeeps
  <1>5. QED
    BY <1>1, <1>2, <1>3, <1>4 DEF Daemon, Fault

LEMMA KillPid ==
    ASSUME IInv, PidInv, NEW p \in Pids, UNCHANGED pidFile,
           \/ Terminated(p)
           \/ phase' = [phase EXCEPT ![p] = "gone"] /\ unclean' = unclean \cup {p}
    PROVE  PidInv'
  <1>1. unclean \subseteq unclean' /\ \A q \in Pids \ {p} : phase'[q] = phase[q]
    BY DEF IInv, LifecycleTypeOK, Terminated
  <1>2. phase[p] \in Serving => phase'[p] \in Serving \/ p \in unclean'
    BY DEF IInv, LifecycleTypeOK, Terminated, Serving, Booting
  <1>3. QED
    BY <1>1, <1>2, PidKeeps

LEMMA StillPid ==
    ASSUME IInv, PidInv, UNCHANGED <<phase, unclean>>, pidFile' \in {pidFile, NoPid}
    PROVE  PidInv'
  BY PidKeeps

LEMMA SpawnPid ==
    ASSUME IInv, PidInv, NEW p \in Pids, phase[p] = "none",
           phase' = [phase EXCEPT ![p] = "booting"], UNCHANGED <<pidFile, unclean>>
    PROVE  PidInv'
  BY DEF IInv, LifecycleTypeOK, PidInv, Serving

LEMMA CommandPid ==
    ASSUME IInv, PidInv, NEW c \in Slots, Begin(c) \/ Command(c) \/ Interrupt(c)
    PROVE  PidInv'
  <1> USE DEF files, service, history
  <1>1. CASE \/ Begin(c) \/ Look(c) \/ Await(c) \/ StopLook(c) \/ DropMarker(c) \/ Wait(c)
             \/ Grace(c) \/ Unmark(c) \/ Unpid(c) \/ Interrupt(c)
    <2>1. UNCHANGED <<phase, unclean>> /\ pidFile' \in {pidFile, NoPid}
      BY <1>1 DEF Begin, Look, Await, StopLook, DropMarker, Wait, Grace, Unmark, Unpid,
                  Interrupt
    <2>2. QED
      BY <2>1, StillPid
  <1>2. CASE Spawn(c)
    BY <1>2, FreshPid, SpawnPid DEF Spawn
  <1>3. CASE StopHook(c) \/ StopHooked(c)
    <2>1. Alive(unit) => unit \in Pids
      BY DEF IInv, LifecycleTypeOK, Alive
    <2>2. CASE Alive(unit)
      BY <1>3, <2>1, <2>2, KillPid DEF StopHook, StopHooked
    <2>3. CASE ~Alive(unit)
      BY <1>3, <2>3, StillPid DEF StopHook, StopHooked
    <2>4. QED
      BY <2>2, <2>3
  <1>4. CASE Term(c) \/ Kill(c)
    <2>1. cmd[c].pid \in Pids
      BY <1>4, ChosenPid DEF Term, Kill, Step, StopPcs
    <2>2. CASE Alive(cmd[c].pid)
      BY <1>4, <2>1, <2>2, KillPid DEF Term, Kill
    <2>3. CASE ~Alive(cmd[c].pid)
      BY <1>4, <2>3, StillPid DEF Term, Kill
    <2>4. QED
      BY <2>2, <2>3
  <1>5. QED
    BY <1>1, <1>2, <1>3, <1>4 DEF Command

LEMMA StepPidInv == IInv /\ PidInv /\ [Next]_vars => PidInv'
  <1> SUFFICES ASSUME IInv, PidInv, [Next]_vars
               PROVE  PidInv'
    OBVIOUS
  <1>1. CASE ServiceSpawn
    BY <1>1, ServicePid, SpawnPid DEF ServiceSpawn, files
  <1>2. CASE UNCHANGED vars
    BY <1>2 DEF vars, files, history, PidInv
  <1>3. QED
    BY <1>1, <1>2, DaemonPid, CommandPid DEF Next

\* What is started beside something else is remembered for ever.
LEMMA RacedStays == IInv /\ [Next]_vars /\ ~raced' => ~raced
  <1> SUFFICES ASSUME IInv, [Next]_vars, raced
               PROVE  raced'
    BY DEF IInv, LifecycleTypeOK
  <1> USE DEF files, service, history
  <1>1. ASSUME NEW p \in Pids, Daemon(p) \/ Fault(p)
        PROVE  raced'
    BY <1>1 DEF Daemon, Check, WritePid, ClearMarker, Serve, SeeMarker, LoopsEnd, RemovePid,
                Exit, Fault, BootFails, GiveUp, Crash
  <1>2. ASSUME NEW c \in Slots, Begin(c) \/ Command(c) \/ Interrupt(c)
        PROVE  raced'
    BY <1>2 DEF Begin, Command, Look, Spawn, Await, StopLook, StopHook, StopHooked,
                DropMarker, Wait, Term, Grace, Kill, Unmark, Unpid, Interrupt
  <1>3. QED
    BY <1>1, <1>2 DEF Next, ServiceSpawn, vars

LEMMA StepAlone == IInv /\ AloneInv /\ [Next]_vars => AloneInv'
  <1> SUFFICES ASSUME IInv, Alone, [Next]_vars, ~raced'
               PROVE  Alone'
    BY RacedStays DEF AloneInv
  <1>1. CASE \E p \in Pids : Daemon(p) \/ Fault(p)
    BY <1>1, DaemonAlone
  <1>2. CASE ServiceSpawn
    BY <1>2, SpawnByService
  <1>3. ASSUME NEW c \in Slots, Begin(c) \/ Command(c) \/ Interrupt(c)
        PROVE  Alone'
    <2>1. CASE Interrupt(c)
      BY <2>1, StillRecedes, EndAlone DEF Interrupt, files, history
    <2>2. QED
      BY <1>3, <2>1, BeginAlone, CommandsAlone
  <1>4. CASE UNCHANGED vars
    BY <1>4 DEF vars, files, service, history, Alone, OneCommand, OneBoot, CheckedAlone, Named,
                CommandAlone, Marked
  <1>5. QED
    BY <1>1, <1>2, <1>3, <1>4 DEF Next

LEMMA InitAlone == Init => AloneInv /\ PidInv
  <1> SUFFICES ASSUME Init
               PROVE  Alone /\ PidInv
    BY DEF AloneInv
  <1>1. \A c \in Slots : cmd[c].pc = "idle"
    BY DEF Init, Idle
  <1>2. \A p \in Pids : phase[p] = "none"
    BY DEF Init
  <1>3. QED
    BY <1>1, <1>2 DEF Init, Alone, OneCommand, OneBoot, CheckedAlone, Named, CommandAlone, Marked,
                      PidInv, Booting, Serving, StopPcs

LEMMA AlwaysAlone == Spec => [](IInv /\ AloneInv /\ PidInv)
  <1>1. Init => AloneInv /\ PidInv
    BY InitAlone
  <1>2. IInv /\ AloneInv /\ PidInv /\ [Next]_vars => AloneInv' /\ PidInv'
    BY StepAlone, StepPidInv
  <1>3. QED
    BY <1>1, <1>2, InitIInv, StepIInv, PTL DEF Spec

\* Whatever crashes, is killed or interrupted: as long as no command of `ponte`
\* overlaps another or a boot, the pid file of TunnelDaemon.start names every
\* daemon that runs, hence the only one.
THEOREM DaemonAlwaysNamed == Spec => []DaemonNamed
  <1>1. AloneInv => DaemonNamed
    BY DEF AloneInv, Alone, Named, DaemonNamed
  <1>2. QED
    BY <1>1, AlwaysAlone, PTL

\* A stop marker that an interrupted stop() left behind is cleared by the next
\* daemon before it looks for one: who sees a marker was meant by it.
THEOREM MarkerAimed == Spec => MarkerHitsTarget
  <1>1. IInv /\ AloneInv /\ PidInv /\ [Next]_vars =>
           [\A p \in Pids :
               ~raced /\ marker /\ phase[p] = "running" /\ SeeMarker(p) => p \in aimed]_vars
    BY DEF AloneInv, Alone, Marked
  <1>2. QED
    BY <1>1, AlwaysAlone, PTL DEF Spec, MarkerHitsTarget

\* The pid that start() reads after its spawn is that of the daemon it spawned,
\* or was left by one that ended without its _cleanup: every other removes the
\* file, and only the child can have written it since.
THEOREM StartAnswersRight == Spec => StartAnswers
  <1>1. IInv /\ AloneInv /\ PidInv /\ [Next]_vars =>
           [\A c \in Slots : Await(c) /\ ~raced /\ pidFile # NoPid =>
               pidFile = cmd[c].child \/ pidFile \in unclean]_vars
    BY DEF AloneInv, Alone, CommandAlone, PidInv, Await, IInv, LifecycleTypeOK
  <1>2. QED
    BY <1>1, AlwaysAlone, PTL DEF Spec, StartAnswers

=============================================================================
