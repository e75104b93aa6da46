------------------------------ MODULE Accounting ------------------------------
(***************************************************************************)
(* What the consumer of the retry generator does with each event:          *)
(* TunnelDaemon._record_retry_event folds it into the profile's section of *)
(* the status file (_StatusStore), ProfileRunner._note_disconnect counts   *)
(* failures and alerts once per outage through Notifier.notify.  The       *)
(* daemon may die at any moment, also while it writes the file, and a new  *)
(* one starts from what the file says (_StatusStore.begin).                *)
(*                                                                         *)
(* The store's lock makes an edit atomic for the daemon's own threads.  It *)
(* is not atomic for a death or a full disk: open(path, "w") empties the   *)
(* whole file first, every profile's section and every health thread's.    *)
(* A wall-clock gap and a short session last one unit, a stable session    *)
(* two; the cooldown is running or it is not.                              *)
(***************************************************************************)
EXTENDS ProfileSession

CONSTANTS
    Threshold,      \* [notify] on_consecutive_failures
    Enabled,        \* notifier.enabled: switched on, and a channel configured
    AttemptBound    \* bound: no attempt once a counter of the file is there

ASSUME AccountingAssumption ==
    /\ Threshold \in Nat \ {0} /\ AttemptBound \in Nat
    /\ Enabled \in BOOLEAN

VARIABLES
    file,       \* the profile's section of the status file
    gap,        \* _pending_disconnect_at is not None
    failures,   \* ProfileRunner._failures
    alerted,    \* ProfileRunner._alerted
    cooling,    \* the profile's last delivery is younger than the cooldown
    up,         \* the daemon process is alive
    failedRow,  \* history: connection attempts without a stable session, in a row
    misread,    \* history: those of them that raised and were taken for a recovery
    alerts,     \* history: notify() calls since the last stable session
    intact      \* history: the file held what was to be written, every time

memory   == <<gap, failures, alerted, cooling>>
recorded == <<failedRow, misread, alerts>>
accounts == <<file, memory, up, recorded, intact>>
allVars  == <<vars, accounts>>

Sections == [connects : Nat, sessions : Nat, reconnects : Nat, uptime : Nat,
             downtime : Nat, current : BOOLEAN, error : BOOLEAN]

\* A missing or unreadable section: every counter is read as its default.
Blank == [connects |-> 0, sessions |-> 0, reconnects |-> 0, uptime |-> 0,
          downtime |-> 0, current |-> FALSE, error |-> FALSE]

AccountingTypeOK ==
    /\ TypeOK
    /\ file \in Sections
    /\ gap \in BOOLEAN /\ alerted \in BOOLEAN /\ cooling \in BOOLEAN /\ up \in BOOLEAN
    /\ failures \in Nat /\ failedRow \in Nat /\ alerts \in Nat /\ intact \in BOOLEAN
    /\ misread \in Nat

AccountingInit ==
    /\ Init
    /\ file = Blank
    /\ gap = FALSE /\ failures = 0 /\ alerted = FALSE /\ cooling = FALSE
    /\ up = TRUE
    /\ failedRow = 0 /\ misread = 0 /\ alerts = 0 /\ intact = TRUE

-----------------------------------------------------------------------------
(* One event, handled.                                                     *)

\* _StatusStore._write over the section old: written; or open() failed and the
\* old one stays; or the dump failed after open() had emptied the file.  A
\* failure is logged and nothing else.
Write(old, new) == {new, old, Blank}

Save(new) ==
    /\ file' \in Write(file, new)
    /\ intact' = (intact /\ file' = new)

Duration == CASE lastDur = "none" -> 0 [] lastDur = "short" -> 1 [] lastDur = "stable" -> 2

DisconnectExited == event = "disconnected"      \* Mutant
Disconnect == event \in {"disconnected", "launch_failed"}

\* Mutant: a session is counted when it is attempted.
SessionsAtConnecting ==
    IF event \in {"connecting", "connected"} THEN file.sessions + 1 ELSE file.sessions
SessionsAfter == IF event = "connected" THEN file.sessions + 1 ELSE file.sessions

\* _record_retry_event: the section as it is written back.
Recorded ==
    [file EXCEPT
        !.connects   = IF event = "connecting" THEN @ + 1 ELSE @,
        !.sessions   = SessionsAfter,
        !.reconnects = IF event = "retrying" THEN @ + 1 ELSE @,
        !.uptime     = IF Disconnect THEN @ + Duration ELSE @,
        !.downtime   = IF event = "connecting" /\ gap THEN @ + 1 ELSE @,
        !.current    = event = "connecting" \/ (@ /\ ~Disconnect)]

\* _pending_disconnect_at opens with a disconnect and closes with an attempt.
Gap == gap' = IF Disconnect THEN TRUE ELSE IF event = "connecting" THEN FALSE ELSE gap

\* Mutants: a failed delivery is tried again; the alert comes one failure early,
\* or one late.
QuietUntilDelivered == (alerted /\ cooling) \/ failures + 1 < Threshold \/ ~Enabled
QuietAbove == alerted \/ failures < Threshold \/ ~Enabled
QuietBelow == alerted \/ failures + 2 < Threshold \/ ~Enabled
Quiet == alerted \/ failures + 1 < Threshold \/ ~Enabled

\* _note_disconnect looks at the last session's duration only.
Recovered == lastDur = "stable"
Alerts == ~Recovered /\ ~Quiet

\* Notifier.notify sends nothing while the cooldown runs, and starts it when a
\* channel accepted the message; the time of a delivery takes a second write.
NoteDisconnect ==
    /\ failures' = IF Recovered THEN 0 ELSE failures + 1
    /\ alerted' = (~Recovered /\ (alerted \/ ~Quiet))
    /\ \E delivered \in IF Alerts /\ ~cooling THEN BOOLEAN ELSE {FALSE} :
          /\ cooling' = (cooling \/ delivered)
          /\ \E s \in Write(file, Recorded) :
                file' \in IF delivered THEN Write(s, s) ELSE {s}
    /\ intact' = (intact /\ file' = Recorded)

\* What a look at the attempts themselves would count.
StableEnd == event = "disconnected" /\ lastDur = "stable"
CountAttempt ==
    /\ failedRow' = IF StableEnd THEN 0 ELSE failedRow + 1
    /\ misread' = IF StableEnd THEN 0 ELSE IF Recovered THEN misread + 1 ELSE misread
    /\ alerts' = IF StableEnd THEN 0 ELSE IF Alerts THEN alerts + 1 ELSE alerts

\* One pass through the body of the for loop of _run.
Handle ==
    /\ up
    /\ LoopConsume
    /\ Gap
    /\ IF Disconnect
       THEN NoteDisconnect /\ CountAttempt
       ELSE Save(Recorded) /\ UNCHANGED <<failures, alerted, cooling, recorded>>
    /\ UNCHANGED up

\* _record_profile_error, once the generator raised.
HandleCrash ==
    /\ up
    /\ LoopOverflow
    /\ Save([file EXCEPT !.error = TRUE])
    /\ UNCHANGED <<memory, up, recorded>>

\* Bound: while the writes succeed, no more than connects < AttemptBound.
Room ==
    /\ \A k \in {"connects", "sessions", "reconnects", "downtime"} : file[k] < AttemptBound
    /\ file.uptime < 2 * AttemptBound

\* The session's other steps leave the accounts alone.
Elsewhere ==
    /\ up
    /\ \/ LoopBegin \/ LoopSpawn \/ LoopSpawnFails \/ LoopPublish \/ LoopReap
       \/ LoopUnpublish \/ LoopDisconnected \/ LoopStopped \/ LoopGiveUp
       \/ LoopRetry \/ LoopWake \/ LoopEnd \/ SshExit
       \/ LoopTop /\ Room
       \/ \E c \in Callers : Call(c) \/ Called(c)
    /\ UNCHANGED accounts

\* The write of a health thread or of another profile fails.
OtherWriteFails ==
    /\ up
    /\ file' = Blank /\ intact' = FALSE
    /\ UNCHANGED <<vars, memory, up, recorded>>

CooldownOver ==
    /\ cooling
    /\ cooling' = FALSE
    /\ UNCHANGED <<vars, file, gap, failures, alerted, up, recorded, intact>>

-----------------------------------------------------------------------------
(* The daemon process.                                                     *)

\* The loop has ended and the process with it; the file stays.
Exit ==
    /\ up /\ pc = "done"
    /\ up' = FALSE
    /\ UNCHANGED <<vars, file, memory, recorded, intact>>

\* Killed, crashed or rebooted.  A write in progress, this loop's or any other
\* thread's, leaves the old section, the new one, or an empty file.
Die ==
    /\ up
    /\ up' = FALSE
    /\ file' \in {file, Blank} \cup (IF pc = "consume" THEN {Recorded} ELSE {})
    /\ UNCHANGED <<vars, memory, recorded, intact>>

BegunAnew == Blank      \* Mutant: begin() overwrites instead of merging
Begun == file

\* A new process: begin() adds missing counters and keeps what is there.  An
\* ssh child the dead daemon left behind is not the new one's to see.
Restart ==
    /\ ~up
    /\ up' = TRUE
    /\ Save(Begun)
    /\ gap' = FALSE /\ failures' = 0 /\ alerted' = FALSE /\ cooling' = FALSE
    /\ failedRow' = 0 /\ misread' = 0 /\ alerts' = 0
    /\ pc' = "new" /\ event' = "none" /\ used' = 0 /\ error' = FALSE
    /\ stop' = FALSE /\ shutdown' = FALSE /\ healthStop' = FALSE
    /\ ssh' = "none" /\ handle' = FALSE /\ lastDur' = "none"
    /\ cpc' = [c \in Callers |-> "idle"] /\ waitsOn' = [c \in Callers |-> "none"]
    /\ attempts' = 0 /\ late' = 0

AccountingNext ==
    \/ Handle \/ HandleCrash \/ Elsewhere \/ OtherWriteFails \/ CooldownOver \/ Exit \/ Die \/ Restart

AccountingSpec == AccountingInit /\ [][AccountingNext]_allVars

-----------------------------------------------------------------------------
(* Properties.                                                             *)

\* ProfileStatus: a session is counted only after its attempt, a reconnect only
\* after an attempt that failed, and a gap only when an attempt closes it, over
\* every death and restart, as long as no write failed.
CountersAgree ==
    intact =>
        /\ file.sessions <= file.connects
        /\ file.reconnects <= file.connects
        /\ file.downtime <= file.connects

\* current_session_at: from the handling of CONNECTING to that of DISCONNECTED,
\* a failed launch included, and at no other time of a loop that has begun.
AttemptShown ==
    intact /\ up /\ event # "none" /\ pc # "consume" =>
        (file.current <=> event \in {"connecting", "connected"})

\* "Cumulative; survives daemon restarts via the status file": no counter ever
\* falls, unless the daemon dies, perhaps while it writes the file, or a write
\* fails.
CountersKeep ==
    /\ file'.connects >= file.connects
    /\ file'.sessions >= file.sessions
    /\ file'.reconnects >= file.reconnects
    /\ file'.uptime >= file.uptime
    /\ file'.downtime >= file.downtime
CountersSurvive == [][(up /\ ~up') \/ ~intact' \/ CountersKeep]_allVars

\* _note_disconnect: at most one alert per outage, delivered, suppressed or not,
\* in the life of a runner: _alerted and the history begin anew with the daemon,
\* and one that is restarted in an outage may alert of it once more.
OneAlertPerOutage == alerts <= 1

\* on_consecutive_failures: no alert before that many attempts in a row were
\* not followed by a stable session.
AlertNotEarly == alerts > 0 => failedRow >= Threshold

\* README: "after [notify].on_consecutive_failures failed attempts in a row, ponte
\* pushes".  No outage gets that long without an alert, the second as little as the
\* first, not counting the launches that raised before any session came up again:
\* each of those still sees the duration of the stable session before the outage
\* and is taken for a recovery, so that an outage of nothing else has no alert.
OutageAlerted == Enabled /\ failedRow >= Threshold + misread => alerts > 0
=============================================================================
