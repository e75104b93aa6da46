--------------------------- MODULE Accounting_proofs ---------------------------
(***************************************************************************)
(* Theorems about what the daemon counts and alerts of a profile, for      *)
(* every alert threshold, retry budget and number of stopping threads, and *)
(* over any number of deaths, restarts and failed writes.                  *)
(***************************************************************************)
EXTENDS Accounting, ProfileSession_proofs

\* A death apart, the accounts follow the session's own steps; a new process
\* starts the session from the beginning.
LEMMA AccountsKeepSession ==
    ASSUME [AccountingNext]_allVars
    PROVE  [Next]_vars \/ Init'
  <1>1. CASE Handle \/ HandleCrash
    BY <1>1 DEF Handle, HandleCrash, Next, Loop
  <1>2. CASE Elsewhere
    BY <1>2 DEF Elsewhere, Next, Loop
  <1>3. CASE OtherWriteFails \/ CooldownOver \/ Exit \/ Die
    BY <1>3 DEF OtherWriteFails, CooldownOver, Exit, Die
  <1>4. CASE Restart
    BY <1>4 DEF Restart, Init
  <1>5. CASE UNCHANGED allVars
    BY <1>5 DEF allVars
  <1>6. QED
    BY <1>1, <1>2, <1>3, <1>4, <1>5 DEF AccountingNext

LEMMA SessionInv ==
    ASSUME IInv, [AccountingNext]_allVars
    PROVE  IInv'
  <1>1. Init' => IInv'
    BY InitInv, PTL
  <1>2. QED
    BY <1>1, AccountsKeepSession, StepInv

-----------------------------------------------------------------------------
(* Types.                                                                  *)

LEMMA RecordedType ==
    ASSUME TypeOK, file \in Sections
    PROVE  Recorded \in Sections
  <1> DEFINE connects == IF event = "connecting" THEN file.connects + 1 ELSE file.connects
             reconnects == IF event = "retrying" THEN file.reconnects + 1 ELSE file.reconnects
             uptime == IF Disconnect THEN file.uptime + Duration ELSE file.uptime
             downtime == IF event = "connecting" /\ gap THEN file.downtime + 1
                         ELSE file.downtime
             current == event = "connecting" \/ (file.current /\ ~Disconnect)
  <1>1. connects \in Nat /\ SessionsAfter \in Nat /\ reconnects \in Nat /\ downtime \in Nat
    BY DEF Sections, SessionsAfter
  <1>2. uptime \in Nat
    BY DEF TypeOK, Sections, Duration
  <1>3. current \in BOOLEAN
    OBVIOUS
  <1>4. Recorded = [file EXCEPT !.connects = connects, !.sessions = SessionsAfter,
                        !.reconnects = reconnects, !.uptime = uptime,
                        !.downtime = downtime, !.current = current]
    BY DEF Recorded
  <1> HIDE DEF connects, reconnects, uptime, downtime, current
  <1>5. QED
    BY <1>1, <1>2, <1>3, <1>4 DEF Sections

LEMMA BlankType == Blank \in Sections
  BY DEF Blank, Sections

LEMMA InitAccounts == AccountingInit => AccountingTypeOK
  <1> SUFFICES ASSUME AccountingInit
               PROVE  AccountingTypeOK
    OBVIOUS
  <1>1. TypeOK /\ file \in Sections
    BY InitTypes, BlankType DEF AccountingInit
  <1>2. failures \in Nat /\ failedRow \in Nat /\ misread \in Nat /\ alerts \in Nat
    BY DEF AccountingInit
  <1>3. QED
    BY <1>1, <1>2 DEF AccountingInit, AccountingTypeOK

LEMMA AccountTypes ==
    ASSUME AccountingTypeOK, IInv, [AccountingNext]_allVars
    PROVE  AccountingTypeOK'
  <1>1. TypeOK'
    BY SessionInv DEF IInv
  <1>2. Recorded \in Sections /\ Blank \in Sections
    BY RecordedType, BlankType DEF AccountingTypeOK
  <1> USE <1>1, <1>2 DEF AccountingTypeOK, memory, recorded, accounts
  <1>3. CASE Handle
    <2>1. file' \in Sections /\ intact' \in BOOLEAN
      BY <1>3 DEF Handle, NoteDisconnect, Save, Write
    <2>2. gap' \in BOOLEAN
      BY <1>3 DEF Handle, Gap
    <2>3. CASE Disconnect
      <3>1. failures' \in Nat /\ failedRow' \in Nat /\ misread' \in Nat /\ alerts' \in Nat
        BY <1>3, <2>3 DEF Handle, NoteDisconnect, CountAttempt
      <3>2. alerted' \in BOOLEAN
        BY <1>3, <2>3 DEF Handle, NoteDisconnect
      <3>3. cooling' \in BOOLEAN /\ up' \in BOOLEAN
        BY <1>3, <2>3 DEF Handle, NoteDisconnect
      <3>4. QED
        BY <2>1, <2>2, <3>1, <3>2, <3>3
    <2>4. CASE ~Disconnect
      BY <1>3, <2>1, <2>2, <2>4 DEF Handle
    <2>5. QED
      BY <2>3, <2>4
  <1>4. CASE HandleCrash
    <2>1. [file EXCEPT !.error = TRUE] \in Sections
      BY DEF Sections
    <2>2. QED
      BY <1>4, <2>1 DEF HandleCrash, Save, Write
  <1>5. CASE Elsewhere
    BY <1>5 DEF Elsewhere
  <1>6. CASE OtherWriteFails \/ CooldownOver \/ Exit \/ Die
    BY <1>6 DEF OtherWriteFails, CooldownOver, Exit, Die
  <1>7. CASE Restart
    BY <1>7 DEF Restart, Save, Write, Begun
  <1>8. CASE UNCHANGED allVars
    BY <1>8 DEF allVars
  <1>9. QED
    BY <1>3, <1>4, <1>5, <1>6, <1>7, <1>8 DEF AccountingNext

\* The section and the memory of the runner keep their types.
THEOREM AccountsTyped == AccountingSpec => []AccountingTypeOK
  <1>1. AccountingInit => IInv
    BY InitInv DEF AccountingInit
  <1>2. QED
    BY <1>1, InitAccounts, SessionInv, AccountTypes, PTL DEF AccountingSpec

-----------------------------------------------------------------------------
(* Alerts.                                                                 *)

\* alerted stands for an alert of this outage.  Once the disconnect of a stable
\* session was handled, its duration, which failed launches leave behind, finds
\* nothing counted and nothing alerted: taking it for another recovery is
\* harmless then.  A failure in a row is counted or misread; and one more than the
\* threshold is never left unalerted.
AlertInv ==
    /\ alerts = IF alerted THEN 1 ELSE 0
    /\ alerted => failedRow >= Threshold
    /\ failures + misread = failedRow
    /\ Enabled /\ failures >= Threshold => alerted
    /\ lastDur = "stable" =>
          \/ pc \in {"unpublish", "settle"}
          \/ pc = "consume" /\ event \in {"connected", "disconnected"}
          \/ ~alerted /\ failures = 0

LEMMA InitAlerts == AccountingInit => AlertInv
  BY AccountingAssumption DEF AccountingInit, Init, AlertInv

\* What the session does by itself never brings a stable session's duration
\* back that was handled.
LEMMA ElsewhereAlerts ==
    ASSUME AccountingTypeOK, IInv, AlertInv, Elsewhere
    PROVE  AlertInv'
  <1> USE DEF AccountingTypeOK, AlertInv, IInv, EventInv, TypeOK, memory, recorded, accounts,
              flags, session, callers, history, Yield
  <1>1. UNCHANGED accounts
    BY DEF Elsewhere
  <1>2. CASE LoopBegin \/ LoopSpawn \/ LoopSpawnFails \/ LoopPublish
    BY <1>1, <1>2 DEF LoopBegin, LoopSpawn, LoopSpawnFails, LoopPublish
  <1>3. CASE LoopReap \/ LoopUnpublish \/ LoopDisconnected
    BY <1>1, <1>3 DEF LoopReap, LoopUnpublish, LoopDisconnected
  <1>4. CASE LoopStopped \/ LoopGiveUp \/ LoopRetry \/ LoopWake \/ LoopEnd
    BY <1>1, <1>4 DEF LoopStopped, LoopGiveUp, LoopRetry, LoopWake, LoopEnd
  <1>5. CASE LoopTop \/ SshExit
    BY <1>1, <1>5 DEF LoopTop, SshExit
  <1>6. ASSUME NEW c \in Callers, Call(c) \/ Called(c)
        PROVE  AlertInv'
    <2>1. CallerEffect
      BY <1>6, CallEffect, CalledEffect DEF IInv
    <2>2. QED
      BY <1>1, <2>1 DEF CallerEffect
  <1>7. QED
    BY <1>2, <1>3, <1>4, <1>5, <1>6 DEF Elsewhere

LEMMA HandleAlerts ==
    ASSUME AccountingTypeOK, IInv, AlertInv, Handle
    PROVE  AlertInv'
  <1> USE AccountingAssumption
      DEF AccountingTypeOK, AlertInv, IInv, EventInv, TypeOK, flags, callers, history
  <1>1. /\ pc = "consume" /\ UNCHANGED <<event, lastDur>>
        /\ event = "connected" => pc' = "settle"
        /\ pc' \in {"launch", "settle", "check", "sleep", "final"}
    BY DEF Handle, LoopConsume, Resumption
  <1>2. CASE Disconnect
    <2>1. /\ failures' = IF Recovered THEN 0 ELSE failures + 1
          /\ alerted' = (~Recovered /\ (alerted \/ ~Quiet))
          /\ failedRow' = IF StableEnd THEN 0 ELSE failedRow + 1
          /\ misread' = IF StableEnd THEN 0 ELSE IF Recovered THEN misread + 1 ELSE misread
          /\ alerts' = IF StableEnd THEN 0 ELSE IF Alerts THEN alerts + 1 ELSE alerts
      BY <1>2 DEF Handle, NoteDisconnect, CountAttempt
    <2>2. CASE StableEnd
      BY <1>1, <2>1, <2>2 DEF StableEnd, Recovered, Alerts
    <2>3. CASE Recovered /\ ~StableEnd
      <3>1. event = "launch_failed"
        BY <1>2, <2>3 DEF StableEnd, Recovered, Disconnect
      <3>2. ~alerted /\ failures = 0
        BY <1>1, <2>3, <3>1 DEF Recovered
      <3>3. QED
        BY <1>1, <2>1, <2>3, <3>2 DEF Alerts
    <2>4. CASE ~Recovered
      <3>1. ~StableEnd /\ lastDur' # "stable"
        BY <1>1, <2>4 DEF StableEnd, Recovered
      <3>2. CASE Quiet
        BY <2>1, <2>4, <3>1, <3>2 DEF Quiet, Alerts
      <3>3. CASE ~Quiet
        BY <2>1, <2>4, <3>1, <3>3 DEF Quiet, Alerts
      <3>4. QED
        BY <3>2, <3>3
    <2>5. QED
      BY <2>2, <2>3, <2>4
  <1>3. CASE ~Disconnect
    <2>1. UNCHANGED <<failures, alerted, failedRow, misread, alerts>>
      BY <1>3 DEF Handle, recorded
    <2>2. QED
      BY <1>1, <1>3, <2>1 DEF Disconnect
  <1>4. QED
    BY <1>2, <1>3

LEMMA StepAlerts ==
    ASSUME AccountingTypeOK, IInv, AlertInv, [AccountingNext]_allVars
    PROVE  AlertInv'
  <1> USE DEF AlertInv, memory, recorded, accounts, vars, flags, session, callers, history
  <1>1. CASE Handle
    BY <1>1, HandleAlerts
  <1>2. CASE HandleCrash
    BY <1>2 DEF HandleCrash, LoopOverflow
  <1>3. CASE Elsewhere
    BY <1>3, ElsewhereAlerts
  <1>4. CASE OtherWriteFails \/ CooldownOver \/ Exit \/ Die
    BY <1>4 DEF OtherWriteFails, CooldownOver, Exit, Die
  <1>5. CASE Restart
    BY <1>5, AccountingAssumption DEF Restart
  <1>6. CASE UNCHANGED allVars
    BY <1>6 DEF allVars
  <1>7. QED
    BY <1>1, <1>2, <1>3, <1>4, <1>5, <1>6 DEF AccountingNext

-----------------------------------------------------------------------------
(* Counters and the current attempt.                                       *)

\* An attempt that is counted and not yet counted as a session, or as lost.
SessionAhead ==
    pc \in {"launch", "publish", "wait", "unpublish"} \/ (pc = "consume" /\ event = "connected")
ReconnectAhead ==
    \/ pc \in {"launch", "publish", "wait", "unpublish", "settle", "check"}
    \/ pc = "consume" /\ event \in {"connected", "disconnected", "launch_failed", "retrying"}

\* While the file held what was written, each counter leaves room for what the
\* loop may still report of the attempt it is in, and the mark of a current
\* attempt follows the events up to the one being handled.
SectionInv ==
    intact =>
        /\ CountersAgree
        /\ up /\ SessionAhead => file.sessions + 1 <= file.connects
        /\ up /\ ReconnectAhead => file.reconnects + 1 <= file.connects
        /\ AttemptShown
        /\ up /\ pc = "consume" /\ event = "connected" => file.current
        /\ up /\ pc = "consume" /\ event \in {"retrying", "max_retries_reached"} =>
              ~file.current

LEMMA InitSection == AccountingInit => SectionInv
  BY DEF AccountingInit, Init, SectionInv, CountersAgree, AttemptShown, Blank, SessionAhead,
         ReconnectAhead

LEMMA ElsewhereSection ==
    ASSUME AccountingTypeOK, IInv, SectionInv, Elsewhere
    PROVE  SectionInv'
  <1> USE DEF AccountingTypeOK, SectionInv, CountersAgree, AttemptShown, SessionAhead,
              ReconnectAhead, Sections, IInv, EventInv, TypeOK, memory, recorded, accounts,
              flags, session, callers, history, Yield
  <1>1. UNCHANGED accounts
    BY DEF Elsewhere
  <1>2. CASE LoopBegin \/ LoopSpawn \/ LoopSpawnFails \/ LoopPublish
    BY <1>1, <1>2 DEF LoopBegin, LoopSpawn, LoopSpawnFails, LoopPublish
  <1>3. CASE LoopReap \/ LoopUnpublish \/ LoopDisconnected
    BY <1>1, <1>3 DEF LoopReap, LoopUnpublish, LoopDisconnected
  <1>4. CASE LoopStopped \/ LoopGiveUp \/ LoopRetry \/ LoopWake \/ LoopEnd
    BY <1>1, <1>4 DEF LoopStopped, LoopGiveUp, LoopRetry, LoopWake, LoopEnd
  <1>5. CASE LoopTop \/ SshExit
    BY <1>1, <1>5 DEF LoopTop, SshExit
  <1>6. ASSUME NEW c \in Callers, Call(c) \/ Called(c)
        PROVE  SectionInv'
    <2>1. CallerEffect
      BY <1>6, CallEffect, CalledEffect DEF IInv
    <2>2. QED
      BY <1>1, <2>1 DEF CallerEffect
  <1>7. QED
    BY <1>2, <1>3, <1>4, <1>5, <1>6 DEF Elsewhere

\* What Recorded makes of the section.
LEMMA RecordedFields ==
    ASSUME file \in Sections
    PROVE  /\ Recorded.connects = IF event = "connecting" THEN file.connects + 1 ELSE file.connects
           /\ Recorded.sessions = IF event = "connected" THEN file.sessions + 1 ELSE file.sessions
           /\ Recorded.reconnects = IF event = "retrying" THEN file.reconnects + 1
                                    ELSE file.reconnects
           /\ Recorded.downtime = IF event = "connecting" /\ gap THEN file.downtime + 1
                                  ELSE file.downtime
           /\ Recorded.current = (event = "connecting" \/ (file.current /\ ~Disconnect))
  BY DEF Sections, Recorded, SessionsAfter

\* What the file holds between the handling of an event and the next step.
LEMMA RecordedSection ==
    ASSUME AccountingTypeOK, IInv, SectionInv, intact, up, pc = "consume",
           NEW f, f = Recorded
    PROVE  /\ f.sessions <= f.connects /\ f.reconnects <= f.connects /\ f.downtime <= f.connects
           /\ event = "connecting" => f.sessions + 1 <= f.connects
           /\ event \in {"connecting", "connected", "disconnected", "launch_failed"} =>
                 f.reconnects + 1 <= f.connects
           /\ f.current <=> event \in {"connecting", "connected"}
  <1> USE DEF AccountingTypeOK, Sections, SectionInv, CountersAgree, SessionAhead,
              ReconnectAhead
  <1>1. /\ file.connects \in Nat /\ file.sessions \in Nat /\ file.reconnects \in Nat
        /\ file.downtime \in Nat /\ file.current \in BOOLEAN
    OBVIOUS
  <1>2. f.sessions <= f.connects /\ f.reconnects <= f.connects /\ f.downtime <= f.connects
    BY <1>1, RecordedFields
  <1>3. /\ event = "connecting" => f.sessions + 1 <= f.connects
        /\ event \in {"connecting", "connected", "disconnected", "launch_failed"} =>
              f.reconnects + 1 <= f.connects
    BY <1>1, RecordedFields
  <1>4. event \in {"connecting", "connected", "disconnected", "launch_failed", "retrying",
                   "max_retries_reached"}
    BY DEF IInv, EventInv, TypeOK, Events
  <1>5. f.current <=> event \in {"connecting", "connected"}
    BY <1>1, <1>4, RecordedFields DEF Disconnect
  <1>6. QED
    BY <1>2, <1>3, <1>5

LEMMA HandleSection ==
    ASSUME AccountingTypeOK, IInv, SectionInv, Handle
    PROVE  SectionInv'
  <1> SUFFICES ASSUME intact'
               PROVE  SectionInv'
    BY DEF SectionInv
  <1>1. intact /\ file' = Recorded
    BY DEF Handle, Save, NoteDisconnect
  <1>2. pc = "consume" /\ up /\ event' = event
    BY DEF Handle, LoopConsume
  <1>3. <<event, pc'>> \in Resumption
    BY DEF Handle, LoopConsume, Resumption
  <1>4. /\ file'.sessions <= file'.connects /\ file'.reconnects <= file'.connects
        /\ file'.downtime <= file'.connects
        /\ event = "connecting" => file'.sessions + 1 <= file'.connects
        /\ event \in {"connecting", "connected", "disconnected", "launch_failed"} =>
              file'.reconnects + 1 <= file'.connects
        /\ file'.current <=> event \in {"connecting", "connected"}
    BY <1>1, <1>2, RecordedSection
  <1>5. QED
    BY <1>2, <1>3, <1>4
    DEF Resumption, SectionInv, CountersAgree, AttemptShown, SessionAhead, ReconnectAhead

LEMMA StepSection ==
    ASSUME AccountingTypeOK, IInv, SectionInv, [AccountingNext]_allVars
    PROVE  SectionInv'
  <1> USE DEF SectionInv, CountersAgree, AttemptShown, SessionAhead, ReconnectAhead,
              memory, recorded, accounts, vars, flags, session, callers, history
  <1>1. CASE Handle
    BY <1>1, HandleSection
  <1>2. CASE HandleCrash
    <2>1. file \in Sections
      BY DEF AccountingTypeOK
    <2>2. LET f == [file EXCEPT !.error = TRUE]
          IN  /\ f.connects = file.connects /\ f.sessions = file.sessions
              /\ f.reconnects = file.reconnects /\ f.downtime = file.downtime
              /\ f.current = file.current
      BY <2>1 DEF Sections
    <2>3. intact' => intact /\ file' = [file EXCEPT !.error = TRUE]
      BY <1>2 DEF HandleCrash, Save
    <2>4. pc = "check" /\ pc' = "final" /\ event' = event /\ up /\ up'
      BY <1>2 DEF HandleCrash, LoopOverflow
    <2>5. QED
      BY <2>2, <2>3, <2>4 DEF IInv, EventInv
  <1>3. CASE Elsewhere
    BY <1>3, ElsewhereSection
  <1>4. CASE OtherWriteFails \/ CooldownOver \/ Exit
    BY <1>4 DEF OtherWriteFails, CooldownOver, Exit
  <1>5. CASE Die
    <2>1. UNCHANGED <<vars, intact>> /\ up /\ ~up'
      BY <1>5 DEF Die
    <2>2. file' = file \/ file' = Blank \/ (pc = "consume" /\ file' = Recorded)
      BY <1>5 DEF Die
    <2>3. CASE pc = "consume" /\ file' = Recorded
      BY <2>1, <2>3, RecordedSection
    <2>4. CASE file' = file \/ file' = Blank
      BY <2>1, <2>4 DEF Blank
    <2>5. QED
      BY <2>2, <2>3, <2>4
  <1>6. CASE Restart
    BY <1>6 DEF Restart, Save, Begun
  <1>7. CASE UNCHANGED allVars
    BY <1>7 DEF allVars
  <1>8. QED
    BY <1>1, <1>2, <1>3, <1>4, <1>5, <1>6, <1>7 DEF AccountingNext

-----------------------------------------------------------------------------
(* What follows.                                                           *)

AInv == AccountingTypeOK /\ IInv /\ AlertInv /\ SectionInv

LEMMA AccountsInductive == AccountingSpec => []AInv
  <1>1. AccountingInit => AInv
    BY InitAccounts, InitInv, InitAlerts, InitSection DEF AInv, AccountingInit
  <1>2. AInv /\ [AccountingNext]_allVars => AInv'
    BY SessionInv, AccountTypes, StepAlerts, StepSection DEF AInv
  <1>3. QED
    BY <1>1, <1>2, PTL DEF AccountingSpec

\* _note_disconnect calls notify() at most once between two stable sessions of a
\* process, for every threshold, delivered or not, although the duration it
\* tests is stale after a launch that raised.
THEOREM OneAlert == AccountingSpec => []OneAlertPerOutage
  <1>1. AInv => OneAlertPerOutage
    BY DEF AInv, AlertInv, OneAlertPerOutage
  <1>2. QED
    BY <1>1, AccountsInductive, PTL

\* It calls notify() only after on_consecutive_failures attempts in a row that
\* were not followed by a stable session, whatever that setting is.
THEOREM NoEarlyAlert == AccountingSpec => []AlertNotEarly
  <1>1. AInv => AlertNotEarly
    BY DEF AInv, AlertInv, AlertNotEarly, AccountingTypeOK
  <1>2. QED
    BY <1>1, AccountsInductive, PTL

\* It calls notify() in every outage that gets as long as the setting says, the
\* launches apart that it takes for a recovery.
THEOREM EveryOutageAlerted == AccountingSpec => []OutageAlerted
  <1>1. AInv => OutageAlerted
    BY AccountingAssumption DEF AInv, AlertInv, OutageAlerted, AccountingTypeOK
  <1>2. QED
    BY <1>1, AccountsInductive, PTL

\* The counters of _record_retry_event agree over any number of deaths in the
\* middle of a session or of a write and of restarts from what the file says.
THEOREM CountersAlwaysAgree == AccountingSpec => []CountersAgree
  <1>1. AInv => CountersAgree
    BY DEF AInv, SectionInv, CountersAgree
  <1>2. QED
    BY <1>1, AccountsInductive, PTL

\* current_session_at names an attempt exactly while the loop is in one, however
\* the daemon before this one died.
THEOREM AttemptAlwaysShown == AccountingSpec => []AttemptShown
  <1>1. AInv => AttemptShown
    BY DEF AInv, SectionInv, AttemptShown
  <1>2. QED
    BY <1>1, AccountsInductive, PTL

LEMMA RecordedKeeps ==
    ASSUME TypeOK, file \in Sections
    PROVE  /\ Recorded.connects >= file.connects /\ Recorded.sessions >= file.sessions
           /\ Recorded.reconnects >= file.reconnects /\ Recorded.uptime >= file.uptime
           /\ Recorded.downtime >= file.downtime
  <1>1. /\ file.connects \in Nat /\ file.sessions \in Nat /\ file.reconnects \in Nat
        /\ file.downtime \in Nat /\ file.uptime \in Nat
    BY DEF Sections
  <1>2. Recorded.uptime = IF Disconnect THEN file.uptime + Duration ELSE file.uptime
    BY DEF Sections, Recorded
  <1>3. Duration \in Nat
    BY DEF Duration, TypeOK
  <1>4. Recorded.uptime >= file.uptime
    BY <1>1, <1>2, <1>3
  <1>5. QED
    BY <1>1, <1>4, RecordedFields

LEMMA StepKeeps ==
    ASSUME AccountingTypeOK, AccountingNext
    PROVE  (up /\ ~up') \/ ~intact' \/ CountersKeep
  <1> SUFFICES ASSUME intact', ~(up /\ ~up')
               PROVE  CountersKeep
    OBVIOUS
  <1> USE DEF memory, recorded, accounts
  <1>1. /\ file.connects \in Nat /\ file.sessions \in Nat /\ file.reconnects \in Nat
        /\ file.downtime \in Nat /\ file.uptime \in Nat
    BY DEF AccountingTypeOK, Sections
  <1>2. CASE UNCHANGED file
    BY <1>1, <1>2 DEF CountersKeep
  <1>3. CASE Handle
    <2>1. file' = Recorded
      BY <1>3 DEF Handle, Save, NoteDisconnect
    <2>2. QED
      BY <2>1, RecordedKeeps DEF AccountingTypeOK, CountersKeep
  <1>4. CASE HandleCrash
    <2>1. file' = [file EXCEPT !.error = TRUE]
      BY <1>4 DEF HandleCrash, Save
    <2>2. QED
      BY <1>1, <2>1 DEF AccountingTypeOK, Sections, CountersKeep
  <1>5. CASE Restart
    BY <1>2, <1>5 DEF Restart, Save, Begun
  <1>6. CASE Elsewhere \/ OtherWriteFails \/ CooldownOver \/ Exit \/ Die
    BY <1>2, <1>6 DEF Elsewhere, OtherWriteFails, CooldownOver, Exit, Die
  <1>7. QED
    BY <1>3, <1>4, <1>5, <1>6 DEF AccountingNext

\* "Cumulative; survives daemon restarts via the status file": begin() and every
\* edit only ever add, whatever is recorded; only a death during a write or a
\* failed write takes anything back.
THEOREM CountersNeverFall == AccountingSpec => CountersSurvive
  <1>1. AInv /\ [AccountingNext]_allVars
        => [(up /\ ~up') \/ ~intact' \/ CountersKeep]_allVars
    BY StepKeeps DEF AInv
  <1>2. QED
    BY <1>1, AccountsInductive, PTL DEF AccountingSpec, CountersSurvive

=============================================================================
