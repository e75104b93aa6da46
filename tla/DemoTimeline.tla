----------------------------- MODULE DemoTimeline -----------------------------
(***************************************************************************)
(* The data of `ponte serve --demo`: every profile is a cycle of phases,   *)
(* and all the page shows of a moment is computed from that moment alone,  *)
(* nothing is remembered.  Here the moments pass one by one, and what a    *)
(* daemon would have remembered is kept beside them as history.            *)
(*                                                                         *)
(* Times are whole seconds since the start; a moment that is not there is  *)
(* Never.  Names, addresses and the wording of reasons are left out.       *)
(***************************************************************************)
EXTENDS Integers, Sequences, FiniteSets, FiniteSetsExt

CONSTANTS
    Horizon,    \* bound: seconds that pass
    Anchors     \* values of ?at= a page is asked for; others mean the clock

ASSUME HorizonAssumption == Horizon \in Nat
ASSUME AnchorAssumption == Anchors \subseteq Nat

Never == -1
FeedLimit == 8
AtLimit == 86400
AttemptInterval == 5

\* _PROFILES; reason: what the phase gives as the text of an error.
Phase(state, seconds, reason) == [state |-> state, seconds |-> seconds, reason |-> reason]
Order == <<"web", "db", "metrics">>
Profiles == {"web", "db", "metrics"}
Phases ==
    [web |-> <<Phase("connected", 140, FALSE), Phase("disconnected", 6, TRUE),
               Phase("retrying", 18, FALSE), Phase("connected", 16, FALSE)>>,
     db |-> <<Phase("connected", 25, TRUE), Phase("disconnected", 5, TRUE),
              Phase("retrying", 90, FALSE)>>,
     metrics |-> <<Phase("connected", 170, FALSE), Phase("unknown", 40, TRUE)>>]
NotifyEvery == [web |-> 0, db |-> 2, metrics |-> 0]

VARIABLES
    mode,   \* "live": the clock on the wall; "pinned": ?at= says when
    t,      \* the moment shown
    past    \* history, live only: of each profile the seconds it was up, the
            \* sessions it began and when it was last disconnected

vars == <<mode, t, past>>

-----------------------------------------------------------------------------
(* A moment within its cycle.                                              *)

Indices(p) == 1 .. Len(Phases[p])
UpStates == {"connected", "unknown"}
Up(state) == state \in UpStates

\* The seconds spent in some states by the phases before the i-th, and before
\* the next round if there is no such phase.
Seconds(p, i, states) ==
    LET cursor[k \in 1 .. Len(Phases[p]) + 1] ==
            IF k = 1 THEN 0
            ELSE cursor[k - 1]
                 + IF Phases[p][k - 1].state \in states THEN Phases[p][k - 1].seconds ELSE 0
    IN  cursor[i]
StartOf(p, i) == Seconds(p, i, UpStates \cup {"disconnected", "retrying"})
Cycle(p) == StartOf(p, Len(Phases[p]) + 1)
Round(p, s) == s \div Cycle(p)
Offset(p, s) == s % Cycle(p)

\* _locate.
Locate(p, s) == Max({i \in Indices(p) : Offset(p, s) >= StartOf(p, i)})
At(p, s) == Phases[p][Locate(p, s)]

Retries(p) == {i \in Indices(p) : Phases[p][i].state = "retrying"}
ReconnectIndex(p) == IF Retries(p) = {} THEN Len(Phases[p]) + 1 ELSE Max(Retries(p)) + 1
Disconnects(p) == {i \in Indices(p) : Phases[p][i].state = "disconnected"}

-----------------------------------------------------------------------------
(* _profile_payload.                                                       *)

UpTime(p, s) ==
    LET up(i) == Seconds(p, i, UpStates)
    IN  Round(p, s) * up(Len(Phases[p]) + 1) + up(Locate(p, s))
        + IF Up(At(p, s).state) THEN Offset(p, s) - StartOf(p, Locate(p, s)) ELSE 0

SessionsEveryRound(p, s) ==             \* Mutant: the test of the retry phase is gone
    1 + Round(p, s) + (IF Locate(p, s) >= ReconnectIndex(p) THEN 1 ELSE 0)
Sessions(p, s) ==
    1 + (IF Retries(p) # {} THEN Round(p, s) ELSE 0)
    + (IF Locate(p, s) >= ReconnectIndex(p) THEN 1 ELSE 0)

AttemptsOfRound(p, s) ==                \* Mutant: the rounds before do not count
    IF Locate(p, s) >= ReconnectIndex(p) /\ Retries(p) # {} THEN 5 ELSE 1
Attempts(p, s) ==
    LET retry == Max(Retries(p))
        perRound == Max({1, (Phases[p][retry].seconds + AttemptInterval - 1)
                               \div AttemptInterval})
        inRound == IF Locate(p, s) >= ReconnectIndex(p) THEN perRound
                   ELSE IF At(p, s).state = "retrying"
                   THEN (Offset(p, s) - StartOf(p, Locate(p, s))) \div AttemptInterval
                   ELSE 0
    IN  IF Retries(p) = {} THEN 1 ELSE 1 + Round(p, s) * (1 + perRound) + inRound

\* Of the round before when this one has not come that far, if there was one.
LastDisconnect(p, s) ==
    LET before == {i \in Disconnects(p) : StartOf(p, i) <= Offset(p, s)}
    IN  IF before # {} THEN Round(p, s) * Cycle(p) + StartOf(p, Max(before))
        ELSE IF Disconnects(p) # {} /\ Round(p, s) >= 1
        THEN (Round(p, s) - 1) * Cycle(p) + StartOf(p, Max(Disconnects(p)))
        ELSE Never

Notified(p, s) ==
    LET round == Round(p, s) - (Round(p, s) % NotifyEvery[p])
        candidate == round * Cycle(p) + StartOf(p, ReconnectIndex(p) - 1)
    IN  IF NotifyEvery[p] # 0 /\ candidate <= s THEN candidate ELSE Never

SessionStart(p, s) ==
    LET down == {i \in 1 .. Locate(p, s) - 1 : ~Up(Phases[p][i].state)}
    IN  IF ~Up(At(p, s).state) THEN Never
        ELSE IF \A i \in Indices(p) : Up(Phases[p][i].state) THEN 0
        ELSE Round(p, s) * Cycle(p) + IF down = {} THEN 0 ELSE StartOf(p, Max(down) + 1)

\* What the page draws of a phase: the verdict, whether it is one, the process
\* and both columns of ports.
Visible(phase) ==
    LET open == phase.state = "connected"
    IN  [healthy |-> open /\ ~phase.reason, conclusive |-> phase.state # "unknown",
         alive |-> Up(phase.state), remote |-> open /\ ~phase.reason, local |-> open]

\* _events: the feed is given by the numbers of its events, the oldest the least:
\* the starts of the last phases, this one's included.  "unknown" takes its place
\* in the feed and is then left out.
Event(p, number) ==
    LET i == 1 + ((number - 1) % Len(Phases[p]))
    IN  [at |-> ((number - 1) \div Len(Phases[p])) * Cycle(p) + StartOf(p, i),
         type |-> Phases[p][i].state]
Begun(p, s) == Round(p, s) * Len(Phases[p]) + Locate(p, s)
Fed(p, begun) ==
    {k \in 1 .. begun : k > begun - FeedLimit /\ Event(p, k).type # "unknown"}
EventsAhead(p, s) == Fed(p, Begun(p, s) + 1)    \* Mutant: a start that is still to come
Events(p, s) == Fed(p, Begun(p, s))

-----------------------------------------------------------------------------
(* The next change of what is visible, and the moment a page asks for.     *)

Begins(p, round, i) == round * Cycle(p) + StartOf(p, i)

EveryBoundary(p, s) ==                  \* Mutant: any boundary is a change
    {<<Begins(p, b[1], b[2]), Phases[p][b[2]].state>> :
        b \in {c \in {Round(p, s), Round(p, s) + 1} \X Indices(p) : Begins(p, c[1], c[2]) > s}}

\* _next_change looks through this round and the next.
Changes(p, s) ==
    {<<Begins(p, b[1], b[2]), Phases[p][b[2]].state>> :
        b \in {c \in {Round(p, s), Round(p, s) + 1} \X Indices(p) :
                  /\ Begins(p, c[1], c[2]) > s
                  /\ Visible(Phases[p][c[2]]) # Visible(At(p, s))}}

NextOf(p, s) == CHOOSE c \in Changes(p, s) : \A d \in Changes(p, s) : c[1] <= d[1]

\* _next_change_at: of two at the same second, the first profile's.
NextChange(s) ==
    LET first == CHOOSE k \in DOMAIN Order : \A m \in DOMAIN Order :
                    \/ NextOf(Order[k], s)[1] < NextOf(Order[m], s)[1]
                    \/ NextOf(Order[k], s)[1] = NextOf(Order[m], s)[1] /\ k <= m
        change == NextOf(Order[first], s)
    IN  [at |-> change[1], profile |-> Order[first], state |-> change[2]]

\* _parse_at of a value that is a number, finite and not negative.
ParseAt(value) == Min({value, AtLimit})

-----------------------------------------------------------------------------
NoPast == [p \in {} |-> 0]

Init ==
    /\ mode = "live" /\ t = 0
    /\ past = [p \in Profiles |-> [up |-> 0, sessions |-> 1, down |-> Never]]

Remember(p) ==
    LET old == At(p, t).state
        new == At(p, t + 1).state
    IN  [up |-> past[p].up + IF Up(old) THEN 1 ELSE 0,
         sessions |-> past[p].sessions + IF ~Up(old) /\ Up(new) THEN 1 ELSE 0,
         down |-> IF Up(old) /\ ~Up(new) THEN t + 1 ELSE past[p].down]

Tick ==
    /\ mode = "live" /\ t < Horizon
    /\ t' = t + 1
    /\ past' = [p \in Profiles |-> Remember(p)]
    /\ UNCHANGED mode

Pin ==
    /\ mode = "live" /\ t = 0
    /\ \E value \in Anchors : t' = ParseAt(value)
    /\ mode' = "pinned" /\ past' = NoPast

\* The button of a pinned page.
Press ==
    /\ mode = "pinned" /\ NextChange(t).at <= Horizon
    /\ t' = NextChange(t).at
    /\ UNCHANGED <<mode, past>>

Next == Tick \/ Pin \/ Press

Spec == Init /\ [][Next]_vars

-----------------------------------------------------------------------------
(* Properties.                                                             *)

\* What is computed from the moment alone is what passing through all the
\* moments before it adds up to: time up, sessions and the last disconnection.
StatsAgree ==
    mode = "live" => \A p \in Profiles :
        /\ UpTime(p, t) = past[p].up
        /\ Sessions(p, t) = past[p].sessions
        /\ LastDisconnect(p, t) = past[p].down

\* The next change that is announced is the next one: until then the page looks
\* as it does now, and then the named profile looks different.
NextIsNext ==
    LET next == NextChange(t)
        looks(p, s) == Visible(At(p, s))
    IN  /\ \A p \in Profiles, s \in t + 1 .. next.at - 1 : looks(p, s) = looks(p, t)
        /\ looks(next.profile, next.at) # looks(next.profile, t)
        /\ At(next.profile, next.at).state = next.state

\* The feed ends with the state the profile is in, in the order of time, and
\* its last disconnection is the one the statistics name; nothing that is dated
\* lies ahead.
FeedAgrees ==
    \A p \in Profiles :
        LET feed == Events(p, t)
            newest == Event(p, Max(feed))
            downs == {k \in feed : Event(p, k).type = "disconnected"}
        IN  /\ \A j, k \in feed : j < k => Event(p, j).at < Event(p, k).at
            /\ newest.at <= t /\ Up(newest.type) = Up(At(p, t).state)
            /\ downs # {} => Event(p, Max(downs)).at = LastDisconnect(p, t)
            /\ SessionStart(p, t) <= t /\ Notified(p, t) <= t

\* Time that passes takes nothing back: no counter of the page goes down.
NothingTakenBack ==
    [][Tick => \A p \in Profiles :
          /\ Attempts(p, t') >= Attempts(p, t)
          /\ t' - UpTime(p, t') >= t - UpTime(p, t)
          /\ Sessions(p, t') <= Attempts(p, t')]_vars
=============================================================================
