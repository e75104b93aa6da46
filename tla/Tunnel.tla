-------------------------------- MODULE Tunnel --------------------------------
(***************************************************************************)
(* What one profile promises, without threads, handles or events: a        *)
(* tunnel that is retried after every loss and is given up only when       *)
(* somebody asked for that, when the reconnects allowed since the last     *)
(* stable session are spent, or when the backoff can no longer be          *)
(* computed.                                                               *)
(***************************************************************************)
EXTENDS Naturals

CONSTANTS
    MaxRetries,     \* reconnects allowed after a stable session; 0: any number
    OverflowAt      \* reconnects in a row whose backoff can be computed

VARIABLES
    phase,          \* down, trying, up, lost, over
    reconnects,     \* reconnects since the first connection or a stable session
    stopping,       \* somebody asked for the end
    outcome         \* why it is over

tunnel == <<phase, reconnects, stopping, outcome>>

TypeOK ==
    /\ phase \in {"down", "trying", "up", "lost", "over"}
    /\ reconnects \in Nat
    /\ stopping \in BOOLEAN
    /\ outcome \in {"none", "stopped", "exhausted", "crashed"}

Init ==
    /\ phase = "down"
    /\ reconnects = 0
    /\ stopping = FALSE
    /\ outcome = "none"

Ask ==
    /\ stopping' = TRUE
    /\ UNCHANGED <<phase, reconnects, outcome>>

Try ==
    /\ phase = "down" /\ ~stopping
    /\ phase' = "trying"
    /\ UNCHANGED <<reconnects, stopping, outcome>>

\* An attempt already begun is carried through, even if a stop comes meanwhile.
Settle ==
    /\ phase = "trying"
    /\ phase' \in {"up", "lost"}
    /\ UNCHANGED <<reconnects, stopping, outcome>>

\* The session ends; if it was a stable one the reconnects count anew.
Lose ==
    /\ phase = "up"
    /\ phase' = "lost"
    /\ reconnects' \in {0, reconnects}
    /\ UNCHANGED <<stopping, outcome>>

Reconnect ==
    /\ phase = "lost" /\ ~stopping
    /\ MaxRetries > 0 => reconnects < MaxRetries
    /\ reconnects < OverflowAt
    /\ phase' = "down"
    /\ reconnects' = reconnects + 1
    /\ UNCHANGED <<stopping, outcome>>

Over(why) == phase' = "over" /\ outcome' = why /\ UNCHANGED stopping

Stop ==
    /\ phase \in {"down", "lost"} /\ stopping
    /\ Over("stopped")
    /\ UNCHANGED reconnects

Exhaust ==
    /\ phase = "lost" /\ ~stopping
    /\ MaxRetries > 0 /\ reconnects = MaxRetries
    /\ Over("exhausted")
    /\ UNCHANGED reconnects

Crash ==
    /\ phase = "lost" /\ ~stopping
    /\ reconnects = OverflowAt
    /\ Over("crashed")
    /\ reconnects' = reconnects + 1

Next == Ask \/ Try \/ Settle \/ Lose \/ Reconnect \/ Stop \/ Exhaust \/ Crash

Spec == Init /\ [][Next]_tunnel

=============================================================================
