------------------------------- MODULE MCDaemon -------------------------------
(***************************************************************************)
(* Daemon with a handful of configurations: a profile changes, is added    *)
(* and is removed.                                                         *)
(***************************************************************************)
EXTENDS Daemon, TLC

One(s) == [n \in {"web"} |-> s]
Two(s, t) == [n \in {"web", "db"} |-> IF n = "web" THEN s ELSE t]

Both == Two(1, 1)
Changed == Two(2, 1)
Single == One(1)
SingleChanged == One(2)

TwoProfiles == {Both, Changed, Single}
OneProfile == {Single, SingleChanged}

\* Reload workers are interchangeable.
Symmetry == Permutations(Workers)

=============================================================================
