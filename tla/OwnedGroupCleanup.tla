------------------------- MODULE OwnedGroupCleanup -------------------------
(***************************************************************************)
(* What terminate_and_reap promises its callers, without saying how: while *)
(* the leader is owned the group may be signalled; ownership ends once;    *)
(* success is only reported for an unowned group without live members; an  *)
(* unrelated group is never signalled; some result is always reported.     *)
(* ProcessGroups implements this module; the modules of the callers build  *)
(* on it instead of the detailed one.                                      *)
(***************************************************************************)
EXTENDS Naturals

CONSTANT Procs

VARIABLES
    live,    \* the group's running members
    owned,   \* the leader is not reaped: its number cannot be reused
    struck,  \* a signal reached an unrelated group
    result   \* "none", "ok", "lost" or "failed"

vars == <<live, owned, struck, result>>

Init ==
    /\ live \subseteq Procs
    /\ owned = TRUE
    /\ struck = FALSE
    /\ result = "none"

\* Members fork, exit, leave or are killed; an empty group stays empty.
Change ==
    /\ live # {}
    /\ live' \in SUBSET Procs
    /\ UNCHANGED <<owned, struck, result>>

Release ==
    /\ owned /\ owned' = FALSE
    /\ UNCHANGED <<live, struck, result>>

Succeed ==
    /\ result = "none"
    /\ ~owned /\ live = {}
    /\ result' = "ok"
    /\ UNCHANGED <<live, owned, struck>>

\* A failure may be reported together with the end of the ownership.
Fail ==
    /\ result = "none"
    /\ result' \in {"lost", "failed"}
    /\ owned' \in {owned, FALSE}
    /\ UNCHANGED <<live, struck>>

Next == Change \/ Release \/ Succeed \/ Fail

Spec == Init /\ [][Next]_vars /\ WF_vars(Succeed \/ Fail)
=============================================================================
