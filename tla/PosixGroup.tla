----------------------------- MODULE PosixGroup -----------------------------
(***************************************************************************)
(* The operating system's side of one POSIX process group, as the cleanup *)
(* code in sacrysty_runtime/process_groups.py meets it: the session leader *)
(* started by Popen(start_new_session=True), the descendants it forks into *)
(* its group, the pending SIGKILLs, and the number of the group, which the *)
(* system may give to somebody else once nobody uses it any more.          *)
(*                                                                         *)
(* Nothing here is code of the repository: the module is the environment,  *)
(* modelled from the system calls the repository makes (waitid, waitpid,   *)
(* kill, killpg) and from the outcomes its code and tests distinguish.     *)
(***************************************************************************)
EXTENDS Naturals

CONSTANTS
    Procs,          \* the leader and every process it may ever fork
    Leader,         \* the session leader: its pid is the group's number
    Protected,      \* processes the caller has no permission to signal
    ZombieAnswers,  \* what killpg answers when only signalable zombies remain
    OddErrors,      \* TRUE: system calls may fail with an unexpected errno
    ExternalReaper  \* TRUE: somebody else in the caller may reap the leader

ASSUME LeaderAssumption == Leader \in Procs
ASSUME ProtectedAssumption == Protected \subseteq Procs
\* Linux answers "ok", XNU "eperm" (the comment at process_groups.py:98-100);
\* "esrch" is what the branch at process_groups.py:168-174 is written for.
ASSUME ZombieAssumption ==
    ZombieAnswers \subseteq {"ok", "eperm", "esrch"} /\ ZombieAnswers # {}
ASSUME FlagsAssumption == OddErrors \in BOOLEAN /\ ExternalReaper \in BOOLEAN

VARIABLES
    proc,     \* proc[p]: "unborn", "live", "zombie", "gone" (reaped), "left"
    doomed,   \* processes with SIGKILL pending
    foreign   \* an unrelated group with our number: "absent", "present", "struck"

osVars == <<proc, doomed, foreign>>

OSTypeOK ==
    /\ proc \in [Procs -> {"unborn", "live", "zombie", "gone", "left"}]
    /\ doomed \subseteq Procs
    /\ foreign \in {"absent", "present", "struck"}

(***************************************************************************)
(* The group's members keep its number allocated, zombies included.        *)
(***************************************************************************)
Members == {p \in Procs : proc[p] \in {"live", "zombie"}}
LiveMembers == {p \in Procs : proc[p] = "live"}

\* Popen has returned: the leader runs its program, or has already exited.
OSInit ==
    /\ \E s \in {"live", "zombie"} :
          proc = [p \in Procs |-> IF p = Leader THEN s ELSE "unborn"]
    /\ doomed = {}
    /\ foreign = "absent"

-----------------------------------------------------------------------------
(***************************************************************************)
(* What the processes do on their own.                                     *)
(***************************************************************************)

\* A member forks. A fork with SIGKILL pending does not happen (killpg and
\* fork exclude each other in the kernel); a child of a process the caller
\* may not signal cannot be signalled either.
Fork(p, c) ==
    /\ proc[p] = "live" /\ p \notin doomed
    /\ proc[c] = "unborn"
    /\ p \in Protected => c \in Protected
    /\ proc' = [proc EXCEPT ![c] = "live"]
    /\ UNCHANGED <<doomed, foreign>>

\* A member exits, because it is done or because a signal killed it.
Exit(p) ==
    /\ proc[p] = "live"
    /\ proc' = [proc EXCEPT ![p] = "zombie"]
    /\ UNCHANGED <<doomed, foreign>>

\* A descendant is reaped by its parent, or by init once its parent is dead.
Buried(p) ==
    /\ p # Leader /\ proc[p] = "zombie"
    /\ proc' = [proc EXCEPT ![p] = "gone"]
    /\ UNCHANGED <<doomed, foreign>>

\* A descendant leaves for a session of its own; a session leader cannot.
Escape(p) ==
    /\ p # Leader /\ proc[p] = "live" /\ p \notin doomed
    /\ proc' = [proc EXCEPT ![p] = "left"]
    /\ UNCHANGED <<doomed, foreign>>

\* Another thread of the caller waits for any child and collects the leader.
ReapedElsewhere ==
    /\ ExternalReaper
    /\ proc[Leader] = "zombie"
    /\ proc' = [proc EXCEPT ![Leader] = "gone"]
    /\ UNCHANGED <<doomed, foreign>>

\* The number is given out again only when the last member is reaped.
NumberReused ==
    /\ Members = {} /\ foreign = "absent"
    /\ foreign' = "present"
    /\ UNCHANGED <<proc, doomed>>

ForeignEnds ==
    /\ foreign = "present"
    /\ foreign' = "absent"
    /\ UNCHANGED <<proc, doomed>>

OSNext ==
    \/ \E p, c \in Procs : Fork(p, c)
    \/ \E p \in Procs : Exit(p) \/ Buried(p) \/ Escape(p)
    \/ ReapedElsewhere
    \/ NumberReused
    \/ ForeignEnds

-----------------------------------------------------------------------------
(***************************************************************************)
(* The answers of the system calls.                                        *)
(***************************************************************************)

\* killpg(pgid, 0) and the errno of killpg(pgid, sig): success needs a member
\* the caller may signal, EPERM says there are members but none of them is.
GroupAnswers ==
    CASE LiveMembers \ Protected # {} -> {"ok"}
      [] LiveMembers = {} /\ Members \ Protected # {} -> ZombieAnswers
      [] LiveMembers # {} /\ LiveMembers \subseteq Protected
         /\ Members \ Protected # {} -> {"ok", "eperm"}
      [] Members # {} /\ Members \subseteq Protected -> {"eperm"}
      [] Members = {} /\ foreign = "absent" -> {"esrch"}
      [] OTHER -> {"ok", "eperm"}

\* killpg(pgid, SIGKILL) that succeeded: every member the caller may signal
\* has it pending; without members it went to whoever has the number now.
KillGroupEffect ==
    /\ doomed' = doomed \cup (LiveMembers \ Protected)
    /\ foreign' = IF Members = {} THEN "struck" ELSE foreign
    /\ UNCHANGED proc

\* The same for a signal the members may ignore or handle.
TermGroupEffect ==
    /\ foreign' = IF Members = {} THEN "struck" ELSE foreign
    /\ UNCHANGED <<proc, doomed>>

\* waitid(P_PID, leader, WEXITED | WNOHANG | WNOWAIT), and waitpid(WNOHANG)
\* before its effect: "running", "exited", or "echild" for a leader that
\* somebody else has reaped.
WaitAnswer ==
    CASE proc[Leader] = "live"   -> "running"
      [] proc[Leader] = "zombie" -> "exited"
      [] OTHER                   -> "echild"
=============================================================================
