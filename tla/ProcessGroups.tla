--------------------------- MODULE ProcessGroups ---------------------------
(***************************************************************************)
(* terminate_and_reap of sacrysty_runtime/process_groups.py, step by step, *)
(* against the process group of PosixGroup.  Every system call is a step   *)
(* of its own, so the group's processes, the kernel's answers and the      *)
(* deadlines interleave with the cleanup wherever they can in the code.    *)
(* The texts of the errors are left out; the class of the error is kept.   *)
(***************************************************************************)
EXTENDS PosixGroup, Sequences

CONSTANT Steps  \* the caller's SignalSteps: records [sig, grace], in order

\* Lines 30-31 and 202-205 refuse other arguments; both callers (fido_custody.py
\* :145 and sq_evidence_process.py:224-227) end with SIGKILL.
ASSUME StepsAssumption ==
    /\ Steps \in Seq([sig : {"TERM", "KILL"}, grace : BOOLEAN])
    /\ Len(Steps) > 0
    /\ Steps[Len(Steps)].sig = "KILL"

VARIABLES
    pc,             \* the next system call, see Locations
    step,           \* index of the current SignalStep
    exitedAtEntry,  \* leader_already_exited
    returncode,     \* Popen.returncode: "none", the leader's "status", or
                    \* "assumed": the 0 that Popen stores after ECHILD
    expired,        \* the deadline of the current wait has passed
    outcome         \* how the call ended

vars == <<proc, doomed, foreign, pc, step, exitedAtEntry, returncode, expired,
          outcome>>
cleanerVars == <<pc, step, exitedAtEntry, returncode, expired, outcome>>

Locations ==
    {"entry", "signal", "denied", "absent", "grace", "bury",
     "failPoll", "failSend", "failReap",
     "reap", "killPoll", "killSend", "reapAgain", "probe", "deadline", "done"}

\* "ok": returned; "lost": ProcessGroupOwnershipLost; "failed" and
\* "statusFailed": ProcessGroupError, the latter from the leader status check.
Outcomes == {"none", "ok", "lost", "failed", "statusFailed"}

\* The places that wait until a deadline.
Windows == {"grace", "bury", "failReap", "reap", "reapAgain", "probe",
            "deadline"}
FailPath == {"failPoll", "failSend", "failReap"}

Init ==
    /\ OSInit
    /\ pc = "entry" /\ step = 1
    /\ exitedAtEntry = FALSE
    /\ returncode = "none"
    /\ expired = FALSE
    /\ outcome = "none"

-----------------------------------------------------------------------------
Finish(o) ==
    /\ pc' = "done" /\ outcome' = o
    /\ UNCHANGED expired

GoTo(l) ==
    /\ pc' = l
    /\ expired' = IF l \in Windows /\ l # "deadline" THEN FALSE ELSE expired
    /\ UNCHANGED outcome

\* Time passes: the deadline of a wait may be reached at any moment.
Expire ==
    /\ pc \in Windows /\ ~expired
    /\ expired' = TRUE
    /\ UNCHANGED <<osVars, pc, step, exitedAtEntry, returncode, outcome>>

\* leader_exited_unreaped: the leader's status without reaping it.
LeaderStatus ==
    IF returncode # "none" THEN {"lost"}
    ELSE {IF WaitAnswer = "echild" THEN "lost" ELSE WaitAnswer}
         \cup (IF OddErrors THEN {"error"} ELSE {})

\* What a failed status check makes of the whole call.
StatusFailure(s) ==
    /\ s \in {"lost", "error"}
    /\ Finish(IF s = "lost" THEN "lost" ELSE "statusFailed")

\* waitpid(WNOHANG) inside Popen.wait and Popen.poll, when it ends the wait:
\* ECHILD is swallowed there and stored as exit status 0.
Collect ==
    /\ WaitAnswer # "running"
    /\ returncode' = IF WaitAnswer = "exited" THEN "status" ELSE "assumed"
    /\ proc' = [proc EXCEPT ![Leader] = "gone"]
    /\ UNCHANGED <<doomed, foreign>>

\* Popen.wait(timeout): returns at once with a known status, else collects the
\* leader, else gives up after the deadline (the leader may still exit between
\* the last waitpid and the deadline check).
Waited ==
    \/ returncode # "none" /\ UNCHANGED <<osVars, returncode>>
    \/ returncode = "none" /\ Collect
WaitTimedOut ==
    /\ returncode = "none" /\ expired
    /\ UNCHANGED <<osVars, returncode>>

\* Popen.kill begins with Popen.poll, which reaps an exited leader; with a
\* status known no signal is sent.
PollBeforeKill(send, skip) ==
    \/ Waited /\ GoTo(skip)
    \/ /\ returncode = "none" /\ WaitAnswer = "running"
       /\ GoTo(send) /\ UNCHANGED <<osVars, returncode>>

\* kill(pid, SIGKILL): EPERM for a leader the caller may not signal; a leader
\* reaped meanwhile leaves the number to nobody (ESRCH) or to somebody else.
KillDenied ==
    /\ Leader \in Protected /\ proc[Leader] # "gone"
    /\ UNCHANGED osVars
KillSent ==
    /\ Leader \notin Protected \/ proc[Leader] = "gone"
    /\ doomed' = doomed \cup ({Leader} \cap LiveMembers)
    /\ foreign' = IF proc[Leader] = "gone" /\ foreign = "present"
                  THEN "struck" ELSE foreign
    /\ UNCHANGED proc

-----------------------------------------------------------------------------
\* Faulty variants of the definitions below, named Wrong..., are what the
\* properties are tested against.  A dead leader needs no signals:
WrongEntrySkipsSignals ==
    /\ pc = "entry"
    /\ \E s \in LeaderStatus :
          \/ StatusFailure(s) /\ UNCHANGED exitedAtEntry
          \/ /\ s \in {"running", "exited"}
             /\ exitedAtEntry' = (s = "exited")
             /\ GoTo(IF s = "exited" THEN "reap" ELSE "signal")
    /\ UNCHANGED <<osVars, step, returncode>>

\* Line 207: the leader's status is sampled once, before any signal.
Entry ==
    /\ pc = "entry"
    /\ \E s \in LeaderStatus :
          \/ StatusFailure(s) /\ UNCHANGED exitedAtEntry
          \/ /\ s \in {"running", "exited"}
             /\ exitedAtEntry' = (s = "exited")
             /\ GoTo("signal")
    /\ UNCHANGED <<osVars, step, returncode>>

\* killpg with an unexpected errno, besides the kernel's regular answers.
KillpgAnswers == GroupAnswers \cup (IF OddErrors THEN {"error"} ELSE {})

\* Off by one at the last step.
WrongAfterSignal ==
    IF Steps[step].grace /\ ~exitedAtEntry THEN "grace"
    ELSE IF step > Len(Steps) THEN "reap" ELSE "signal"

AfterSignal ==
    IF Steps[step].grace /\ ~exitedAtEntry THEN "grace"
    ELSE IF step = Len(Steps) THEN "reap" ELSE "signal"

\* Lines 156-167 and 208-217: one nonzero group signal.
Signal ==
    /\ pc = "signal"
    /\ \E a \in KillpgAnswers :
          \/ /\ a = "ok"
             /\ IF Steps[step].sig = "KILL" THEN KillGroupEffect
                                            ELSE TermGroupEffect
             /\ GoTo(AfterSignal)
             /\ step' = IF AfterSignal = "signal" THEN step + 1 ELSE step
          \/ /\ a # "ok"
             /\ GoTo(CASE a = "eperm" -> "denied" [] a = "esrch" -> "absent"
                       [] OTHER -> "failPoll")
             /\ UNCHANGED <<osVars, step>>
    /\ UNCHANGED <<exitedAtEntry, returncode>>

\* Lines 161-167 (EPERM) and 168-184 (ESRCH): only an exited leader may be
\* reaped without the remaining signals.  (No kernel answers ESRCH for the
\* group of a running leader; the branch of lines 175-184 guards against it.)
ExitedDenial ==
    /\ pc \in {"denied", "absent"}
    /\ \E s \in LeaderStatus :
          \/ StatusFailure(s)
          \/ s = "exited" /\ GoTo("bury")
          \/ s = "running" /\ GoTo("failPoll")
    /\ UNCHANGED <<osVars, step, exitedAtEntry, returncode>>

\* Lines 216-222: the grace period is slept through to its end.
Grace ==
    /\ pc = "grace" /\ expired
    /\ IF step = Len(Steps) THEN GoTo("reap") /\ UNCHANGED step
       ELSE GoTo("signal") /\ step' = step + 1
    /\ UNCHANGED <<osVars, exitedAtEntry, returncode>>

\* The exited leader is reaped and the remaining signals are sent after it.
WrongBuryThenSignal ==
    /\ pc = "bury"
    /\ \/ Waited /\ GoTo("signal")
       \/ WaitTimedOut /\ Finish("failed")
    /\ UNCHANGED <<step, exitedAtEntry>>

\* Lines 164-166 and 172-174: reap the exited leader, then look for absence.
Bury ==
    /\ pc = "bury"
    /\ \/ Waited /\ GoTo("probe")
       \/ WaitTimedOut /\ Finish("failed")
    /\ UNCHANGED <<step, exitedAtEntry>>

\* The failure path waits for the leader without killing it.
WrongFailWithoutKill ==
    /\ pc = "failPoll"
    /\ GoTo("failReap")
    /\ UNCHANGED <<osVars, returncode, step, exitedAtEntry>>

\* _fail_after_group_signal_error: kill and reap the leader, raise regardless.
FailPoll ==
    /\ pc = "failPoll"
    /\ PollBeforeKill("failSend", "failReap")
    /\ UNCHANGED <<step, exitedAtEntry>>

FailSend ==
    /\ pc = "failSend"
    /\ KillDenied \/ KillSent
    /\ GoTo("failReap")
    /\ UNCHANGED <<step, exitedAtEntry, returncode>>

FailReap ==
    /\ pc = "failReap"
    /\ Waited \/ WaitTimedOut
    /\ Finish("failed")
    /\ UNCHANGED <<step, exitedAtEntry>>

\* Lines 224-226: after the last step the leader is reaped.
ReapLeader ==
    /\ pc = "reap"
    /\ \/ Waited /\ GoTo("probe")
       \/ WaitTimedOut /\ GoTo("killPoll")
    /\ UNCHANGED <<step, exitedAtEntry>>

\* Lines 227-234: a leader that did not die is killed by its handle.
KillPoll ==
    /\ pc = "killPoll"
    /\ PollBeforeKill("killSend", "reapAgain")
    /\ UNCHANGED <<step, exitedAtEntry>>

KillSend ==
    /\ pc = "killSend"
    /\ \/ KillDenied /\ Finish("failed")
       \/ KillSent /\ GoTo("reapAgain")
    /\ UNCHANGED <<step, exitedAtEntry, returncode>>

\* Lines 235-238.
ReapAgain ==
    /\ pc = "reapAgain"
    /\ \/ Waited /\ GoTo("probe")
       \/ WaitTimedOut /\ Finish("failed")
    /\ UNCHANGED <<step, exitedAtEntry>>

\* A denied probe is taken for absence.
WrongProbeDenialIsAbsence ==
    /\ pc = "probe"
    /\ \E a \in KillpgAnswers :
          \/ a \in {"esrch", "eperm"} /\ Finish("ok")
          \/ a = "error" /\ Finish("failed")
          \/ a = "ok" /\ pc' = "deadline" /\ UNCHANGED <<expired, outcome>>
    /\ UNCHANGED <<osVars, step, exitedAtEntry, returncode>>

\* Lines 91-105: a denial is not absence, and only ESRCH is. The probe after
\* the reap has nobody to protect: any member or stranger answers it.
Probe ==
    /\ pc = "probe"
    /\ \E a \in KillpgAnswers :
          \/ a = "esrch" /\ Finish("ok")
          \/ a = "error" /\ Finish("failed")
          \/ a \in {"ok", "eperm"} /\ pc' = "deadline"
             /\ UNCHANGED <<expired, outcome>>
    /\ UNCHANGED <<osVars, step, exitedAtEntry, returncode>>

\* The probes go on after the deadline.
WrongDeadlineIgnored ==
    /\ pc = "deadline"
    /\ pc' = "probe" /\ UNCHANGED <<expired, outcome>>
    /\ UNCHANGED <<osVars, step, exitedAtEntry, returncode>>

\* Lines 106-111.
Deadline ==
    /\ pc = "deadline"
    /\ IF expired THEN Finish("failed")
       ELSE pc' = "probe" /\ UNCHANGED <<expired, outcome>>
    /\ UNCHANGED <<osVars, step, exitedAtEntry, returncode>>

CleanerNext ==
    \/ Entry \/ Signal \/ ExitedDenial \/ Grace \/ Bury
    \/ FailPoll \/ FailSend \/ FailReap
    \/ ReapLeader \/ KillPoll \/ KillSend \/ ReapAgain
    \/ Probe \/ Deadline

Next ==
    \/ CleanerNext
    \/ Expire
    \/ OSNext /\ UNCHANGED cleanerVars

\* The caller's thread keeps running, deadlines pass, and the kernel ends a
\* process whose SIGKILL is pending.
Fairness ==
    /\ WF_vars(CleanerNext)
    /\ WF_vars(Expire)
    /\ WF_vars(\E p \in doomed : Exit(p) /\ UNCHANGED cleanerVars)

Spec == Init /\ [][Next]_vars /\ Fairness

-----------------------------------------------------------------------------
TypeOK ==
    /\ OSTypeOK
    /\ pc \in Locations
    /\ step \in 1..Len(Steps)
    /\ exitedAtEntry \in BOOLEAN
    /\ returncode \in {"none", "status", "assumed"}
    /\ expired \in BOOLEAN
    /\ outcome \in Outcomes

\* Every ordinary live member has SIGKILL pending: it cannot fork, and its
\* end needs no further signal.
Covered == \A p \in LiveMembers : p \in doomed \cup Protected

\* terminate_and_reap returns only after the owner has reaped the leader and
\* when no process of the group is alive, whatever the processes, the kernel
\* and the deadlines did meanwhile (process_groups.py:197-199).
SuccessMeansAbsent ==
    outcome = "ok" =>
        /\ returncode # "none" /\ proc[Leader] = "gone"
        /\ LiveMembers = {}

\* As long as nobody else reaps the caller's children, no nonzero signal of
\* the cleanup reaches a group or process that merely got the same number
\* (process_groups.py:162-163, 197-198).
ForeignUntouched == foreign # "struck"

\* The handle stops pinning the group's number only when every ordinary live
\* member already has SIGKILL pending, on every path that does not end in an
\* error: nobody is left whom a later signal would have to reach.
KillCoversGroup ==
    returncode # "none" /\ pc \notin FailPath /\ outcome \notin {"failed"}
        => Covered

\* A call that gives up without having reaped the leader has not left it
\* running untouched: it has SIGKILL pending or refuses signals, unless
\* the very status check failed (process_groups.py:128, 226-238).
AbandonedLeaderIsDoomed ==
    /\ pc = "done" /\ returncode = "none"
    /\ outcome # "statusFailed" /\ proc[Leader] = "live"
    => Leader \in doomed \cup Protected

\* Every wait is bounded: the call ends, with a result, on every path.
Terminates == <>(pc = "done" /\ outcome # "none")

\* The refinement mapping to what callers rely on.
Promise == INSTANCE OwnedGroupCleanup WITH
    live   <- LiveMembers,
    owned  <- proc[Leader] # "gone",
    struck <- (foreign = "struck"),
    result <- IF outcome = "statusFailed" THEN "failed" ELSE outcome

\* Every behaviour of the cleanup is one that the promise allows.
KeepsPromise == Promise!Spec
=============================================================================
