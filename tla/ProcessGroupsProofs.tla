------------------------ MODULE ProcessGroupsProofs ------------------------
(***************************************************************************)
(* The safety properties of ProcessGroups, for every set of processes,     *)
(* every set the caller may not signal, every list of steps that ends with *)
(* SIGKILL and every kernel that PosixGroup describes.                     *)
(***************************************************************************)
EXTENDS ProcessGroups, TLAPS

\* The list of steps has a last one.
LEMMA StepsLength == Len(Steps) \in Nat /\ Len(Steps) >= 1
  BY StepsAssumption

(***************************************************************************)
(* Type correctness.                                                       *)
(***************************************************************************)

\* The steps of the operating system keep the types.
LEMMA OSTypes == OSTypeOK /\ OSNext => OSTypeOK'
  BY DEF OSTypeOK, OSNext, Fork, Exit, Buried, Escape, ReapedElsewhere,
         NumberReused, ForeignEnds

\* The leader's collection keeps the types.
LEMMA CollectTypes ==
  ASSUME OSTypeOK, returncode \in {"none", "status", "assumed"}, Waited
  PROVE  OSTypeOK' /\ returncode' \in {"none", "status", "assumed"}
  BY LeaderAssumption DEF OSTypeOK, Waited, Collect, osVars

\* The initial states have the types.
LEMMA InitTypes == Init => TypeOK
<1>1. Init => OSTypeOK
  BY DEF Init, OSInit, OSTypeOK
<1>2. 1 \in 1..Len(Steps)
  BY StepsLength
<1> QED BY <1>1, <1>2 DEF Init, TypeOK, Locations, Outcomes

\* Every step keeps them.
LEMMA NextTypes == TypeOK /\ [Next]_vars => TypeOK'
<1> SUFFICES ASSUME TypeOK, [Next]_vars PROVE TypeOK'
  OBVIOUS
<1> USE DEF Locations, Outcomes, Windows
<1>1. CASE OSNext /\ UNCHANGED cleanerVars
  BY <1>1, OSTypes DEF TypeOK, cleanerVars
<1>2. CASE Expire
  BY <1>2 DEF Expire, TypeOK, OSTypeOK, osVars
<1>3. CASE Entry
  BY <1>3 DEF Entry, StatusFailure, Finish, GoTo, TypeOK, OSTypeOK, osVars
<1>4. CASE Signal
  <2>1. OSTypeOK'
    BY <1>4 DEF Signal, KillGroupEffect, TermGroupEffect, TypeOK, OSTypeOK,
                LiveMembers, osVars
  <2>2. step' \in 1..Len(Steps)
    <3>1. step \in 1..Len(Steps) /\ step' \in {step, step + 1}
      BY <1>4 DEF Signal, TypeOK
    <3>2. step' = step + 1 => step # Len(Steps)
      BY <1>4, <3>1, StepsLength DEF Signal, AfterSignal
    <3> QED BY <3>1, <3>2, StepsLength
  <2>3. pc' \in Locations /\ expired' \in BOOLEAN /\ outcome' \in Outcomes
    BY <1>4 DEF Signal, AfterSignal, GoTo, TypeOK
  <2> QED BY <1>4, <2>1, <2>2, <2>3 DEF Signal, TypeOK
<1>5. CASE ExitedDenial
  BY <1>5 DEF ExitedDenial, StatusFailure, Finish, GoTo, TypeOK, OSTypeOK,
              osVars
<1>6. CASE Grace
  <2>1. step' \in 1..Len(Steps)
    <3>1. step \in 1..Len(Steps) /\ step' \in {step, step + 1}
      BY <1>6 DEF Grace, TypeOK
    <3>2. step' = step + 1 => step # Len(Steps)
      BY <1>6, <3>1, StepsLength DEF Grace
    <3> QED BY <3>1, <3>2, StepsLength
  <2>2. pc' \in Locations /\ expired' \in BOOLEAN /\ outcome' \in Outcomes
    BY <1>6 DEF Grace, GoTo, TypeOK
  <2> QED BY <1>6, <2>1, <2>2 DEF Grace, TypeOK, OSTypeOK, osVars
<1>7. CASE Bury
  BY <1>7, CollectTypes DEF Bury, WaitTimedOut, Finish, GoTo, TypeOK, OSTypeOK,
                            osVars
<1>8. CASE FailPoll
  BY <1>8, CollectTypes DEF FailPoll, PollBeforeKill, GoTo, TypeOK, OSTypeOK,
                            osVars
<1>9. CASE FailSend
  BY <1>9 DEF FailSend, KillDenied, KillSent, LiveMembers, GoTo, TypeOK,
              OSTypeOK, osVars
<1>10. CASE FailReap
  BY <1>10, CollectTypes DEF FailReap, WaitTimedOut, Finish, TypeOK, OSTypeOK,
                             osVars
<1>11. CASE ReapLeader
  BY <1>11, CollectTypes DEF ReapLeader, WaitTimedOut, GoTo, TypeOK, OSTypeOK,
                             osVars
<1>12. CASE KillPoll
  BY <1>12, CollectTypes DEF KillPoll, PollBeforeKill, GoTo, TypeOK, OSTypeOK,
                             osVars
<1>13. CASE KillSend
  BY <1>13 DEF KillSend, KillDenied, KillSent, LiveMembers, Finish, GoTo,
               TypeOK, OSTypeOK, osVars
<1>14. CASE ReapAgain
  BY <1>14, CollectTypes DEF ReapAgain, WaitTimedOut, Finish, GoTo, TypeOK,
                             OSTypeOK, osVars
<1>15. CASE Probe
  BY <1>15 DEF Probe, Finish, TypeOK, OSTypeOK, osVars
<1>16. CASE Deadline
  BY <1>16 DEF Deadline, Finish, TypeOK, OSTypeOK, osVars
<1>17. CASE UNCHANGED vars
  BY <1>17 DEF vars, TypeOK, OSTypeOK
<1> QED
  BY <1>1, <1>2, <1>3, <1>4, <1>5, <1>6, <1>7, <1>8, <1>9, <1>10, <1>11,
     <1>12, <1>13, <1>14, <1>15, <1>16, <1>17 DEF Next, CleanerNext

\* terminate_and_reap stays within its types: the step index never leaves the
\* caller's list, and every place, status and outcome is a listed one.
THEOREM TypeCorrect == Spec => []TypeOK
  BY InitTypes, NextTypes, PTL DEF Spec

-----------------------------------------------------------------------------
(***************************************************************************)
(* What the operating system cannot take back.                             *)
(***************************************************************************)

\* The processes' own steps keep a covered group covered, keep an empty group
\* empty, and never bring a leader that has exited or been reaped back.
LEMMA OSStable ==
  ASSUME OSTypeOK, OSNext, proc[Leader] \notin {"unborn", "left"}
  PROVE  /\ Covered => Covered'
         /\ LiveMembers = {} => LiveMembers' = {}
         /\ proc'[Leader] \notin {"unborn", "left"}
         /\ proc[Leader] # "live" => proc'[Leader] # "live"
         /\ proc[Leader] = "gone" => proc'[Leader] = "gone"
         /\ doomed' = doomed
<1> USE LeaderAssumption DEF OSTypeOK, Covered, LiveMembers
<1>1. CASE \E p, c \in Procs : Fork(p, c)
  BY <1>1 DEF Fork
<1>2. CASE \E p \in Procs : Exit(p) \/ Buried(p) \/ Escape(p)
  BY <1>2 DEF Exit, Buried, Escape
<1>3. CASE ReapedElsewhere
  BY <1>3 DEF ReapedElsewhere
<1>4. CASE NumberReused \/ ForeignEnds
  BY <1>4 DEF NumberReused, ForeignEnds
<1> QED BY <1>1, <1>2, <1>3, <1>4 DEF OSNext

\* An errno of killpg other than success says that no member the caller may
\* signal is alive, and ESRCH that no member at all is.
LEMMA GroupAnswersMean ==
  ASSUME OSTypeOK
  PROVE  /\ "esrch" \in GroupAnswers => LiveMembers = {}
         /\ "eperm" \in GroupAnswers => LiveMembers \subseteq Protected
  BY ZombieAssumption DEF GroupAnswers, LiveMembers, Members, OSTypeOK

\* The leader's collection disturbs nobody else.
LEMMA CollectStable ==
  ASSUME OSTypeOK, Collect
  PROVE  /\ Covered => Covered'
         /\ LiveMembers' = LiveMembers
         /\ proc'[Leader] = "gone" /\ returncode' # "none"
         /\ doomed' = doomed
  BY LeaderAssumption
     DEF OSTypeOK, Covered, LiveMembers, Collect, WaitAnswer

-----------------------------------------------------------------------------
(***************************************************************************)
(* The inductive invariant.  The properties speak of the end of the call;  *)
(* they hold because of what is known at each place before it.             *)
(***************************************************************************)

\* Places where the handle has not been waited on yet.
Unreaped == {"entry", "signal", "grace", "denied", "absent", "failSend",
             "killSend"}
\* Places only reached after SIGKILL, or after an errno that makes it needless.
CoveredPlaces == {"denied", "absent", "bury", "reap", "killPoll", "killSend",
                  "reapAgain", "probe", "deadline"}

\* The handle's status and the leader's agree.
HandleInv ==
    /\ proc[Leader] \notin {"unborn", "left"}
    /\ returncode # "none" => proc[Leader] = "gone"
    /\ pc \in Unreaped => returncode = "none"
    /\ pc \in {"probe", "deadline"} => returncode # "none"
    /\ pc = "bury" => proc[Leader] # "live"

CoverInv ==
    /\ pc \in CoveredPlaces => Covered
    /\ pc = "grace" /\ step = Len(Steps) => Covered

\* A leader given up on is dead, dying or out of reach.
LeaderDone == proc[Leader] = "live" => Leader \in doomed \cup Protected

ResultInv ==
    /\ outcome = "none" <=> pc # "done"
    /\ outcome = "ok" => returncode # "none" /\ LiveMembers = {}
    /\ outcome \in {"lost", "statusFailed"} => returncode = "none"
    /\ outcome = "lost" => proc[Leader] # "live"
    /\ outcome = "failed" \/ pc = "failReap" => LeaderDone

CleanupInv == TypeOK /\ HandleInv /\ CoverInv /\ ResultInv

\* The invariant holds when terminate_and_reap is called.
LEMMA CleanupInit == Init => CleanupInv
<1> SUFFICES ASSUME Init PROVE CleanupInv
  OBVIOUS
<1>1. TypeOK
  BY InitTypes
<1>2. HandleInv
  BY LeaderAssumption DEF Init, OSInit, HandleInv, Unreaped
<1>3. CoverInv /\ ResultInv
  BY DEF Init, CoverInv, CoveredPlaces, ResultInv
<1> QED BY <1>1, <1>2, <1>3 DEF CleanupInv

\* The processes' own steps preserve it at every place of the cleanup.
LEMMA CleanupOS ==
  ASSUME CleanupInv, OSNext, UNCHANGED cleanerVars
  PROVE  HandleInv' /\ CoverInv' /\ ResultInv'
<1>1. OSTypeOK /\ proc[Leader] \notin {"unborn", "left"}
  BY DEF CleanupInv, TypeOK, HandleInv
<1>2. HandleInv'
  BY <1>1, OSStable DEF CleanupInv, HandleInv, cleanerVars
<1>3. CoverInv'
  BY <1>1, OSStable DEF CleanupInv, CoverInv, cleanerVars
<1>4. ResultInv'
  BY <1>1, OSStable DEF CleanupInv, ResultInv, LeaderDone, cleanerVars
<1> QED BY <1>2, <1>3, <1>4

\* A nonzero group signal: SIGKILL, or an errno, covers the group.
LEMMA CleanupSignal ==
  ASSUME CleanupInv, Signal
  PROVE  HandleInv' /\ CoverInv' /\ ResultInv'
<1> USE DEF CleanupInv
<1>1. PICK a \in KillpgAnswers :
          \/ /\ a = "ok"
             /\ IF Steps[step].sig = "KILL" THEN KillGroupEffect
                                            ELSE TermGroupEffect
             /\ GoTo(AfterSignal)
             /\ step' = IF AfterSignal = "signal" THEN step + 1 ELSE step
          \/ /\ a # "ok"
             /\ GoTo(CASE a = "eperm" -> "denied" [] a = "esrch" -> "absent"
                       [] OTHER -> "failPoll")
             /\ UNCHANGED <<osVars, step>>
  BY DEF Signal
<1>2. /\ pc = "signal" /\ proc' = proc /\ UNCHANGED <<exitedAtEntry, returncode>>
      /\ outcome' = outcome
      /\ returncode = "none" /\ outcome = "none"
  BY <1>1 DEF Signal, KillGroupEffect, TermGroupEffect, GoTo, osVars, HandleInv,
              Unreaped, ResultInv
<1>3. pc' \in {"grace", "reap", "signal", "denied", "absent", "failPoll"}
  BY <1>1 DEF GoTo, AfterSignal
<1>4. HandleInv'
  BY <1>2, <1>3 DEF HandleInv
<1>5. ResultInv'
  BY <1>2, <1>3 DEF ResultInv
<1>6. CoverInv'
  <2>1. CASE a = "ok"
    <3>1. Steps[step].sig = "KILL" => Covered'
      BY <1>1, <1>2, <2>1 DEF KillGroupEffect, Covered, LiveMembers
    <3>2. pc' = AfterSignal /\ pc' \in {"grace", "reap", "signal"}
      BY <1>1, <2>1 DEF GoTo, AfterSignal
    <3>3. pc' # "signal" => step' = step
      BY <1>1, <2>1, <3>2
    <3>4. pc' = "reap" => step = Len(Steps)
      BY <3>2 DEF AfterSignal
    <3>5. pc' = "reap" \/ (pc' = "grace" /\ step' = Len(Steps)) => Covered'
      BY <3>1, <3>3, <3>4, StepsAssumption
    <3> QED BY <3>2, <3>5 DEF CoverInv, CoveredPlaces
  <2>2. CASE a # "ok"
    <3>1. a \in {"eperm", "esrch", "error"} /\ (a # "error" => a \in GroupAnswers)
      BY <2>2, ZombieAssumption DEF KillpgAnswers, GroupAnswers
    <3>2. a # "error" => LiveMembers \subseteq Protected
      BY <3>1, GroupAnswersMean DEF TypeOK
    <3>3. doomed' = doomed /\ pc' \in {"denied", "absent", "failPoll"}
      BY <1>1, <2>2 DEF GoTo, osVars
    <3>4. a = "error" => pc' = "failPoll"
      BY <1>1, <2>2 DEF GoTo
    <3> QED BY <1>2, <3>1, <3>2, <3>3, <3>4
            DEF CoverInv, CoveredPlaces, Covered, LiveMembers
  <2> QED BY <2>1, <2>2
<1> QED BY <1>4, <1>5, <1>6

\* Popen.wait: when it returns, the handle has a status and the leader is gone.
LEMMA WaitedMeans ==
  ASSUME TypeOK, HandleInv, Waited
  PROVE  /\ Covered => Covered'
         /\ LiveMembers' = LiveMembers
         /\ proc'[Leader] = "gone" /\ returncode' # "none"
<1>1. CASE returncode # "none" /\ UNCHANGED <<osVars, returncode>>
  BY <1>1 DEF osVars, Covered, LiveMembers, HandleInv
<1>2. CASE Collect
  BY <1>2, CollectStable DEF TypeOK
<1> QED BY <1>1, <1>2 DEF Waited

\* The places that send nothing: the status checks, the sleeps, the probes.
LEMMA CleanupQuiet ==
  ASSUME CleanupInv, Expire \/ Entry \/ ExitedDenial \/ Grace \/ Probe \/ Deadline
  PROVE  HandleInv' /\ CoverInv' /\ ResultInv'
<1> USE DEF CleanupInv, HandleInv, Unreaped, CoverInv, CoveredPlaces, ResultInv
<1>1. UNCHANGED <<osVars, returncode>>
  BY DEF Expire, Entry, ExitedDenial, Grace, Probe, Deadline
<1>2. /\ Covered' = Covered /\ LiveMembers' = LiveMembers
      /\ LeaderDone' = LeaderDone
  BY <1>1 DEF osVars, Covered, LiveMembers, LeaderDone
<1>3. CASE Expire
  BY <1>1, <1>2, <1>3 DEF Expire, osVars
<1>4. CASE Entry
  BY <1>1, <1>2, <1>4
     DEF Entry, LeaderStatus, WaitAnswer, StatusFailure, Finish, GoTo, osVars
<1>5. CASE ExitedDenial
  BY <1>1, <1>2, <1>5
     DEF ExitedDenial, LeaderStatus, WaitAnswer, StatusFailure, Finish, GoTo,
         osVars
<1>6. CASE Grace
  BY <1>1, <1>2, <1>6 DEF Grace, GoTo, osVars
<1>7. CASE Probe
  <2>1. "esrch" \in KillpgAnswers => LiveMembers = {}
    BY GroupAnswersMean DEF KillpgAnswers, TypeOK
  <2> QED BY <1>1, <1>2, <1>7, <2>1 DEF Probe, Finish, LeaderDone, osVars
<1>8. CASE Deadline
  BY <1>1, <1>2, <1>8 DEF Deadline, Finish, LeaderDone, osVars
<1> QED BY <1>3, <1>4, <1>5, <1>6, <1>7, <1>8

\* The places that wait for the leader.
LEMMA CleanupReap ==
  ASSUME CleanupInv, Bury \/ FailReap \/ ReapLeader \/ ReapAgain
  PROVE  HandleInv' /\ CoverInv' /\ ResultInv'
<1> USE DEF CleanupInv, HandleInv, Unreaped, CoverInv, CoveredPlaces, ResultInv
<1>1. Waited \/ WaitTimedOut
  BY DEF Bury, FailReap, ReapLeader, ReapAgain
<1>2. CASE Waited /\ ~ WaitTimedOut
  <2>1. /\ Covered => Covered'
        /\ LiveMembers' = LiveMembers
        /\ proc'[Leader] = "gone" /\ returncode' # "none"
    BY <1>2, WaitedMeans
  <2> QED BY <1>2, <2>1
          DEF Bury, FailReap, ReapLeader, ReapAgain, GoTo, Finish, LeaderDone
<1>3. CASE WaitTimedOut
  <2>0. CASE UNCHANGED <<osVars, returncode>>
    <3>1. /\ Covered' = Covered /\ LiveMembers' = LiveMembers
          /\ LeaderDone' = LeaderDone /\ returncode' = "none"
          /\ proc' = proc /\ returncode = "none"
      BY <1>3, <2>0 DEF WaitTimedOut, osVars, Covered, LiveMembers, LeaderDone
    <3>2. LeaderDone
      BY LeaderAssumption
         DEF Bury, FailReap, ReapLeader, ReapAgain, Covered, LiveMembers, LeaderDone
    <3>3. ~ Waited
      BY <3>1, WaitedMeans
    <3> QED BY <3>1, <3>2, <3>3
            DEF Bury, FailReap, ReapLeader, ReapAgain, GoTo, Finish
  <2> QED BY <1>3, <2>0 DEF WaitTimedOut
<1> QED BY <1>1, <1>2, <1>3

\* Popen.kill: first its poll, then the signal to the leader alone.
LEMMA CleanupKill ==
  ASSUME CleanupInv, FailPoll \/ KillPoll \/ FailSend \/ KillSend
  PROVE  HandleInv' /\ CoverInv' /\ ResultInv'
<1> USE DEF CleanupInv, HandleInv, Unreaped, CoverInv, CoveredPlaces, ResultInv
<1>1. CASE (FailPoll \/ KillPoll) /\ Waited
  <2>1. /\ Covered => Covered'
        /\ LiveMembers' = LiveMembers
        /\ proc'[Leader] = "gone" /\ returncode' # "none"
    BY <1>1, WaitedMeans
  <2> QED BY <1>1, <2>1 DEF FailPoll, KillPoll, PollBeforeKill, GoTo, LeaderDone
<1>2. CASE (FailPoll \/ KillPoll) /\ ~ Waited
  <2>1. /\ UNCHANGED <<osVars, returncode>> /\ returncode = "none"
        /\ WaitAnswer = "running"
    BY <1>2 DEF FailPoll, KillPoll, PollBeforeKill
  <2>2. Covered' = Covered
    BY <2>1 DEF osVars, Covered, LiveMembers
  <2> QED BY <1>2, <2>1, <2>2 DEF FailPoll, KillPoll, PollBeforeKill, GoTo, osVars
<1>3. CASE FailSend \/ KillSend
  <2>1. KillDenied \/ KillSent
    BY <1>3 DEF FailSend, KillSend
  <2>2. proc' = proc /\ returncode' = returncode /\ (Covered => Covered')
    BY <1>3, <2>1
       DEF FailSend, KillSend, KillDenied, KillSent, osVars, Covered, LiveMembers
  <2>3. LeaderDone'
    BY <2>1, LeaderAssumption DEF KillDenied, KillSent, LeaderDone, osVars, LiveMembers
  <2> QED BY <1>3, <2>2, <2>3 DEF FailSend, KillSend, GoTo, Finish
<1> QED BY <1>1, <1>2, <1>3

\* The invariant of the cleanup is inductive.
LEMMA CleanupNext == CleanupInv /\ [Next]_vars => CleanupInv'
<1> SUFFICES ASSUME CleanupInv, [Next]_vars PROVE CleanupInv'
  OBVIOUS
<1>1. TypeOK'
  BY NextTypes DEF CleanupInv
<1>2. HandleInv' /\ CoverInv' /\ ResultInv'
  <2>1. CASE UNCHANGED vars
    BY <2>1
       DEF vars, CleanupInv, HandleInv, CoverInv, ResultInv, Covered, LiveMembers,
           LeaderDone
  <2> QED BY <2>1, CleanupOS, CleanupSignal, CleanupQuiet, CleanupReap, CleanupKill
          DEF Next, CleanerNext
<1> QED BY <1>1, <1>2 DEF CleanupInv

\* Hence it holds throughout.
LEMMA CleanupAlways == Spec => []CleanupInv
  BY CleanupInit, CleanupNext, PTL DEF Spec

-----------------------------------------------------------------------------
\* A call that returns has seen the group end: the leader reaped by its owner
\* and no member alive (terminate_and_reap, process_groups.py:188-239).
THEOREM SuccessMeansAbsentHolds == Spec => []SuccessMeansAbsent
<1>1. CleanupInv => SuccessMeansAbsent
  BY DEF CleanupInv, HandleInv, ResultInv, SuccessMeansAbsent
<1> QED BY <1>1, CleanupAlways, PTL

\* On every path without an error the leader is reaped, and the number of the
\* group given up, only after SIGKILL has reached whatever it can reach.
THEOREM KillCoversGroupHolds == Spec => []KillCoversGroup
<1>1. CleanupInv => KillCoversGroup
  <2> SUFFICES ASSUME CleanupInv, returncode # "none", pc \notin FailPath,
                      outcome \notin {"failed"}
               PROVE  Covered
    BY DEF KillCoversGroup
  <2> USE DEF CleanupInv, ResultInv
  <2>1. CASE pc = "done"
    BY <2>1 DEF TypeOK, Outcomes, Covered
  <2>2. CASE pc # "done"
    <3>1. pc \in CoveredPlaces
      BY <2>2 DEF TypeOK, Locations, FailPath, HandleInv, Unreaped, CoveredPlaces
    <3> QED BY <3>1 DEF CoverInv
  <2> QED BY <2>1, <2>2
<1> QED BY <1>1, CleanupAlways, PTL

\* A call that gives up on the leader leaves it dead, with SIGKILL pending, or
\* out of the caller's reach.
THEOREM AbandonedLeaderIsDoomedHolds == Spec => []AbandonedLeaderIsDoomed
<1>1. CleanupInv => AbandonedLeaderIsDoomed
  BY DEF CleanupInv, HandleInv, ResultInv, LeaderDone, TypeOK, Outcomes,
         AbandonedLeaderIsDoomed
<1> QED BY <1>1, CleanupAlways, PTL

-----------------------------------------------------------------------------
(***************************************************************************)
(* Nobody else is ever signalled, when only the owner reaps the leader:    *)
(* until it does, the leader itself keeps the number allocated.            *)
(***************************************************************************)
NumberInv ==
    /\ returncode = "none" => proc[Leader] \in {"live", "zombie"}
    /\ foreign = "present" => Members = {}
    /\ foreign # "struck"

\* The processes' own steps keep the number pinned by the leader.
LEMMA NumberOS ==
  ASSUME ~ExternalReaper, CleanupInv, NumberInv, OSNext, UNCHANGED cleanerVars
  PROVE  NumberInv'
<1> USE LeaderAssumption
        DEF CleanupInv, TypeOK, OSTypeOK, NumberInv, Members, cleanerVars
<1>1. CASE \E p, c \in Procs : Fork(p, c)
  BY <1>1 DEF Fork
<1>2. CASE \E p \in Procs : Exit(p) \/ Buried(p) \/ Escape(p)
  BY <1>2 DEF Exit, Buried, Escape
<1>3. CASE ReapedElsewhere
  BY <1>3 DEF ReapedElsewhere
<1>4. CASE NumberReused \/ ForeignEnds
  BY <1>4 DEF NumberReused, ForeignEnds
<1> QED BY <1>1, <1>2, <1>3, <1>4 DEF OSNext

\* The owner's steps signal only while the leader is a member.
LEMMA NumberCleaner ==
  ASSUME ~ExternalReaper, CleanupInv, NumberInv, CleanerNext \/ Expire
  PROVE  NumberInv'
<1> USE LeaderAssumption DEF CleanupInv, HandleInv, NumberInv
<1>1. CASE UNCHANGED <<osVars, returncode>>
  BY <1>1 DEF osVars, Members
<1>2. CASE Waited
  <2>1. returncode' # "none" /\ foreign' = foreign
    BY <1>2, WaitedMeans DEF Waited, Collect, osVars
  <2>2. Members = {} => Members' = {}
    BY <1>2 DEF Waited, Collect, osVars, Members, TypeOK, OSTypeOK
  <2> QED BY <2>1, <2>2
<1>3. CASE Signal
  <2>1. returncode = "none" /\ Leader \in Members
    BY <1>3 DEF Signal, Unreaped, Members
  <2>2. proc' = proc /\ foreign' = foreign /\ returncode' = returncode
    BY <1>3, <2>1 DEF Signal, KillGroupEffect, TermGroupEffect, osVars
  <2> QED BY <2>1, <2>2 DEF Members
<1>4. CASE FailSend \/ KillSend
  <2>1. returncode = "none" /\ proc[Leader] # "gone"
    BY <1>4 DEF FailSend, KillSend, Unreaped
  <2>2. proc' = proc /\ foreign' = foreign /\ returncode' = returncode
    BY <1>4, <2>1 DEF FailSend, KillSend, KillDenied, KillSent, osVars
  <2> QED BY <2>1, <2>2 DEF Members
<1> QED BY <1>1, <1>2, <1>3, <1>4
        DEF CleanerNext, Expire, Entry, ExitedDenial, Grace, Bury, FailPoll,
            FailReap, ReapLeader, KillPoll, ReapAgain, Probe, Deadline,
            WaitTimedOut, PollBeforeKill

\* The number stays pinned until the owner reaps the leader.
LEMMA NumberAlways == ~ExternalReaper => (Spec => []NumberInv)
<1> SUFFICES ASSUME ~ExternalReaper PROVE Spec => []NumberInv
  OBVIOUS
<1>1. Init => NumberInv
  BY LeaderAssumption DEF Init, OSInit, NumberInv
<1>2. CleanupInv /\ NumberInv /\ [Next]_vars => NumberInv'
  <2> SUFFICES ASSUME CleanupInv, NumberInv, [Next]_vars
               PROVE  NumberInv'
    OBVIOUS
  <2>1. CASE UNCHANGED vars
    BY <2>1 DEF vars, NumberInv, Members
  <2> QED BY <2>1, NumberOS, NumberCleaner DEF Next
<1> QED BY <1>1, <1>2, CleanupAlways, PTL DEF Spec

\* No nonzero signal of the cleanup strikes a group or process that merely got
\* the number of a group that has ended (process_groups.py:197-199).
THEOREM ForeignUntouchedHolds == ~ExternalReaper => (Spec => []ForeignUntouched)
<1> SUFFICES ASSUME ~ExternalReaper PROVE Spec => []ForeignUntouched
  OBVIOUS
<1>1. NumberInv => ForeignUntouched
  BY DEF NumberInv, ForeignUntouched
<1> QED BY <1>1, NumberAlways, PTL

-----------------------------------------------------------------------------
(***************************************************************************)
(* The safety part of the promise, for callers that build on it.           *)
(***************************************************************************)

\* Initially the group is owned and nothing has been reported.
LEMMA PromiseInit == Init => Promise!Init
  BY LeaderAssumption DEF Init, OSInit, Promise!Init, LiveMembers

\* The processes' own steps are the promise's Change, or invisible.
LEMMA PromiseOS ==
  ASSUME ~ExternalReaper, CleanupInv, OSNext, UNCHANGED cleanerVars
  PROVE  [Promise!Next]_Promise!vars
<1>1. OSTypeOK /\ proc[Leader] \notin {"unborn", "left"}
  BY DEF CleanupInv, TypeOK, HandleInv
<1>2. LiveMembers = {} => LiveMembers' = {}
  BY <1>1, OSStable
<1>3. (proc[Leader] # "gone") = (proc'[Leader] # "gone")
  BY <1>1, LeaderAssumption
     DEF OSTypeOK, OSNext, Fork, Exit, Buried, Escape, ReapedElsewhere,
         NumberReused, ForeignEnds
<1>4. (foreign = "struck") = (foreign' = "struck")
  BY DEF OSNext, Fork, Exit, Buried, Escape, ReapedElsewhere, NumberReused,
         ForeignEnds
<1>5. LiveMembers' \in SUBSET Procs
  BY DEF LiveMembers
<1> QED BY <1>2, <1>3, <1>4, <1>5
        DEF Promise!Next, Promise!Change, Promise!vars, cleanerVars

\* The owner's steps are Release, Succeed, Fail, or invisible.
LEMMA PromiseCleaner ==
  ASSUME ~ExternalReaper, CleanupInv, NumberInv, CleanerNext \/ Expire
  PROVE  [Promise!Next]_Promise!vars
<1>1. (foreign = "struck") = (foreign' = "struck")
  BY NumberCleaner DEF NumberInv
<1>2. LiveMembers' = LiveMembers
  <2>1. CASE UNCHANGED proc
    BY <2>1 DEF LiveMembers
  <2>2. CASE Waited
    BY <2>2, WaitedMeans DEF CleanupInv
  <2> QED BY <2>1, <2>2
          DEF CleanerNext, Expire, Entry, Signal, KillGroupEffect, TermGroupEffect,
              ExitedDenial, Grace, Bury, FailPoll, FailSend, FailReap, ReapLeader,
              KillPoll, KillSend, KillDenied, KillSent, ReapAgain, Probe, Deadline,
              WaitTimedOut, PollBeforeKill, osVars
<1>3. \/ (proc[Leader] # "gone") = (proc'[Leader] # "gone")
      \/ proc[Leader] # "gone" /\ proc'[Leader] = "gone"
  <2>1. CASE UNCHANGED proc
    BY <2>1
  <2>2. CASE Waited
    BY <2>2, WaitedMeans DEF CleanupInv
  <2> QED BY <2>1, <2>2
          DEF CleanerNext, Expire, Entry, Signal, KillGroupEffect, TermGroupEffect,
              ExitedDenial, Grace, Bury, FailPoll, FailSend, FailReap, ReapLeader,
              KillPoll, KillSend, KillDenied, KillSent, ReapAgain, Probe, Deadline,
              WaitTimedOut, PollBeforeKill, osVars
<1>4. \/ outcome' = outcome
      \/ outcome = "none" /\ outcome' \in {"lost", "failed", "statusFailed"}
      \/ /\ outcome = "none" /\ outcome' = "ok"
         /\ LiveMembers = {} /\ proc[Leader] = "gone" /\ proc' = proc
  <2> USE DEF CleanupInv, ResultInv, HandleInv
  <2>1. pc # "done" => outcome = "none"
    OBVIOUS
  <2>2. CASE Probe
    <3>1. "esrch" \in KillpgAnswers => LiveMembers = {}
      BY GroupAnswersMean DEF KillpgAnswers, TypeOK
    <3> QED BY <2>1, <2>2, <3>1 DEF Probe, Finish, osVars
  <2>3. CASE ~ Probe
    BY <2>1, <2>3
       DEF CleanerNext, Expire, Entry, Signal, ExitedDenial, Grace, Bury, FailPoll,
           FailSend, FailReap, ReapLeader, KillPoll, KillSend, ReapAgain, Deadline,
           PollBeforeKill, StatusFailure, Finish, GoTo
  <2> QED BY <2>2, <2>3
<1> QED BY <1>1, <1>2, <1>3, <1>4
        DEF Promise!Next, Promise!Release, Promise!Succeed, Promise!Fail,
            Promise!vars

\* terminate_and_reap implements OwnedGroupCleanup, up to the promise that it
\* ends: every step of it is a step the callers' model allows, or a stutter.
THEOREM ImplementsPromise ==
  ~ExternalReaper => (Spec => Promise!Init /\ [][Promise!Next]_Promise!vars)
<1> SUFFICES ASSUME ~ExternalReaper
             PROVE  Spec => Promise!Init /\ [][Promise!Next]_Promise!vars
  OBVIOUS
<1>1. Spec => []NumberInv
  BY NumberAlways
<1>2. CleanupInv /\ NumberInv /\ [Next]_vars => [Promise!Next]_Promise!vars
  <2> SUFFICES ASSUME CleanupInv, NumberInv, [Next]_vars
               PROVE  [Promise!Next]_Promise!vars
    OBVIOUS
  <2>1. CASE UNCHANGED vars
    BY <2>1 DEF vars, Promise!vars, LiveMembers
  <2> QED BY <2>1, PromiseOS, PromiseCleaner DEF Next
<1> QED BY <1>1, <1>2, PromiseInit, CleanupAlways, PTL DEF Spec
=============================================================================
