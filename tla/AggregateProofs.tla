--------------------------- MODULE AggregateProofs ---------------------------
(***************************************************************************)
(* The safety properties of Aggregate, for any number of probes and of     *)
(* signals.                                                                *)
(***************************************************************************)
EXTENDS Aggregate, TLAPS

(***************************************************************************)
(* The inductive invariant.  A probe is the stretch of commands from the   *)
(* naming of its cancellation marker to its un-naming.  Within it a signal *)
(* never ends the script; outside it no helper is at work and the removal  *)
(* of the results is permitted unless a proof is missing.                  *)
(***************************************************************************)

Probing == {"reset", "forbid", "launch", "recheck", "wait", "waited", "rewait",
            "consume", "rm", "permit", "clear"}
Waiting == {"recheck", "wait", "waited", "rewait"}
Consuming == {"consume", "rm", "permit", "clear", "verdict"}
Leaving == {"cleanup", "remove", "exit"}
Closing == {"unname", "untrap", "report"}

\* The latest helper's run: its receipt proves that the probe is gone, and is
\* consumed once it is.
RunInv ==
    /\ live => ~receipt
    /\ consumed => receipt /\ helper = "gone"
    /\ helper = "none" <=> probes = 0
    /\ helper \in {"none", "starting"} => ~live /\ ~receipt
    /\ helper \in {"starting", "declining", "owning"} => pc \in Waiting /\ result = "none"
    /\ pc \in Waiting \cup Consuming => probes > 0
    /\ pc \in Waiting \cup {"consume", "rm"} => ~consumed

\* Which handlers are in place.
TrapInv ==
    /\ markerNamed <=> pc \in Probing
    /\ leaving => pc \in Leaving
    /\ ~exitTrap => pc \in {"report", "exit"}
    /\ pc = "report" => ~exitTrap
    /\ traps = "default" => pc = "start" \/ leaving \/ pc = "exit"
    /\ pc = "start" => traps = "default"
    /\ traps = "ignored" <=> pc = "rewait"
    /\ traps = "ignored" => ~pending
    /\ pc = "rewait" => interrupted
    /\ pc = "waited" /\ ~interrupted => helper = "gone"
    /\ pc \in Closing => ~leaving
    /\ outcome = "none" <=> pc # "exit"

\* A run that a signal or a failure has marked is not continued.
FailureInv ==
    /\ interrupted \/ failure => pc \in Probing \cup {"verdict"} \cup Leaving
    /\ (interrupted \/ failure) /\ pc \in {"cleanup", "remove"} => leaving
    /\ requested => interrupted
    /\ requested /\ pc \in Probing => marker \/ failure
    /\ interrupted /\ pc \in {"wait", "waited", "rewait"} => marker \/ failure

\* Counting what was started and what was admitted.
CountInv ==
    /\ pc \in {"start", "check", "probe", "reset", "forbid", "launch"} => admitted = probes
    /\ pc \in {"reset", "forbid", "launch"} => probes < MaxProbes
    /\ pc \in Waiting \cup Consuming => admitted + 1 = probes
    /\ pc \in {"cleanup", "remove"} /\ ~leaving => admitted = MaxProbes
    /\ pc \in Closing => admitted = MaxProbes

\* The removal is permitted only over a proof, and forbidden after a probe
\* only for want of one.
RemovalInv ==
    /\ permitted => (probes > 0 => consumed)
    /\ pc \in {"rm", "permit"} => receipt
    /\ pc \in {"rm", "permit"} => ~permitted
    /\ pc = "permit" => consumed
    /\ pc \in {"launch"} \cup Waiting \cup {"consume", "rm"} => ~permitted
    /\ pc \in {"start", "check", "probe", "reset", "forbid", "remove"} \cup Closing => permitted
    /\ ~permitted /\ pc \in {"clear", "verdict"} => failure
    /\ ~permitted /\ pc \in {"clear", "verdict"} \cup Leaving
          => refused \/ (probes > 0 /\ ~receipt)
    /\ pc = "remove" => named
    /\ ~named => dir = "gone"
    /\ pc \in Closing => dir = "gone"

\* What the properties say of the end.
EndInv ==
    /\ outcome = "passed" =>
          admitted = MaxProbes /\ dir = "gone" /\ ~interrupted /\ ~failure
    /\ RetainedOnlyWithoutProof

AggregateInv ==
    /\ TypeOK /\ RunInv /\ TrapInv /\ FailureInv /\ CountInv /\ RemovalInv
    /\ EndInv

-----------------------------------------------------------------------------
(***************************************************************************)
(* Type correctness.                                                       *)
(***************************************************************************)

\* The types by kind of variable: truth values, numbers and names.
ScriptFlagsOK ==
    /\ leaving \in BOOLEAN /\ exitTrap \in BOOLEAN /\ pending \in BOOLEAN
    /\ named \in BOOLEAN /\ permitted \in BOOLEAN
CancelFlagsOK ==
    /\ interrupted \in BOOLEAN /\ requested \in BOOLEAN /\ failure \in BOOLEAN
    /\ markerNamed \in BOOLEAN /\ marker \in BOOLEAN
RunFlagsOK ==
    /\ started \in BOOLEAN /\ live \in BOOLEAN /\ receipt \in BOOLEAN
    /\ consumed \in BOOLEAN /\ refused \in BOOLEAN
NumbersOK ==
    /\ signals \in 0..MaxSignals
    /\ probes \in 0..MaxProbes /\ admitted \in 0..MaxProbes
NamesOK ==
    /\ pc \in Commands /\ outcome \in {"none", "passed", "failed", "cut"}
    /\ traps \in {"default", "set", "ignored"} /\ dir \in {"present", "gone"}
    /\ helper \in {"none", "starting", "declining", "owning", "gone"}
    /\ result \in {"none", "status", "failed"}

\* The three kinds are all the types.
LEMMA TypesByKind == 
    TypeOK <=>
        /\ ScriptFlagsOK /\ CancelFlagsOK /\ RunFlagsOK
        /\ NumbersOK /\ NamesOK
  BY DEF TypeOK, ScriptFlagsOK, CancelFlagsOK, RunFlagsOK, NumbersOK, NamesOK

\* Every step keeps the truth values of the script's own.
LEMMA ScriptFlagsKept ==
  ASSUME ScriptFlagsOK, Next
  PROVE  ScriptFlagsOK'
<1> USE DEF ScriptFlagsOK, Goto, Exit, Failed, At, placeVars, trapVars,
            cancelVars, dirVars, countVars, runVars, helperVars
<1>1. CASE SignalArrives
  BY <1>1, Zenon DEF SignalArrives, Killed
<1>2. CASE TakeSignal
  BY <1>2, Zenon DEF TakeSignal, Request
<1>3. CASE HelperReady \/ HelperRuns
  BY <1>3, Zenon DEF HelperReady, HelperRuns, Run!Start, Run!Certify
<1>4. CASE HelperReports \/ ProbeEnds
  BY <1>4, Zenon DEF HelperReports, ProbeEnds, Run!Report, Run!Die
<1>5. CASE Start \/ Check \/ Reset \/ Forbid
  BY <1>5, Zenon DEF Start, Check, Reset, Forbid
<1>6. CASE Launch \/ Recheck
  BY <1>6, Zenon DEF Launch, Recheck, Request
<1>7. CASE Wait \/ Waited \/ Rewait
  BY <1>7, Zenon DEF Wait, Waited, Rewait
<1>8. CASE Consume \/ Rm
  BY <1>8, Zenon DEF Consume, Rm, Proof
<1>9. CASE Permit \/ Clear \/ Verdict
  BY <1>9, Zenon DEF Permit, Clear, Verdict
<1>10. CASE Cleanup \/ Remove
  BY <1>10, Zenon DEF Cleanup, Remove
<1>11. CASE Unname \/ Untrap \/ Report
  BY <1>11, Zenon DEF Unname, Untrap, Report
<1> QED BY <1>1, <1>2, <1>3, <1>4, <1>5, <1>6, <1>7, <1>8, <1>9, <1>10, <1>11
        DEF Next, Script

\* Every step keeps the truth values of a cancellation.
LEMMA CancelFlagsKept ==
  ASSUME CancelFlagsOK, Next
  PROVE  CancelFlagsOK'
<1> USE DEF CancelFlagsOK, Goto, Exit, Failed, At, placeVars, trapVars,
            cancelVars, dirVars, countVars, runVars, helperVars
<1>1. CASE SignalArrives
  BY <1>1, Zenon DEF SignalArrives, Killed
<1>2. CASE TakeSignal
  BY <1>2, Zenon DEF TakeSignal, Request
<1>3. CASE HelperReady \/ HelperRuns
  BY <1>3, Zenon DEF HelperReady, HelperRuns, Run!Start, Run!Certify
<1>4. CASE HelperReports \/ ProbeEnds
  BY <1>4, Zenon DEF HelperReports, ProbeEnds, Run!Report, Run!Die
<1>5. CASE Start \/ Check \/ Reset \/ Forbid
  BY <1>5, Zenon DEF Start, Check, Reset, Forbid
<1>6. CASE Launch \/ Recheck
  BY <1>6, Zenon DEF Launch, Recheck, Request
<1>7. CASE Wait \/ Waited \/ Rewait
  BY <1>7, Zenon DEF Wait, Waited, Rewait
<1>8. CASE Consume \/ Rm
  BY <1>8, Zenon DEF Consume, Rm, Proof
<1>9. CASE Permit \/ Clear \/ Verdict
  BY <1>9, Zenon DEF Permit, Clear, Verdict
<1>10. CASE Cleanup \/ Remove
  BY <1>10, Zenon DEF Cleanup, Remove
<1>11. CASE Unname \/ Untrap \/ Report
  BY <1>11, Zenon DEF Unname, Untrap, Report
<1> QED BY <1>1, <1>2, <1>3, <1>4, <1>5, <1>6, <1>7, <1>8, <1>9, <1>10, <1>11
        DEF Next, Script

\* Every step keeps the truth values of the latest helper's run.
LEMMA RunFlagsKept ==
  ASSUME RunFlagsOK, Next
  PROVE  RunFlagsOK'
<1> USE DEF RunFlagsOK, Goto, Exit, Failed, At, placeVars, trapVars,
            cancelVars, dirVars, countVars, runVars, helperVars
<1>1. CASE SignalArrives
  BY <1>1, Zenon DEF SignalArrives, Killed
<1>2. CASE TakeSignal
  BY <1>2, Zenon DEF TakeSignal, Request
<1>3. CASE HelperReady \/ HelperRuns
  BY <1>3, Zenon DEF HelperReady, HelperRuns, Run!Start, Run!Certify
<1>4. CASE HelperReports \/ ProbeEnds
  BY <1>4, Zenon DEF HelperReports, ProbeEnds, Run!Report, Run!Die
<1>5. CASE Start \/ Check \/ Reset \/ Forbid
  BY <1>5, Zenon DEF Start, Check, Reset, Forbid
<1>6. CASE Launch \/ Recheck
  BY <1>6, Zenon DEF Launch, Recheck, Request
<1>7. CASE Wait \/ Waited \/ Rewait
  BY <1>7, Zenon DEF Wait, Waited, Rewait
<1>8. CASE Consume \/ Rm
  BY <1>8, Zenon DEF Consume, Rm, Proof
<1>9. CASE Permit \/ Clear \/ Verdict
  BY <1>9, Zenon DEF Permit, Clear, Verdict
<1>10. CASE Cleanup \/ Remove
  BY <1>10, Zenon DEF Cleanup, Remove
<1>11. CASE Unname \/ Untrap \/ Report
  BY <1>11, Zenon DEF Unname, Untrap, Report
<1> QED BY <1>1, <1>2, <1>3, <1>4, <1>5, <1>6, <1>7, <1>8, <1>9, <1>10, <1>11
        DEF Next, Script

\* Every step keeps the counters within their bounds: a result is admitted once
\* per probe.
LEMMA NumbersKept ==
  ASSUME AggregateInv, Next
  PROVE  NumbersOK'
<1> USE DEF AggregateInv, TypeOK, NumbersOK, CountInv, Consuming, Goto, Exit,
            Failed, At, placeVars, trapVars, cancelVars, dirVars, countVars,
            runVars, helperVars
<1>1. CASE SignalArrives
  BY <1>1, BoundAssumption DEF SignalArrives, Killed
<1>2. CASE TakeSignal
  BY <1>2, BoundAssumption DEF TakeSignal, Request
<1>3. CASE HelperReady \/ HelperRuns
  BY <1>3, BoundAssumption DEF HelperReady, HelperRuns, Run!Start, Run!Certify
<1>4. CASE HelperReports \/ ProbeEnds
  BY <1>4, BoundAssumption DEF HelperReports, ProbeEnds, Run!Report, Run!Die
<1>5. CASE Start \/ Check \/ Reset \/ Forbid
  BY <1>5, BoundAssumption DEF Start, Check, Reset, Forbid
<1>6. CASE Launch \/ Recheck
  BY <1>6, BoundAssumption DEF Launch, Recheck, Request
<1>7. CASE Wait \/ Waited \/ Rewait
  BY <1>7, BoundAssumption DEF Wait, Waited, Rewait
<1>8. CASE Consume \/ Rm
  BY <1>8, BoundAssumption DEF Consume, Rm, Proof
<1>9. CASE Permit \/ Clear \/ Verdict
  BY <1>9, BoundAssumption DEF Permit, Clear, Verdict
<1>10. CASE Cleanup \/ Remove
  BY <1>10, BoundAssumption DEF Cleanup, Remove
<1>11. CASE Unname \/ Untrap \/ Report
  BY <1>11, BoundAssumption DEF Unname, Untrap, Report
<1> QED BY <1>1, <1>2, <1>3, <1>4, <1>5, <1>6, <1>7, <1>8, <1>9, <1>10, <1>11
        DEF Next, Script

\* Every step keeps the names.
LEMMA NamesKept ==
  ASSUME AggregateInv, Next
  PROVE  NamesOK'
<1> USE DEF AggregateInv, TypeOK, NamesOK, Commands, Goto, Exit, Failed, At,
            placeVars, trapVars, cancelVars, dirVars, countVars, runVars,
            helperVars
<1>1. CASE SignalArrives
  BY <1>1 DEF SignalArrives, Killed
<1>2. CASE TakeSignal
  BY <1>2 DEF TakeSignal, Request
<1>3. CASE HelperReady \/ HelperRuns
  BY <1>3 DEF HelperReady, HelperRuns, Run!Start, Run!Certify
<1>4. CASE HelperReports \/ ProbeEnds
  BY <1>4 DEF HelperReports, ProbeEnds, Run!Report, Run!Die
<1>5. CASE Start \/ Check \/ Reset \/ Forbid
  BY <1>5 DEF Start, Check, Reset, Forbid
<1>6. CASE Launch \/ Recheck
  BY <1>6 DEF Launch, Recheck, Request
<1>7. CASE Wait \/ Waited \/ Rewait
  BY <1>7 DEF Wait, Waited, Rewait
<1>8. CASE Consume \/ Rm
  BY <1>8 DEF Consume, Rm, Proof
<1>9. CASE Permit \/ Clear \/ Verdict
  BY <1>9 DEF Permit, Clear, Verdict
<1>10. CASE Cleanup \/ Remove
  BY <1>10 DEF Cleanup, Remove
<1>11. CASE Unname \/ Untrap \/ Report
  BY <1>11 DEF Unname, Untrap, Report
<1> QED BY <1>1, <1>2, <1>3, <1>4, <1>5, <1>6, <1>7, <1>8, <1>9, <1>10, <1>11
        DEF Next, Script

-----------------------------------------------------------------------------
(***************************************************************************)
(* Each part of the invariant is kept by every step.                       *)
(***************************************************************************)

\* The helper's run stays one that OwnedRun allows, and none is at work where
\* the script does not wait.
LEMMA RunKept ==
  ASSUME AggregateInv, Next
  PROVE  RunInv'
<1> USE DEF AggregateInv, TypeOK, RunInv, TrapInv, RemovalInv, Probing,
            Waiting, Consuming, Leaving, Closing, Goto, Exit, Failed, At,
            placeVars, trapVars, cancelVars, dirVars, countVars, runVars,
            helperVars
<1>1. CASE SignalArrives
  BY <1>1 DEF SignalArrives, Killed
<1>2. CASE TakeSignal
  BY <1>2 DEF TakeSignal, Request
<1>3. CASE HelperReady \/ HelperRuns
  BY <1>3 DEF HelperReady, HelperRuns, Run!Start, Run!Certify
<1>4. CASE HelperReports \/ ProbeEnds
  BY <1>4 DEF HelperReports, ProbeEnds, Run!Report, Run!Die
<1>5. CASE Start \/ Check \/ Reset \/ Forbid
  BY <1>5 DEF Start, Check, Reset, Forbid
<1>6. CASE Launch \/ Recheck
  BY <1>6 DEF Launch, Recheck, Request
<1>7. CASE Wait \/ Waited \/ Rewait
  BY <1>7 DEF Wait, Waited, Rewait
<1>8. CASE Consume \/ Rm
  BY <1>8 DEF Consume, Rm, Proof
<1>9. CASE Permit \/ Clear \/ Verdict
  BY <1>9 DEF Permit, Clear, Verdict
<1>10. CASE Cleanup \/ Remove
  BY <1>10 DEF Cleanup, Remove
<1>11. CASE Unname \/ Untrap \/ Report
  BY <1>11 DEF Unname, Untrap, Report
<1> QED BY <1>1, <1>2, <1>3, <1>4, <1>5, <1>6, <1>7, <1>8, <1>9, <1>10, <1>11
        DEF Next, Script

\* Every command runs with its handlers.
LEMMA TrapKept ==
  ASSUME AggregateInv, Next
  PROVE  TrapInv'
<1> USE DEF AggregateInv, TypeOK, RunInv, TrapInv, Probing, Waiting,
            Consuming, Leaving, Closing, Goto, Exit, Failed, At, placeVars,
            trapVars, cancelVars, dirVars, countVars, runVars, helperVars
<1>1. CASE SignalArrives
  BY <1>1 DEF SignalArrives, Killed
<1>2. CASE TakeSignal
  BY <1>2 DEF TakeSignal, Request
<1>3. CASE HelperReady \/ HelperRuns
  BY <1>3 DEF HelperReady, HelperRuns, Run!Start, Run!Certify
<1>4. CASE HelperReports \/ ProbeEnds
  BY <1>4 DEF HelperReports, ProbeEnds, Run!Report, Run!Die
<1>5. CASE Start \/ Check \/ Reset \/ Forbid
  BY <1>5 DEF Start, Check, Reset, Forbid
<1>6. CASE Launch \/ Recheck
  BY <1>6 DEF Launch, Recheck, Request
<1>7. CASE Wait \/ Waited \/ Rewait
  BY <1>7 DEF Wait, Waited, Rewait
<1>8. CASE Consume \/ Rm
  BY <1>8 DEF Consume, Rm, Proof
<1>9. CASE Permit \/ Clear \/ Verdict
  BY <1>9 DEF Permit, Clear, Verdict
<1>10. CASE Cleanup \/ Remove
  BY <1>10 DEF Cleanup, Remove
<1>11. CASE Unname \/ Untrap \/ Report
  BY <1>11 DEF Unname, Untrap, Report
<1> QED BY <1>1, <1>2, <1>3, <1>4, <1>5, <1>6, <1>7, <1>8, <1>9, <1>10, <1>11
        DEF Next, Script

\* A signal or a failure is remembered until the script leaves.
LEMMA FailureKept ==
  ASSUME AggregateInv, Next
  PROVE  FailureInv'
<1> USE DEF AggregateInv, TypeOK, TrapInv, FailureInv, Probing, Waiting,
            Consuming, Leaving, Closing, Goto, Exit, Failed, At, placeVars,
            trapVars, cancelVars, dirVars, countVars, runVars, helperVars
<1>1. CASE SignalArrives
  BY <1>1 DEF SignalArrives, Killed
<1>2. CASE TakeSignal
  BY <1>2 DEF TakeSignal, Request
<1>3. CASE HelperReady \/ HelperRuns
  BY <1>3 DEF HelperReady, HelperRuns, Run!Start, Run!Certify
<1>4. CASE HelperReports \/ ProbeEnds
  BY <1>4 DEF HelperReports, ProbeEnds, Run!Report, Run!Die
<1>5. CASE Start \/ Check \/ Reset \/ Forbid
  BY <1>5 DEF Start, Check, Reset, Forbid
<1>6. CASE Launch \/ Recheck
  BY <1>6 DEF Launch, Recheck, Request
<1>7. CASE Wait \/ Waited \/ Rewait
  BY <1>7 DEF Wait, Waited, Rewait
<1>8. CASE Consume \/ Rm
  BY <1>8 DEF Consume, Rm, Proof
<1>9. CASE Permit \/ Clear \/ Verdict
  BY <1>9 DEF Permit, Clear, Verdict
<1>10. CASE Cleanup \/ Remove
  BY <1>10 DEF Cleanup, Remove
<1>11. CASE Unname \/ Untrap \/ Report
  BY <1>11 DEF Unname, Untrap, Report
<1> QED BY <1>1, <1>2, <1>3, <1>4, <1>5, <1>6, <1>7, <1>8, <1>9, <1>10, <1>11
        DEF Next, Script

\* Probes and admitted results are counted together.
LEMMA CountKept ==
  ASSUME AggregateInv, Next
  PROVE  CountInv'
<1> USE DEF AggregateInv, TypeOK, TrapInv, FailureInv, CountInv, Probing,
            Waiting, Consuming, Leaving, Closing, Goto, Exit, Failed, At,
            placeVars, trapVars, cancelVars, dirVars, countVars, runVars,
            helperVars
<1>1. CASE SignalArrives
  BY <1>1 DEF SignalArrives, Killed
<1>2. CASE TakeSignal
  BY <1>2 DEF TakeSignal, Request
<1>3. CASE HelperReady \/ HelperRuns
  BY <1>3 DEF HelperReady, HelperRuns, Run!Start, Run!Certify
<1>4. CASE HelperReports \/ ProbeEnds
  BY <1>4 DEF HelperReports, ProbeEnds, Run!Report, Run!Die
<1>5. CASE Start \/ Check \/ Reset \/ Forbid
  BY <1>5 DEF Start, Check, Reset, Forbid
<1>6. CASE Launch \/ Recheck
  BY <1>6 DEF Launch, Recheck, Request
<1>7. CASE Wait \/ Waited \/ Rewait
  BY <1>7 DEF Wait, Waited, Rewait
<1>8. CASE Consume \/ Rm
  BY <1>8 DEF Consume, Rm, Proof
<1>9. CASE Permit \/ Clear \/ Verdict
  BY <1>9 DEF Permit, Clear, Verdict
<1>10. CASE Cleanup \/ Remove
  BY <1>10 DEF Cleanup, Remove
<1>11. CASE Unname \/ Untrap \/ Report
  BY <1>11 DEF Unname, Untrap, Report
<1> QED BY <1>1, <1>2, <1>3, <1>4, <1>5, <1>6, <1>7, <1>8, <1>9, <1>10, <1>11
        DEF Next, Script

\* A signal leaves the permission alone: at worst it ends the script, which is
\* outside a probe, or inside the EXIT trap.
LEMMA RemovalKeptOverSignal ==
  ASSUME AggregateInv, TakeSignal
  PROVE  RemovalInv'
<1>1. UNCHANGED <<permitted, named, dir, refused, probes, receipt, consumed>>
  BY DEF TakeSignal, dirVars, countVars, helperVars, runVars
<1>2. RemovalInv /\ (failure => failure')
  BY DEF AggregateInv, TakeSignal, Request
<1>3. CASE pc' = pc
  BY <1>1, <1>2, <1>3 DEF RemovalInv
<1>4. CASE pc = "wait" /\ pc' = "waited"
  BY <1>1, <1>2, <1>4 DEF RemovalInv, Waiting, Leaving, Closing
<1>5. CASE pc' \in {"cleanup", "exit"} /\ pc' # pc
  <2>1. pc \notin Probing /\ pc # "exit"
    BY <1>5 DEF AggregateInv, TypeOK, TrapInv, TakeSignal, Goto, Exit, Probing,
                Leaving, Closing
  <2>2. pc \in {"start", "check", "probe", "remove", "verdict", "cleanup"} \cup Closing
    BY <2>1 DEF AggregateInv, TypeOK, Commands, Probing, Closing
  <2>3. ~permitted => refused \/ (probes > 0 /\ ~receipt)
    BY <1>2, <2>2 DEF RemovalInv, Leaving, Closing
  <2> QED BY <1>1, <1>2, <1>5, <2>3 DEF RemovalInv, Waiting, Leaving, Closing
<1> QED BY <1>3, <1>4, <1>5 DEF TakeSignal, Goto, Exit

\* The permission to remove follows the proof.
LEMMA RemovalKept ==
  ASSUME AggregateInv, Next
  PROVE  RemovalInv'
<1> USE DEF AggregateInv, TypeOK, RunInv, TrapInv, FailureInv, RemovalInv,
            Proof, Probing, Waiting, Consuming, Leaving, Closing, Goto, Exit,
            Failed, At, placeVars, trapVars, cancelVars, dirVars, countVars,
            runVars, helperVars
<1>1. CASE SignalArrives
  BY <1>1 DEF SignalArrives, Killed
<1>2. CASE TakeSignal
  BY <1>2, RemovalKeptOverSignal
<1>3. CASE HelperReady \/ HelperRuns
  BY <1>3 DEF HelperReady, HelperRuns, Run!Start, Run!Certify
<1>4. CASE HelperReports \/ ProbeEnds
  BY <1>4 DEF HelperReports, ProbeEnds, Run!Report, Run!Die
<1>5. CASE Start \/ Check \/ Reset \/ Forbid
  BY <1>5 DEF Start, Check, Reset, Forbid
<1>6. CASE Launch \/ Recheck
  BY <1>6 DEF Launch, Recheck, Request
<1>7. CASE Wait \/ Waited \/ Rewait
  BY <1>7 DEF Wait, Waited, Rewait
<1>8. CASE Consume \/ Rm
  BY <1>8 DEF Consume, Rm, Proof
<1>9. CASE Permit \/ Clear \/ Verdict
  BY <1>9 DEF Permit, Clear, Verdict
<1>10. CASE Cleanup \/ Remove
  BY <1>10 DEF Cleanup, Remove
<1>11. CASE Unname \/ Untrap \/ Report
  BY <1>11 DEF Unname, Untrap, Report
<1> QED BY <1>1, <1>2, <1>3, <1>4, <1>5, <1>6, <1>7, <1>8, <1>9, <1>10, <1>11
        DEF Next, Script

\* What is said of the end holds when it is reached, and stays.
LEMMA EndKept ==
  ASSUME AggregateInv, Next
  PROVE  EndInv'
<1> USE DEF AggregateInv, TypeOK, RunInv, TrapInv, FailureInv, CountInv,
            RemovalInv, EndInv, RetainedOnlyWithoutProof, Ended, Probing,
            Waiting, Consuming, Leaving, Closing, Goto, Exit, Failed, At,
            placeVars, trapVars, cancelVars, dirVars, countVars, runVars,
            helperVars
<1>1. CASE SignalArrives
  BY <1>1 DEF SignalArrives, Killed
<1>2. CASE TakeSignal
  BY <1>2 DEF TakeSignal, Request
<1>3. CASE HelperReady \/ HelperRuns
  BY <1>3 DEF HelperReady, HelperRuns, Run!Start, Run!Certify
<1>4. CASE HelperReports \/ ProbeEnds
  BY <1>4 DEF HelperReports, ProbeEnds, Run!Report, Run!Die
<1>5. CASE Start \/ Check \/ Reset \/ Forbid
  BY <1>5 DEF Start, Check, Reset, Forbid
<1>6. CASE Launch \/ Recheck
  BY <1>6 DEF Launch, Recheck, Request
<1>7. CASE Wait \/ Waited \/ Rewait
  BY <1>7 DEF Wait, Waited, Rewait
<1>8. CASE Consume \/ Rm
  BY <1>8 DEF Consume, Rm, Proof
<1>9. CASE Permit \/ Clear \/ Verdict
  BY <1>9 DEF Permit, Clear, Verdict
<1>10. CASE Cleanup \/ Remove
  BY <1>10 DEF Cleanup, Remove
<1>11. CASE Unname \/ Untrap \/ Report
  BY <1>11 DEF Unname, Untrap, Report
<1> QED BY <1>1, <1>2, <1>3, <1>4, <1>5, <1>6, <1>7, <1>8, <1>9, <1>10, <1>11
        DEF Next, Script

-----------------------------------------------------------------------------
(***************************************************************************)
(* The theorems.                                                           *)
(***************************************************************************)

\* The invariant holds when the script is started.
LEMMA AggregateInit == Init => AggregateInv
<1> SUFFICES ASSUME Init PROVE AggregateInv
  OBVIOUS
<1> USE DEF Init, Run!Init
<1>1. ScriptFlagsOK /\ CancelFlagsOK /\ RunFlagsOK
  BY Zenon DEF ScriptFlagsOK, CancelFlagsOK, RunFlagsOK
<1>2. NumbersOK
  BY BoundAssumption DEF NumbersOK
<1>3. NamesOK
  BY DEF NamesOK, Commands
<1>4. RunInv /\ TrapInv
  BY DEF RunInv, TrapInv, Probing, Waiting, Consuming, Leaving, Closing
<1>5. FailureInv /\ CountInv
  BY DEF FailureInv, CountInv, Probing, Waiting, Consuming, Leaving, Closing
<1>6. RemovalInv /\ EndInv
  BY DEF RemovalInv, EndInv, RetainedOnlyWithoutProof, Ended, Waiting, Leaving,
         Closing
<1> QED BY <1>1, <1>2, <1>3, <1>4, <1>5, <1>6, TypesByKind DEF AggregateInv

\* Every step keeps it.
LEMMA AggregateStep == AggregateInv /\ [Next]_vars => AggregateInv'
<1> SUFFICES ASSUME AggregateInv, [Next]_vars PROVE AggregateInv'
  OBVIOUS
<1>1. CASE Next
  <2>1. TypeOK'
    BY <1>1, TypesByKind, ScriptFlagsKept, CancelFlagsKept, RunFlagsKept,
       NumbersKept, NamesKept
       DEF AggregateInv, TypeOK, ScriptFlagsOK, CancelFlagsOK, RunFlagsOK,
           NumbersOK, NamesOK
  <2> QED
    BY <1>1, <2>1, RunKept, TrapKept, FailureKept, CountKept, RemovalKept,
       EndKept
       DEF AggregateInv
<1>2. CASE UNCHANGED vars
  BY <1>2
     DEF vars, placeVars, trapVars, cancelVars, dirVars, countVars, runVars,
         helperVars, AggregateInv, TypeOK, RunInv, TrapInv, FailureInv, CountInv,
         RemovalInv, EndInv, RetainedOnlyWithoutProof, Ended
<1> QED BY <1>1, <1>2

\* The invariant is one of the specification.
LEMMA AggregateInvariant == Spec => []AggregateInv
  BY AggregateInit, AggregateStep, PTL DEF Spec

\* check-conformance.sh:131-169: the last line is only printed for a run whose
\* probes were all admitted, which no signal and no failure has marked, and
\* which left no results behind.
THEOREM PassedMeansAdmittedHolds == Spec => []PassedMeansAdmitted
<1>1. AggregateInv => PassedMeansAdmitted
  BY DEF AggregateInv, EndInv, PassedMeansAdmitted
<1> QED BY <1>1, AggregateInvariant, PTL

\* A cancellation is never lost between the script's handler and a helper that
\* is about to start.
THEOREM CancellationReachesHelperHolds == Spec => []CancellationReachesHelper
<1>1. AggregateInv => CancellationReachesHelper
  BY DEF AggregateInv, FailureInv, CancellationReachesHelper
<1> QED BY <1>1, AggregateInvariant, PTL

\* Whatever the signals, the script leaves over no helper, and leaves results
\* only for want of a proof or of a removal.
THEOREM LeavesNothingUnexplainedHolds == Spec => []LeavesNothingUnexplained
<1>1. AggregateInv => LeavesNothingUnexplained
  BY DEF AggregateInv, TypeOK, RunInv, EndInv, LeavesNothingUnexplained,
         NoHelperLeftBehind, HelperIdle, Ended, Waiting
<1> QED BY <1>1, AggregateInvariant, PTL

\* A step that removes results finds no probe running, no helper at work, and
\* the latest probe's receipt consumed.
LEMMA RemovalStep ==
  ASSUME AggregateInv, Next, dir' # dir
  PROVE  ~live /\ HelperIdle /\ (probes > 0 => consumed)
<1>1. Remove
  BY DEF Next, Script, SignalArrives, TakeSignal, HelperReady, HelperRuns,
         HelperReports, ProbeEnds, Start, Check, Reset, Forbid, Launch, Recheck,
         Wait, Waited, Rewait, Consume, Rm, Permit, Clear, Verdict, Cleanup,
         Unname, Untrap, Report, dirVars
<1>2. permitted
  BY <1>1 DEF Remove, At, AggregateInv, RemovalInv
<1> QED BY <1>2 DEF AggregateInv, TypeOK, NumbersOK, RunInv, RemovalInv, HelperIdle

\* The result directory is never removed under a helper or a probe
\* (conformance/README.md:63-65).
THEOREM RemovalOnlyAfterProofHolds == Spec => RemovalOnlyAfterProof
<1>1. AggregateInv /\ [Next]_vars
         => [dir' # dir => ~live /\ HelperIdle /\ (probes > 0 => consumed)]_vars
  BY RemovalStep
<1> QED BY <1>1, AggregateInvariant, PTL DEF Spec, RemovalOnlyAfterProof
=============================================================================
