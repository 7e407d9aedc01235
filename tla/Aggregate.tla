----------------------------- MODULE Aggregate -----------------------------
(***************************************************************************)
(* scripts/check-conformance.sh in complete mode: it runs one evidence     *)
(* helper in mode "probe" after another in the background, waits for each, *)
(* consumes its receipt, admits its result, and removes the result         *)
(* directory.  INT and TERM do not touch the helper: the script's handler  *)
(* writes a cancellation marker the helper looks for, and returns.  A TERM *)
(* sent to the whole group also reaches the command in the foreground and  *)
(* the helper, which it kills before its own handler is in place.          *)
(***************************************************************************)
EXTENDS Naturals

CONSTANTS
    MaxProbes,   \* the probes of one run
    MaxSignals   \* bound on the signals that arrive

ASSUME BoundAssumption == MaxProbes \in Nat /\ MaxSignals \in Nat

VARIABLES
    pc,           \* the next command, see Commands
    leaving,      \* the EXIT trap is running
    outcome,      \* "none", "passed", "failed"; "cut" inside the EXIT trap
    traps,        \* of INT and TERM: "default", "set" or "ignored"
    exitTrap,     \* cleanup_results is the EXIT trap
    pending,      \* a signal waits for its trap
    signals,      \* signals sent so far
    interrupted,  \* aggregate_interrupted_status is set
    requested,    \* active_probe_cancellation_requested
    markerNamed,  \* active_probe_cancellation_marker is set
    failure,      \* aggregate_signal_failure
    permitted,    \* result_directory_removal_permitted
    named,        \* result_directory is set
    probes,       \* helpers started so far
    admitted,     \* results admitted so far
    marker,       \* the latest helper's cancellation marker exists
    dir,          \* the result directory: "present" or "gone"
    refused,      \* a removal, or the check of a receipt, failed by itself
    helper,       \* "none", "starting", "declining", "owning" or "gone"
    started, live, receipt, result,  \* its run, see OwnedRun
    consumed      \* its receipt has been removed

Run == INSTANCE OwnedRun

placeVars == <<pc, leaving, outcome>>
trapVars == <<traps, exitTrap, pending>>
cancelVars == <<interrupted, requested, markerNamed, failure, marker>>
dirVars == <<permitted, named, dir, refused>>
countVars == <<probes, admitted>>
runVars == <<started, live, receipt, result>>
helperVars == <<helper, runVars>>
vars == <<placeVars, trapVars, signals, cancelVars, dirVars, countVars,
          helperVars, consumed>>

Commands ==
    {"start", "check", "probe", "reset", "forbid", "launch", "recheck", "wait",
     "waited", "rewait", "consume", "rm", "permit", "clear", "verdict",
     "cleanup", "remove", "unname", "untrap", "report", "exit"}

\* The directory exists, and cleanup_results is the EXIT trap (lines 28-48).
Init ==
    /\ pc = "start" /\ leaving = FALSE /\ outcome = "none"
    /\ traps = "default" /\ exitTrap = TRUE /\ pending = FALSE /\ signals = 0
    /\ interrupted = FALSE /\ requested = FALSE /\ markerNamed = FALSE
    /\ failure = FALSE /\ marker = FALSE
    /\ permitted = TRUE /\ named = TRUE /\ dir = "present" /\ refused = FALSE
    /\ probes = 0 /\ admitted = 0
    /\ helper = "none" /\ consumed = FALSE
    /\ Run!Init

-----------------------------------------------------------------------------
Goto(command) == pc' = command /\ UNCHANGED <<leaving, outcome>>

\* exit: through the EXIT trap, unless it is gone or under way.
Exit ==
    \/ /\ exitTrap /\ ~leaving
       /\ pc' = "cleanup" /\ leaving' = TRUE /\ UNCHANGED outcome
    \/ /\ leaving \/ ~exitTrap
       /\ pc' = "exit" /\ outcome' = IF leaving THEN "cut" ELSE "failed"
       /\ UNCHANGED leaving

\* A failed command ends the script, or the EXIT trap.  The faulty variant
\* cleans up until it succeeds.
WrongFailed ==
    \/ ~leaving /\ Exit
    \/ leaving /\ Goto("cleanup")
Failed ==
    \/ ~leaving /\ Exit
    \/ leaving /\ pc' = "exit" /\ outcome' = "failed" /\ UNCHANGED leaving

\* What a killed foreground command leaves: a receipt that could not be
\* consumed, or a directory that could not be removed.
Killed ==
    /\ refused' = TRUE
    /\ \/ pc \in {"consume", "rm"} /\ failure' = TRUE /\ Goto("clear")
       \/ pc = "remove" /\ Failed /\ UNCHANGED failure

\* A signal for the script alone, or a TERM for its group as well.
SignalArrives ==
    /\ pc # "exit" /\ signals < MaxSignals
    /\ signals' = signals + 1
    /\ pending' = (pending \/ traps # "ignored")
    /\ \/ UNCHANGED <<placeVars, failure, refused, helper, result>>
       \/ /\ helper = "starting" /\ helper' = "gone" /\ result' = "failed"
          /\ UNCHANGED <<placeVars, failure, refused>>
       \/ Killed /\ UNCHANGED <<helper, result>>
    /\ UNCHANGED <<traps, exitTrap, interrupted, requested, markerNamed, marker,
                   permitted, named, dir, countVars, started, live, receipt,
                   consumed>>

\* The helper looks for the marker before it starts anything
\* (sq_evidence_process.py:440).
HelperReady ==
    /\ helper = "starting"
    /\ \/ helper' = (IF marker THEN "declining" ELSE "owning") /\ UNCHANGED result
       \/ helper' = "gone" /\ result' = "failed"
    /\ UNCHANGED <<placeVars, trapVars, signals, cancelVars, dirVars, countVars,
                   started, live, receipt, consumed>>

HelperRuns ==
    /\ \/ helper = "owning" /\ Run!Start
       \/ helper \in {"owning", "declining"} /\ Run!Certify
    /\ UNCHANGED <<placeVars, trapVars, signals, cancelVars, dirVars, countVars,
                   helper, consumed>>

HelperReports ==
    /\ helper \in {"owning", "declining"}
    /\ Run!Report
    /\ helper' = "gone"
    /\ UNCHANGED <<placeVars, trapVars, signals, cancelVars, dirVars, countVars,
                   consumed>>

ProbeEnds ==
    /\ Run!Die
    /\ UNCHANGED <<placeVars, trapVars, signals, cancelVars, dirVars, countVars,
                   helper, consumed>>

-----------------------------------------------------------------------------
\* A command runs only after the handlers of the signals that have arrived.
At(command) == pc = command /\ ~pending

Proof == receipt /\ ~consumed

\* Lines 49-58: once per probe.
Request ==
    \/ requested /\ UNCHANGED <<requested, marker, failure>>
    \/ /\ ~requested /\ requested' = TRUE
       /\ \/ marker' = TRUE /\ UNCHANGED failure
          \/ failure' = TRUE /\ UNCHANGED marker

\* Lines 59-72.  The handler returns to the next command, and a signal ends
\* the wait it interrupts; without a marker to write the script exits.  The
\* faulty variant always exits.
WrongTakeSignal ==
    /\ pending /\ pc # "exit"
    /\ pending' = FALSE
    /\ interrupted' = TRUE /\ traps' = "default" /\ Exit
    /\ UNCHANGED <<requested, marker, failure, exitTrap, signals, markerNamed,
                   dirVars, countVars, helperVars, consumed>>
TakeSignal ==
    /\ pending /\ pc # "exit"
    /\ pending' = FALSE
    /\ \/ /\ traps = "default"
          /\ Exit
          /\ UNCHANGED <<interrupted, requested, marker, failure, traps>>
       \/ /\ traps = "set" /\ (interrupted \/ markerNamed)
          /\ interrupted' = TRUE
          /\ IF interrupted THEN UNCHANGED <<requested, marker, failure>>
                            ELSE Request
          /\ Goto(IF pc = "wait" THEN "waited" ELSE pc)
          /\ UNCHANGED traps
       \/ /\ traps = "set" /\ ~interrupted /\ ~markerNamed
          /\ interrupted' = TRUE /\ traps' = "default" /\ Exit
          /\ UNCHANGED <<requested, marker, failure>>
    /\ UNCHANGED <<exitTrap, signals, markerNamed, dirVars, countVars, helperVars,
                   consumed>>

Start ==
    /\ At("start")
    /\ traps' = "set" /\ Goto("check")
    /\ UNCHANGED <<exitTrap, pending, signals, cancelVars, dirVars, countVars,
                   helperVars, consumed>>

\* Lines 75-91, and the choice of the next probe in lines 153-161.
Check ==
    /\ At("check") \/ At("probe")
    /\ \/ pc = "check" /\ Goto("probe") /\ UNCHANGED markerNamed
       \/ pc = "check" /\ Failed /\ UNCHANGED markerNamed
       \/ pc = "probe" /\ probes < MaxProbes /\ markerNamed' = TRUE /\ Goto("reset")
       \/ pc = "probe" /\ probes = MaxProbes /\ Goto("cleanup") /\ UNCHANGED markerNamed
    /\ UNCHANGED <<trapVars, signals, interrupted, requested, failure, marker,
                   dirVars, countVars, helperVars, consumed>>

\* Lines 102-104: a signal after line 102 has already written the marker.
Reset ==
    /\ At("reset")
    /\ requested' = FALSE /\ Goto("forbid")
    /\ UNCHANGED <<trapVars, signals, interrupted, markerNamed, failure, marker,
                   dirVars, countVars, helperVars, consumed>>
Forbid ==
    /\ At("forbid")
    /\ permitted' = FALSE /\ Goto("launch")
    /\ UNCHANGED <<trapVars, signals, cancelVars, named, dir, refused, countVars,
                   helperVars, consumed>>

\* Lines 105-107; in the faulty variant a marker written before is removed.
WrongLaunch ==
    /\ At("launch")
    /\ probes' = probes + 1 /\ helper' = "starting"
    /\ started' = FALSE /\ live' = FALSE /\ receipt' = FALSE /\ result' = "none"
    /\ consumed' = FALSE /\ marker' = FALSE
    /\ Goto("recheck")
    /\ UNCHANGED <<trapVars, signals, interrupted, requested, markerNamed, failure,
                   dirVars, admitted>>
Launch ==
    /\ At("launch")
    /\ probes' = probes + 1 /\ helper' = "starting"
    /\ started' = FALSE /\ live' = FALSE /\ receipt' = FALSE /\ result' = "none"
    /\ consumed' = FALSE
    /\ Goto("recheck")
    /\ UNCHANGED <<trapVars, signals, cancelVars, dirVars, admitted>>

\* Lines 108-110.
Recheck ==
    /\ At("recheck")
    /\ IF interrupted THEN Request ELSE UNCHANGED <<requested, marker, failure>>
    /\ Goto("wait")
    /\ UNCHANGED <<trapVars, signals, interrupted, markerNamed, dirVars, countVars,
                   helperVars, consumed>>

\* Lines 111-115; TakeSignal is the other way out.
Wait ==
    /\ At("wait") /\ helper = "gone"
    /\ Goto("waited")
    /\ UNCHANGED <<trapVars, signals, cancelVars, dirVars, countVars, helperVars,
                   consumed>>

\* Lines 116-123.  The faulty variant does not wait again.
WrongWaited ==
    /\ At("waited")
    /\ Goto("consume")
    /\ UNCHANGED <<trapVars, signals, cancelVars, dirVars, countVars, helperVars,
                   consumed>>
Waited ==
    /\ At("waited")
    /\ IF interrupted THEN traps' = "ignored" /\ Goto("rewait")
                      ELSE Goto("consume") /\ UNCHANGED traps
    /\ UNCHANGED <<exitTrap, pending, signals, cancelVars, dirVars, countVars,
                   helperVars, consumed>>
Rewait ==
    /\ At("rewait") /\ helper = "gone"
    /\ traps' = "set" /\ Goto("consume")
    /\ UNCHANGED <<exitTrap, pending, signals, cancelVars, dirVars, countVars,
                   helperVars, consumed>>

\* Line 125, sq-evidence-lib.sh:92-117.
Consume ==
    /\ At("consume")
    /\ IF Proof THEN Goto("rm") /\ UNCHANGED failure
                ELSE Goto("clear") /\ failure' = TRUE
    /\ UNCHANGED <<trapVars, signals, interrupted, requested, markerNamed, marker,
                   dirVars, countVars, helperVars, consumed>>
Rm ==
    /\ At("rm")
    /\ \/ consumed' = TRUE /\ Goto("permit") /\ UNCHANGED <<failure, refused>>
       \/ refused' = TRUE /\ failure' = TRUE /\ Goto("clear") /\ UNCHANGED consumed
    /\ UNCHANGED <<trapVars, signals, interrupted, requested, markerNamed, marker,
                   permitted, named, dir, countVars, helperVars>>

\* Lines 126-130; the marker of a finished probe is not named any more, and
\* the next probe's does not exist yet.
Permit ==
    /\ At("permit")
    /\ permitted' = TRUE /\ Goto("clear")
    /\ UNCHANGED <<trapVars, signals, cancelVars, named, dir, refused, countVars,
                   helperVars, consumed>>
Clear ==
    /\ At("clear")
    /\ markerNamed' = FALSE /\ marker' = FALSE /\ Goto("verdict")
    /\ UNCHANGED <<trapVars, signals, interrupted, requested, failure, dirVars,
                   countVars, helperVars, consumed>>

\* Lines 131-148: the order of the checks does not matter to what follows.
\* The faulty variant forgets the signal.
WrongVerdict ==
    /\ At("verdict")
    /\ \/ /\ ~failure /\ result = "status"
          /\ admitted' = admitted + 1 /\ Goto("probe")
       \/ Failed /\ UNCHANGED admitted
    /\ UNCHANGED <<trapVars, signals, cancelVars, dirVars, probes, helperVars,
                   consumed>>
Verdict ==
    /\ At("verdict")
    /\ \/ /\ ~failure /\ ~interrupted /\ result = "status"
          /\ admitted' = admitted + 1 /\ Goto("probe")
       \/ Failed /\ UNCHANGED admitted
    /\ UNCHANGED <<trapVars, signals, cancelVars, dirVars, probes, helperVars,
                   consumed>>

\* Lines 30-41.
Cleanup ==
    /\ At("cleanup")
    /\ \/ named /\ permitted /\ Goto("remove")
       \/ (named => ~permitted) /\ Failed
    /\ UNCHANGED <<trapVars, signals, cancelVars, dirVars, countVars, helperVars,
                   consumed>>

\* Lines 33-34, sq-evidence-lib.sh:469-484, for the EXIT trap and for line 164.
\* The faulty variant trusts the removal.
WrongRemove ==
    /\ At("remove")
    /\ IF leaving THEN Failed ELSE Goto("unname")
    /\ dir' \in {dir, "gone"}
    /\ UNCHANGED <<trapVars, signals, cancelVars, permitted, named, refused,
                   countVars, helperVars, consumed>>
Remove ==
    /\ At("remove")
    /\ \/ /\ dir' = "gone"
          /\ IF leaving THEN Failed ELSE Goto("unname")
          /\ UNCHANGED refused
       \/ refused' = TRUE /\ Failed /\ UNCHANGED dir
    /\ UNCHANGED <<trapVars, signals, cancelVars, permitted, named, countVars,
                   helperVars, consumed>>

\* Lines 167-169.
Unname ==
    /\ At("unname")
    /\ named' = FALSE /\ Goto("untrap")
    /\ UNCHANGED <<trapVars, signals, cancelVars, permitted, dir, refused,
                   countVars, helperVars, consumed>>
Untrap ==
    /\ At("untrap")
    /\ exitTrap' = FALSE /\ Goto("report")
    /\ UNCHANGED <<traps, pending, signals, cancelVars, dirVars, countVars,
                   helperVars, consumed>>
Report ==
    /\ At("report")
    /\ pc' = "exit" /\ outcome' = "passed" /\ UNCHANGED leaving
    /\ UNCHANGED <<trapVars, signals, cancelVars, dirVars, countVars, helperVars,
                   consumed>>

Script ==
    \/ Start \/ Check \/ Reset \/ Forbid \/ Launch \/ Recheck \/ Wait \/ Waited
    \/ Rewait \/ Consume \/ Rm \/ Permit \/ Clear \/ Verdict \/ Cleanup \/ Remove
    \/ Unname \/ Untrap \/ Report

Next ==
    \/ Script \/ TakeSignal \/ SignalArrives
    \/ HelperReady \/ HelperRuns \/ HelperReports \/ ProbeEnds

\* The shell runs its commands and handlers, and a helper starts and ends
\* (EvidenceProcess!HelperEnds).
Fairness ==
    /\ WF_vars(Script) /\ WF_vars(TakeSignal)
    /\ WF_vars(HelperReady) /\ WF_vars(HelperReports)

Spec == Init /\ [][Next]_vars /\ Fairness

-----------------------------------------------------------------------------
TypeOK ==
    /\ pc \in Commands /\ leaving \in BOOLEAN
    /\ outcome \in {"none", "passed", "failed", "cut"}
    /\ traps \in {"default", "set", "ignored"}
    /\ exitTrap \in BOOLEAN /\ pending \in BOOLEAN /\ signals \in 0..MaxSignals
    /\ interrupted \in BOOLEAN /\ requested \in BOOLEAN
    /\ markerNamed \in BOOLEAN /\ failure \in BOOLEAN /\ marker \in BOOLEAN
    /\ permitted \in BOOLEAN /\ named \in BOOLEAN /\ refused \in BOOLEAN
    /\ dir \in {"present", "gone"}
    /\ probes \in 0..MaxProbes /\ admitted \in 0..MaxProbes
    /\ helper \in {"none", "starting", "declining", "owning", "gone"}
    /\ started \in BOOLEAN /\ live \in BOOLEAN /\ receipt \in BOOLEAN
    /\ result \in {"none", "status", "failed"} /\ consumed \in BOOLEAN

Ended == pc = "exit"

HelperIdle == helper \in {"none", "gone"}

\* "Only then lets the aggregate remove its result directory" (conformance/
\* README.md:63-65): whatever signals arrive, the directory is never removed
\* while a helper can still write to it, or a probe's process is running, or
\* the latest probe's end was not certified.
RemovalOnlyAfterProof ==
    [][dir' # dir => ~live /\ HelperIdle /\ (probes > 0 => consumed)]_vars

\* The last line is printed only for a run in which every probe was admitted,
\* no signal was taken, and no result is left behind (lines 131-169).
PassedMeansAdmitted ==
    /\ TypeOK
    /\ outcome = "passed" =>
        /\ admitted = MaxProbes /\ dir = "gone" /\ ~interrupted /\ ~failure

\* A cancellation is never lost between the handler and a helper that is about
\* to start: whenever the script waits after a signal, the helper has a marker
\* to find, or the run is already known to fail (lines 49-58, 103-123).
CancellationReachesHelper ==
    /\ interrupted /\ pc \in {"wait", "waited", "rewait"}
    => marker \/ failure

\* The script does not leave over a helper it has started: whoever may want
\* the result of the cancellation finds the helper gone (lines 116-123).
NoHelperLeftBehind == Ended => HelperIdle

\* Results stay behind only where the proof is missing or a removal failed;
\* a signal that cuts the EXIT trap off is the exception (lines 30-42).
RetainedOnlyWithoutProof ==
    Ended /\ outcome # "cut" /\ dir = "present"
        => refused \/ (probes > 0 /\ ~receipt)

\* What is left when the script has ended: no helper, and results only where
\* nothing proves them unused.
LeavesNothingUnexplained == NoHelperLeftBehind /\ RetainedOnlyWithoutProof

\* The script ends, whatever the signals and the probes do.
AggregateEnds == <>Ended
=============================================================================
