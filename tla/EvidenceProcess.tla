-------------------------- MODULE EvidenceProcess --------------------------
(***************************************************************************)
(* conformance/sq_evidence_process.py: one helper, in mode "tool" or       *)
(* "probe", that claims its paths, starts one selected process in a        *)
(* session of its own, captures its streams under limits, cleans its group *)
(* up, and leaves a cleanup receipt and a status file.  Signals and, for a *)
(* probe, the aggregate's cancellation marker arrive at any moment; files  *)
(* of an earlier helper, or one at work on the same paths, may be there.   *)
(*                                                                         *)
(* An exception moves the helper from the body of the try statement (line  *)
(* 439) to its except clause (525) and from there to finally (551).  The   *)
(* group cleanup is what OwnedGroupCleanup promises, in the three stages a *)
(* signal can fall between.                                                *)
(***************************************************************************)
EXTENDS Naturals

CONSTANTS
    Keyboard,        \* TRUE: SIGINT is not ignored and raises KeyboardInterrupt
    ExternalReaper,  \* TRUE: somebody else may reap the selected process
    MaxSignals       \* bound on the signals that arrive

ASSUME FlagAssumption == Keyboard \in BOOLEAN /\ ExternalReaper \in BOOLEAN
ASSUME BoundAssumption == MaxSignals \in Nat

Signals == IF Keyboard THEN {"TERM", "INT"} ELSE {"TERM"}

VARIABLES
    mode,         \* "tool", "probe", or what is neither
    request,      \* "fit", or what is wrong with the command line
    environment,  \* the directory made for the selected process: "absent",
                  \* "made", or "theirs", another helper's
    trace,        \* the lifecycle trace: "absent", "kept", or "old"
    pc,           \* the next step, see Places
    region,       \* the clause that catches an exception: "try", "except", ...
    error,        \* the exception under way, or "none"
    first,        \* the first exception of the run, or "none"
    outcome,      \* "status": returned; "raised"; "killed" by SIGTERM; "usage"
    blocked,      \* SIGINT and SIGTERM are blocked
    handler,      \* disposition of SIGTERM: "default" or "interrupt"
    pending,      \* signals that have arrived and are not handled yet
    arrived,      \* number of signals so far
    interrupted,  \* interruption_requested
    marker,       \* the cancellation marker exists
    proc,         \* the selected process: "none", "running", "exited", "reaped"
    live,         \* a process of its group is running
    doomed,       \* every running process of its group has SIGKILL pending
    status,       \* its exit status: "other", or "125" from the setup wrapper
    returncode,   \* what the handle knows of it: also "none"
    complete,     \* cleanup_complete
    cleanup,      \* how the last terminate_and_reap ended, or "none"
    open,         \* captured streams still registered
    expired,      \* the deadline has passed
    receipt,      \* the process-cleanup receipt: "absent", "empty", "valid" or "old"
    runner,       \* the runner's receipt: also "invalid", "consumed" and "misused"
    statusFile    \* "absent", "empty", "written" or "old"

controlVars == <<pc, region, error, first, outcome>>
signalVars == <<blocked, handler, pending, arrived, interrupted>>
selectedVars == <<proc, live, doomed, status, returncode>>
progressVars == <<complete, cleanup, open, expired>>
fileVars == <<receipt, runner, statusFile>>
claimVars == <<mode, request, environment, trace>>
vars == <<claimVars, marker, controlVars, signalVars, selectedVars, progressVars,
          fileVars>>

Places ==
    {"main", "request", "environment", "trace", "outputs", "start", "block", "spawn", "unmask", "unmasked", "loop", "check", "wait",
     "clean", "cleanReap", "cleanAbsent", "cleanDone", "finish", "record",
     "consume", "openReceipt", "writeReceipt", "openStatus", "writeStatus",
     "handle", "drain", "finally", "leaving", "exit"}

\* "interrupted" and "cancelled" are both ProcessInterrupted, from SIGTERM and
\* from the marker; "boundary" is every ProcessBoundaryError not told apart.
Errors == {"interrupted", "cancelled", "keyboard", "timeout", "overflow", "io", "lost",
           "boundary"}

Init ==
    /\ mode \in {"tool", "probe", "other"} /\ marker = FALSE
    /\ request \in {"fit", "usage", "same paths", "two directories"}
    /\ environment \in {"absent", "theirs"} /\ trace \in {"absent", "old"}
    /\ pc = "main" /\ region = "before" /\ error = "none" /\ first = "none"
    /\ outcome = "none"
    /\ blocked = FALSE /\ handler = "default" /\ pending = {} /\ arrived = 0
    /\ interrupted = FALSE
    /\ proc = "none" /\ live = FALSE /\ doomed = FALSE
    /\ status = "other" /\ returncode = "none"
    /\ complete = FALSE /\ cleanup = "none" /\ open = FALSE /\ expired = FALSE
    /\ receipt \in {"absent", "old"} /\ runner \in {"absent", "old"} /\ statusFile \in {"absent", "old"}

-----------------------------------------------------------------------------
(***************************************************************************)
(* The environment.                                                        *)
(***************************************************************************)

Arrive(s) ==
    /\ pc # "exit" /\ arrived < MaxSignals /\ s \notin pending
    /\ pending' = pending \cup {s} /\ arrived' = arrived + 1
    /\ UNCHANGED <<claimVars, marker, controlVars, blocked, handler, interrupted,
                   selectedVars, progressVars, fileVars>>

\* check-conformance.sh:54 creates the marker of a probe.
MarkerAppears ==
    /\ mode = "probe" /\ ~marker /\ pc # "exit"
    /\ marker' = TRUE
    /\ UNCHANGED <<claimVars, controlVars, signalVars, selectedVars, progressVars,
                   fileVars>>

\* A runner writes its receipt before it exits; one that is killed or fails
\* leaves none, or an unfinished one.
RunnerCertifies ==
    /\ mode = "probe" /\ proc = "running" /\ runner = "absent"
    /\ runner' \in {"valid", "invalid"}
    /\ UNCHANGED <<claimVars, marker, controlVars, signalVars, selectedVars,
                   progressVars, receipt, statusFile>>

\* The wrapper could not set the limit or execute the command (_LIMIT_AND_EXEC).
SetupFails ==
    /\ proc = "running" /\ runner \in {"absent", "old"}
    /\ proc' = "exited" /\ status' = "125" /\ live' = FALSE
    /\ UNCHANGED <<claimVars, marker, controlVars, signalVars, doomed, returncode,
                   progressVars, fileVars>>

LeaderExits ==
    /\ proc = "running"
    /\ proc' = "exited" /\ status' \in {"other", "125"}
    /\ live' \in BOOLEAN
    /\ UNCHANGED <<claimVars, marker, controlVars, signalVars, doomed, returncode,
                   progressVars, fileVars>>

DescendantsEnd ==
    /\ proc # "running" /\ live
    /\ live' = FALSE
    /\ UNCHANGED <<claimVars, marker, controlVars, signalVars, proc, doomed, status,
                   returncode, progressVars, fileVars>>

ReapedElsewhere ==
    /\ ExternalReaper /\ proc = "exited"
    /\ proc' = "reaped"
    /\ UNCHANGED <<claimVars, marker, controlVars, signalVars, live, doomed, status,
                   returncode, progressVars, fileVars>>

\* Another helper with the same status path: it claims the directory first,
\* and leaves its receipts.
RivalClaims ==
    /\ pc # "exit" /\ environment = "absent" /\ environment' = "theirs"
    /\ UNCHANGED <<mode, request, trace, marker, controlVars, signalVars, selectedVars,
                   progressVars, fileVars>>
RivalCertifies ==
    /\ pc # "exit" /\ environment = "theirs"
    /\ \/ runner = "absent" /\ runner' = "old" /\ UNCHANGED receipt
       \/ receipt = "absent" /\ receipt' = "old" /\ UNCHANGED runner
    /\ UNCHANGED <<claimVars, marker, controlVars, signalVars, selectedVars, progressVars, statusFile>>

Expire ==
    /\ pc \in {"loop", "check", "wait"} /\ ~expired
    /\ expired' = TRUE
    /\ UNCHANGED <<claimVars, marker, controlVars, signalVars, selectedVars, complete,
                   cleanup, open, fileVars>>

-----------------------------------------------------------------------------
Goto(p) == pc' = p /\ UNCHANGED <<region, error, first, outcome>>

\* An exception: from the body to the except clause, from there to finally,
\* from there out.
Raise(e) ==
    /\ error' = e
    /\ first' = IF first = "none" THEN e ELSE first
    /\ pc' = CASE region = "try" -> "handle"
               [] region = "except" -> "finally"
               [] OTHER -> "leaving"
    /\ region' = IF region = "try" THEN "except" ELSE "finally"
    /\ UNCHANGED outcome

\* A ProcessBoundaryError not told apart from others.
Refuse == Raise("boundary")

Unchanged == UNCHANGED <<claimVars, marker>>

\* Faulty variants, named Wrong..., are what the properties are tested against.
\* Every later SIGTERM is an interruption too.
WrongTakeSignal(s) ==
    /\ s \in pending /\ ~blocked /\ pc # "exit"
    /\ pending' = pending \ {s}
    /\ IF s = "TERM" /\ handler = "default"
       THEN pc' = "exit" /\ outcome' = "killed"
            /\ UNCHANGED <<region, error, first, interrupted>>
       ELSE interrupted' = TRUE /\ Raise("interrupted")
    /\ UNCHANGED <<blocked, handler, arrived, selectedVars, progressVars,
                   fileVars>>
    /\ Unchanged

\* The main thread handles a signal between two steps: the first SIGTERM
\* raises ProcessInterrupted and later ones return (lines 446-451), every
\* SIGINT raises KeyboardInterrupt; before line 453 and after line 558 a
\* SIGTERM kills.
TakeSignal(s) ==
    /\ s \in pending /\ ~blocked /\ pc # "exit"
    /\ pending' = pending \ {s}
    /\ \/ /\ s = "TERM" /\ handler = "default"
          /\ pc' = "exit" /\ outcome' = "killed"
          /\ UNCHANGED <<region, error, first, interrupted>>
       \/ /\ s = "TERM" /\ handler = "interrupt" /\ ~interrupted
          /\ interrupted' = TRUE
          /\ Raise("interrupted")
       \/ /\ s = "TERM" /\ handler = "interrupt" /\ interrupted
          /\ UNCHANGED <<controlVars, interrupted>>
       \/ /\ s = "INT"
          /\ Raise("keyboard")
          /\ UNCHANGED interrupted
    /\ UNCHANGED <<blocked, handler, arrived, selectedVars, progressVars,
                   fileVars>>
    /\ Unchanged

-----------------------------------------------------------------------------
(***************************************************************************)
(* Before the try statement: the request and the claim on its paths.       *)
(***************************************************************************)

Idle == UNCHANGED <<marker, signalVars, selectedVars, progressVars, fileVars>>

Main ==
    /\ pc = "main"
    /\ IF request = "usage" THEN pc' = "exit" /\ outcome' = "usage" /\ UNCHANGED <<region, error, first>>
       ELSE Goto("request")
    /\ UNCHANGED claimVars /\ Idle

\* Nothing of an earlier run may be there: what is found later is this run's.
Reserved == {receipt, runner, statusFile} \union (IF mode = "probe" THEN {trace} ELSE {})
CheckRequest ==
    /\ pc = "request"
    /\ IF mode = "other" \/ request # "fit" \/ Reserved # {"absent"} THEN Refuse ELSE Goto("environment")
    /\ UNCHANGED claimVars /\ Idle

\* _selected_environment: mkdir is what decides between two helpers; it may
\* fail half way, and PATH may be missing.
MakeEnvironment ==
    /\ pc = "environment"
    /\ \/ environment = "absent" /\ environment' = "made" /\ (Goto("trace") \/ Refuse)
       \/ Refuse /\ UNCHANGED environment
    /\ UNCHANGED <<mode, request, trace>> /\ Idle

\* Only diagnostic: a trace that cannot be written stops nothing.
StartTrace ==
    /\ pc = "trace" /\ Goto("outputs")
    /\ trace' \in IF mode = "probe" /\ trace = "absent" THEN {"absent", "kept"} ELSE {trace}
    /\ UNCHANGED <<mode, request, environment>> /\ Idle

OpenOutputs ==
    /\ pc = "outputs"
    /\ \/ pc' = "start" /\ region' = "try" /\ UNCHANGED <<error, first, outcome>>
       \/ Refuse
    /\ UNCHANGED claimVars /\ Idle

-----------------------------------------------------------------------------
(***************************************************************************)
(* The body: start, capture, clean up, certify.                            *)
(***************************************************************************)

\* Lines 440-441.
Start ==
    /\ pc = "start"
    /\ IF marker THEN Raise("cancelled") ELSE Goto("block")
    /\ UNCHANGED <<signalVars, selectedVars, progressVars, fileVars>>
    /\ Unchanged

\* The handler is not installed.
WrongBlock ==
    /\ pc = "block"
    /\ blocked' = TRUE
    /\ Goto("spawn")
    /\ UNCHANGED <<handler, pending, arrived, interrupted, selectedVars,
                   progressVars, fileVars>>
    /\ Unchanged

\* Lines 442-455.
Block ==
    /\ pc = "block"
    /\ blocked' = TRUE /\ handler' = "interrupt"
    /\ Goto("spawn")
    /\ UNCHANGED <<pending, arrived, interrupted, selectedVars, progressVars,
                   fileVars>>
    /\ Unchanged

\* Lines 457-473.
Spawn ==
    /\ pc = "spawn"
    /\ proc' = "running" /\ live' = TRUE /\ open' = TRUE
    /\ Goto("unmask")
    /\ UNCHANGED <<signalVars, doomed, status, returncode, complete, cleanup,
                   expired, fileVars>>
    /\ Unchanged

\* Lines 474-475: the error waits for the finally clause of line 476.
SpawnFails ==
    /\ pc = "spawn"
    /\ error' = "boundary" /\ first' = "boundary"
    /\ pc' = "unmask" /\ UNCHANGED <<region, outcome>>
    /\ UNCHANGED <<signalVars, selectedVars, progressVars, fileVars>>
    /\ Unchanged

\* Lines 476-478: the signals that have arrived meanwhile are handled before
\* pthread_sigmask returns.
Unmask ==
    /\ pc = "unmask"
    /\ blocked' = FALSE
    /\ Goto("unmasked")
    /\ UNCHANGED <<handler, pending, arrived, interrupted, selectedVars,
                   progressVars, fileVars>>
    /\ Unchanged
Unmasked ==
    /\ pc = "unmasked" /\ pending = {}
    /\ IF error = "none" THEN Goto("loop")
       ELSE pc' = "handle" /\ region' = "except"
            /\ UNCHANGED <<error, first, outcome>>
    /\ UNCHANGED <<signalVars, selectedVars, progressVars, fileVars>>
    /\ Unchanged

\* Lines 491-493.
Loop ==
    /\ pc = "loop"
    /\ IF ~open /\ complete THEN Goto("finish")
       ELSE IF marker THEN Raise("cancelled")
       ELSE Goto("check")
    /\ UNCHANGED <<signalVars, selectedVars, progressVars, fileVars>>
    /\ Unchanged

\* _leader_exited_unreaped: the status of the leader, or no answer.
LeaderStatus == {proc, "unknown"}

\* Line 494: a running leader keeps its group; an exited one ends the run.
Check ==
    /\ pc = "check"
    /\ \/ complete /\ Goto("wait")
       \/ ~complete /\ \E answer \in LeaderStatus :
             \/ answer = "running" /\ Goto("wait")
             \/ answer = "exited" /\ Goto("clean")
             \/ answer = "reaped" /\ Raise("lost")
             \/ answer = "unknown" /\ Refuse
    /\ UNCHANGED <<signalVars, selectedVars, progressVars, fileVars>>
    /\ Unchanged

\* _capture_ready_streams: a stream goes on, ends, fills its file, or fails.
Capture(next) ==
    \/ Goto(next) /\ open' \in {open, FALSE}
    \/ open /\ Raise("overflow") /\ UNCHANGED open
    \/ open /\ Raise("io") /\ UNCHANGED open

\* The deadline is not looked at.
WrongWait ==
    /\ pc = "wait"
    /\ Capture("loop")
    /\ UNCHANGED <<signalVars, selectedVars, complete, cleanup, expired, fileVars>>
    /\ Unchanged

\* Lines 498-507: one bounded capture.
Wait ==
    /\ pc = "wait"
    /\ \/ expired /\ Raise("timeout") /\ UNCHANGED open
       \/ ~expired /\ Capture("loop")
    /\ UNCHANGED <<signalVars, selectedVars, complete, cleanup, expired, fileVars>>
    /\ Unchanged

-----------------------------------------------------------------------------
(***************************************************************************)
(* terminate_and_reap, from line 495 and from line 533.                    *)
(***************************************************************************)

\* Every ordinary member has SIGKILL pending before the leader is reaped, or
\* none is left (KillCoversGroup).
Kill ==
    /\ pc = "clean"
    /\ doomed' = TRUE
    /\ Goto("cleanReap")
    /\ UNCHANGED <<signalVars, proc, live, status, returncode, progressVars,
                   fileVars>>
    /\ Unchanged

Reap ==
    /\ pc = "cleanReap" /\ proc \in {"exited", "reaped"}
    /\ proc' = "reaped" /\ returncode' = IF proc = "exited" THEN status ELSE "other"
    /\ Goto("cleanAbsent")
    /\ UNCHANGED <<signalVars, live, doomed, status, progressVars, fileVars>>
    /\ Unchanged

\* The leader's exit is taken for the end of its group.
WrongAbsent ==
    /\ pc = "cleanAbsent"
    /\ cleanup' = "ok"
    /\ Goto("cleanDone")
    /\ UNCHANGED <<signalVars, selectedVars, complete, open, expired, fileVars>>
    /\ Unchanged

Absent ==
    /\ pc = "cleanAbsent" /\ ~live
    /\ cleanup' = "ok"
    /\ Goto("cleanDone")
    /\ UNCHANGED <<signalVars, selectedVars, complete, open, expired, fileVars>>
    /\ Unchanged

\* A failure may come before or after the leader was reaped.
CleanFails ==
    /\ pc \in {"clean", "cleanReap", "cleanAbsent"}
    /\ \/ cleanup' = "failed" /\ Raise("boundary")
       \/ /\ ExternalReaper /\ proc = "reaped" /\ returncode = "none"
          /\ cleanup' = "lost" /\ Raise("lost")
    /\ \/ UNCHANGED <<proc, returncode>>
       \/ /\ proc = "exited"
          /\ proc' = "reaped" /\ returncode' = status
    /\ UNCHANGED <<signalVars, live, doomed, status, complete, open, expired,
                   fileVars>>
    /\ Unchanged

\* Lines 496 and 534.
CleanDone ==
    /\ pc = "cleanDone"
    /\ complete' = TRUE
    /\ Goto(IF region = "try" THEN "wait" ELSE "drain")
    /\ UNCHANGED <<signalVars, selectedVars, cleanup, open, expired, fileVars>>
    /\ Unchanged

-----------------------------------------------------------------------------
(***************************************************************************)
(* record_completed_cleanup, from line 516 and from line 547, and the      *)
(* status file.                                                            *)
(***************************************************************************)

\* A setup failure passes for a result.
WrongFinish ==
    /\ pc = "finish"
    /\ Refuse \/ Goto("record")
    /\ UNCHANGED <<signalVars, selectedVars, progressVars, fileVars>>
    /\ Unchanged

\* _regular_file_limit_reached, as the file system has it.
FileLimit == {"within", "reached", "unreadable"}

\* Lines 509-515: the regular-file limit and the setup wrapper's status.
Finish ==
    /\ pc = "finish"
    /\ \E limit \in FileLimit : IF limit = "within" /\ returncode = "other" THEN Goto("record") ELSE Refuse
    /\ UNCHANGED <<signalVars, selectedVars, progressVars, fileVars>>
    /\ Unchanged

\* The runner's receipt is not asked for.
WrongRecord ==
    /\ pc = "record"
    /\ Goto("openReceipt")
    /\ UNCHANGED <<signalVars, selectedVars, progressVars, fileVars>>
    /\ Unchanged

\* Line 430; the check of lines 428-429 holds on both ways here.
Record ==
    /\ pc = "record"
    /\ Goto(IF mode = "probe" /\ proc # "none" /\ returncode # "125"
            THEN "consume" ELSE "openReceipt")
    /\ UNCHANGED <<signalVars, selectedVars, progressVars, fileVars>>
    /\ Unchanged

\* Lines 325-334 and 431-436: a receipt is used once, whoever wrote it, and
\* then the trace is no longer needed; reading or removing it may fail.
Consume ==
    /\ pc = "consume"
    /\ \/ /\ runner \in {"valid", "old"}
          /\ runner' = (IF runner = "valid" THEN "consumed" ELSE "misused")
          /\ Goto("openReceipt")
          /\ trace' \in {trace, "absent"}
       \/ /\ Raise("io") \/ (runner \notin {"valid", "old"} /\ Refuse)
          /\ UNCHANGED <<runner, trace>>
    /\ UNCHANGED <<signalVars, selectedVars, progressVars, receipt, statusFile, mode, request, environment, marker>>

\* Lines 74-81, in the two steps a signal may fall between: the file exists,
\* and it is complete.
OpenReceipt ==
    /\ pc = "openReceipt"
    /\ \/ receipt = "absent" /\ receipt' = "empty" /\ Goto("writeReceipt")
       \/ receipt # "absent" /\ Refuse /\ UNCHANGED receipt
       \/ Raise("io") /\ UNCHANGED receipt
    /\ UNCHANGED <<signalVars, selectedVars, progressVars, runner, statusFile>>
    /\ Unchanged
WriteReceipt ==
    /\ pc = "writeReceipt"
    /\ \/ /\ receipt' = "valid"
          /\ IF region = "try" THEN Goto("openStatus")
             ELSE /\ pc' = "finally" /\ region' = "finally"
                  /\ UNCHANGED <<error, first, outcome>>
       \/ Raise("io") /\ UNCHANGED receipt
    /\ UNCHANGED <<signalVars, selectedVars, progressVars, runner, statusFile>>
    /\ Unchanged

\* Lines 517-524.
OpenStatus ==
    /\ pc = "openStatus"
    /\ \/ statusFile' = "empty" /\ Goto("writeStatus")
       \/ Raise("io") /\ UNCHANGED statusFile
    /\ UNCHANGED <<signalVars, selectedVars, progressVars, receipt, runner>>
    /\ Unchanged
WriteStatus ==
    /\ pc = "writeStatus"
    /\ \/ /\ statusFile' = "written"
          /\ pc' = "finally" /\ region' = "finally"
          /\ UNCHANGED <<error, first, outcome>>
       \/ Raise("io") /\ UNCHANGED statusFile
    /\ UNCHANGED <<signalVars, selectedVars, progressVars, receipt, runner>>
    /\ Unchanged

-----------------------------------------------------------------------------
(***************************************************************************)
(* The except clause and the finally clause.                               *)
(***************************************************************************)

\* A leader that has exited is taken for a group that is gone.
WrongHandle ==
    /\ pc = "handle"
    /\ \/ proc = "running" /\ ~complete /\ error # "lost" /\ Goto("clean")
       \/ /\ proc \in {"exited", "reaped"} /\ ~complete
          /\ pc' = "finally" /\ region' = "finally"
          /\ UNCHANGED <<error, first, outcome>>
       \/ (proc = "none" \/ complete) /\ Goto("drain")
    /\ UNCHANGED <<signalVars, selectedVars, progressVars, fileVars>>
    /\ Unchanged

\* Lines 526-538: what is owned and not cleaned up yet is cleaned up; what is
\* no longer owned and not known to be gone gets no receipt.
Handle ==
    /\ pc = "handle"
    /\ \/ /\ proc # "none" /\ ~complete /\ returncode = "none" /\ error # "lost"
          /\ Goto("clean")
       \/ /\ proc # "none" /\ ~complete
          /\ returncode # "none" \/ error = "lost"
          /\ pc' = "finally" /\ region' = "finally"
          /\ UNCHANGED <<error, first, outcome>>
       \/ (proc = "none" \/ complete) /\ Goto("drain")
    /\ UNCHANGED <<signalVars, selectedVars, progressVars, fileVars>>
    /\ Unchanged

\* The exception goes on at once.
WrongDrain ==
    /\ pc = "drain"
    /\ pc' = "finally" /\ region' = "finally"
    /\ UNCHANGED <<error, first, outcome>>
    /\ UNCHANGED <<signalVars, selectedVars, progressVars, fileVars>>
    /\ Unchanged

\* Lines 539-545: what is left in the streams is read until they end, or are
\* silent, or for a second; it may exceed the limit (line 368).
Drain ==
    /\ pc = "drain"
    /\ Capture("record")
    /\ UNCHANGED <<signalVars, selectedVars, complete, cleanup, expired, fileVars>>
    /\ Unchanged

\* Lines 552-565; then the exception, or the status, leaves run_process.
Finally ==
    /\ pc = "finally"
    /\ handler' = "default"
    /\ Goto("leaving")
    /\ UNCHANGED <<blocked, pending, arrived, interrupted, selectedVars,
                   progressVars, fileVars>>
    /\ Unchanged
Leave ==
    /\ pc = "leaving"
    /\ pc' = "exit"
    /\ outcome' = IF error = "none" THEN "status" ELSE "raised"
    /\ UNCHANGED <<region, error, first, signalVars, selectedVars, progressVars,
                   fileVars>>
    /\ Unchanged

\* What main makes of it; a KeyboardInterrupt ends the interpreter by SIGINT.
ExitCode ==
    CASE outcome = "status" -> 0
      [] outcome = "usage" -> 64
      [] outcome = "killed" -> 143
      [] OTHER -> IF error = "keyboard" THEN 130 ELSE 1

Helper ==
    \/ Main \/ CheckRequest \/ MakeEnvironment \/ StartTrace \/ OpenOutputs
    \/ Start \/ Block \/ Spawn \/ SpawnFails \/ Unmask \/ Unmasked
    \/ Loop \/ Check \/ Wait
    \/ Kill \/ Reap \/ Absent \/ CleanFails \/ CleanDone
    \/ Finish \/ Record \/ Consume \/ OpenReceipt \/ WriteReceipt
    \/ OpenStatus \/ WriteStatus
    \/ Handle \/ Drain \/ Finally \/ Leave

Next ==
    \/ Helper
    \/ \E s \in Signals : Arrive(s) \/ TakeSignal(s)
    \/ MarkerAppears \/ RunnerCertifies \/ SetupFails \/ LeaderExits \/ DescendantsEnd
    \/ ReapedElsewhere \/ RivalClaims \/ RivalCertifies \/ Expire

\* The helper runs, takes its signals, and its deadline passes; what has
\* SIGKILL pending ends.  The selected process owes nothing else.
Fairness ==
    /\ WF_vars(Helper)
    /\ WF_vars(Expire)
    /\ \A s \in Signals : WF_vars(TakeSignal(s))
    /\ WF_vars(doomed /\ (SetupFails \/ LeaderExits \/ DescendantsEnd))

Spec == Init /\ [][Next]_vars /\ Fairness

-----------------------------------------------------------------------------
TypeOK ==
    /\ mode \in {"tool", "probe", "other"} /\ marker \in BOOLEAN
    /\ environment \in {"absent", "made", "theirs"} /\ trace \in {"absent", "kept", "old"}
    /\ pc \in Places /\ region \in {"before", "try", "except", "finally"}
    /\ error \in Errors \cup {"none"} /\ first \in Errors \cup {"none"}
    /\ outcome \in {"none", "status", "raised", "killed", "usage"}
    /\ blocked \in BOOLEAN /\ handler \in {"default", "interrupt"}
    /\ pending \subseteq Signals /\ arrived \in 0..MaxSignals
    /\ interrupted \in BOOLEAN
    /\ proc \in {"none", "running", "exited", "reaped"}
    /\ live \in BOOLEAN /\ doomed \in BOOLEAN
    /\ status \in {"other", "125"} /\ returncode \in {"none", "other", "125"}
    /\ complete \in BOOLEAN /\ cleanup \in {"none", "ok", "failed", "lost"}
    /\ open \in BOOLEAN /\ expired \in BOOLEAN
    /\ receipt \in {"absent", "empty", "valid", "old"}
    /\ runner \in {"absent", "invalid", "valid", "consumed", "misused", "old"}
    /\ statusFile \in {"absent", "empty", "written", "old"}

Ended == pc = "exit"

\* "Private same-run proof that an owned selected group is absent" (line 66),
\* and for a probe whose program was reached also of what the runner proved:
\* whatever interrupts the run, and wherever, a complete receipt is never
\* found beside a live group or an unproven runner (conformance/README.md:59-65);
\* an earlier or a rival helper's receipts prove nothing here.
ReceiptMeansAbsent ==
    receipt = "valid" =>
        /\ ~live
        /\ proc = "none" \/ proc = "reaped"
        /\ mode = "probe" /\ proc # "none" /\ returncode # "125"
              => runner = "consumed"

\* A status a reader may find was written after the receipt, for a program
\* that was reached; a helper that reports success was never interrupted and
\* had its paths to itself.
StatusMeansReceipt ==
    /\ TypeOK
    /\ statusFile \in {"empty", "written"} => receipt = "valid" /\ returncode = "other"
    /\ Ended /\ ExitCode = 0 => statusFile = "written" /\ first = "none" /\ environment = "made"

\* Once a SIGTERM has interrupted a run, no further SIGTERM keeps the cleanup
\* from its end: the helper is not gone with members left whom nobody killed,
\* unless it reports a failed cleanup (lines 446-451, 525-538).
InterruptedRunCleansUp ==
    Ended /\ first = "interrupted" /\ error # "keyboard" /\ live
        => doomed \/ cleanup # "none" \/ error = "lost"

\* A signal has raised after the exception that ended the body: it is another
\* exception than the first, or a second KeyboardInterrupt (the signal that
\* kills has arrived too).  EvidenceLateTerm.cfg shows what that costs.
RaisedAgain ==
    /\ error \in {"interrupted", "keyboard"}
    /\ error # first \/ (error = "keyboard" /\ arrived > 2)

\* The default disposition, which a SIGTERM meets before line 453 and after
\* line 558, does not end a helper over a group it could still clean up.  Where
\* SIGTERM kills, no process was started; or the finally clause has been
\* reached, and of the group nobody is left whom the helper has not killed,
\* unless its cleanup failed, its ownership was lost, or a signal had raised
\* within the failure path (lines 442-478, 525-538, 557-558).
NeverKilledOverGroup ==
    outcome = "killed" /\ proc # "none" =>
        /\ region = "finally"
        /\ live => doomed \/ cleanup # "none" \/ error = "lost" \/ RaisedAgain

\* "Runner error and catchable-termination paths finalize their active helper
\* and disposable material" (docs/agents/genesis-validation.md:243-244) by means
\* of the helper's receipt: no run without signals whose cleanup succeeded, and
\* whose runner certified, ends without one.
CleanupIsCertified ==
    /\ Ended /\ arrived = 0 /\ cleanup = "ok" /\ "io" \notin {first, error}
    /\ mode = "probe" /\ returncode # "125" => runner \in {"valid", "consumed"}
    => receipt = "valid"

\* The same, but for runs that exceed an output limit.
CleanupIsCertifiedWithinLimits == error # "overflow" => CleanupIsCertified

\* "It terminates ordinary same-process-group descendants before returning"
\* (docs/agents/genesis-validation.md:233-234), or reports why it could not.
CleanupNotAbandoned ==
    Ended /\ live => doomed \/ cleanup # "none" \/ error = "lost"

\* The helper always ends, whatever the selected process does.
HelperEnds == <>Ended

Promise == INSTANCE OwnedRun WITH
    started <- (proc # "none"),
    receipt <- (receipt = "valid"),
    result  <- CASE outcome = "none" -> "none"
                 [] outcome = "status" -> "status"
                 [] OTHER -> "failed"

\* Every behaviour of the helper is one that OwnedRun allows.
KeepsPromise == Promise!Spec
=============================================================================
