--------------------------- MODULE CustodyAdapter ---------------------------
(***************************************************************************)
(* OneShotCustodyAdapter.unwrap of adapters/fido_custody.py: one worker,   *)
(* started, fed, awaited and cleaned up by the caller's main thread while  *)
(* SIGINT and SIGTERM arrive at any moment, at the main thread or at a     *)
(* sibling thread that does not block them.                                *)
(*                                                                         *)
(* A Python signal goes through three places: the kernel keeps it while    *)
(* every thread blocks it ("waiting"), the C handler marks it ("tripped"), *)
(* and the main thread runs the Python handler between two bytecodes.      *)
(* The group cleanup is what OwnedGroupCleanup promises: it ends "ok" with *)
(* the group gone, or "lost", or "failed".                                 *)
(***************************************************************************)
EXTENDS Naturals, FiniteSets

Signals == {"INT", "TERM"}

\* "callable" is a Python handler; "native" one that Python did not install,
\* for which signal.getsignal returns None.
HandlerKinds == {"default", "ignore", "callable", "native"}

\* What differs from call to call: the main thread's mask, the dispositions,
\* whether the Python handlers may raise, and whether the worker may be reaped
\* by somebody else.
CallerKinds == [mask : SUBSET Signals, handler : [Signals -> HandlerKinds],
                raising : BOOLEAN, reaper : BOOLEAN]

CONSTANTS
    Callers,         \* the calls considered
    Siblings,        \* TRUE: another thread accepts the signals
    MaxSignals       \* bound on the signals that arrive

ASSUME CallerAssumption == Callers \subseteq CallerKinds
ASSUME SiblingAssumption == Siblings \in BOOLEAN
ASSUME BoundAssumption == MaxSignals \in Nat

VARIABLES
    pc,           \* the next step of unwrap, see Places
    mask,         \* signals the main thread blocks
    handler,      \* the current disposition of each signal
    caller,       \* the call: mask and dispositions as unwrap finds them
    maskSaved,    \* previous_signal_mask has been assigned
    installed,    \* installed_signal_handlers
    waiting,      \* signals the kernel keeps
    tripped,      \* signals whose Python handler is to run
    arrived,      \* number of signals so far
    cancellation, \* the deferred signal, or "none"
    worker,       \* "none", "running", "exited" (unreaped) or "reaped"
    status,       \* the worker's own exit status: "zero" or "nonzero"
    returncode,   \* what the adapter believes it was: also "none"
    workerMask,   \* signals blocked in the worker when its program starts
    group,        \* a process of the worker's group may be alive
    owned,        \* process_owned
    open,         \* worker pipes still registered
    expired,      \* the operation's deadline has passed
    error,        \* the failure that ended the operation, or "none"
    cleanup,      \* result of _terminate_and_reap
    outcome       \* how unwrap ended

signalVars == <<mask, handler, maskSaved, installed>>
deliveryVars == <<waiting, tripped, arrived>>
workerVars == <<worker, status, returncode, workerMask, group, owned, open>>
vars == <<pc, signalVars, caller, deliveryVars, cancellation, workerVars,
          expired, error, cleanup, outcome>>

Places ==
    {"start", "masked", "install", "record", "beforeSpawn", "spawn", "afterSpawn",
     "unmask", "unmasked", "loop", "events", "awaitExit", "awaitCheck",
     "block", "cleanup", "restore", "restoreMask", "restored", "propagate",
     "result", "exit"}

Outcomes ==
    {"none", "result", "error", "cleanupError", "cancelled", "callerRaised",
     "typeError", "killed"}

Init ==
    /\ pc = "start"
    /\ caller \in Callers
    /\ mask = caller.mask /\ handler = caller.handler
    /\ maskSaved = FALSE /\ installed = {}
    /\ waiting = {} /\ tripped = {} /\ arrived = 0
    /\ cancellation = "none"
    /\ worker = "none" /\ status \in {"zero", "nonzero"} /\ returncode = "none"
    /\ workerMask = {} /\ group = FALSE /\ owned = TRUE /\ open = {}
    /\ expired = FALSE /\ error = "none" /\ cleanup = "none"
    /\ outcome = "none"

-----------------------------------------------------------------------------
(***************************************************************************)
(* The environment: signals, the worker, the clock.                        *)
(***************************************************************************)

Arrive(s) ==
    /\ pc # "exit" /\ arrived < MaxSignals /\ s \notin waiting
    /\ waiting' = waiting \cup {s}
    /\ arrived' = arrived + 1
    /\ UNCHANGED <<pc, signalVars, caller, tripped, cancellation, workerVars,
                   expired, error, cleanup, outcome>>

\* Some thread takes the signal: the process dies of it, ignores it, handles
\* it natively, or marks it for the main thread.
Deliver(s) ==
    /\ pc # "exit" /\ s \in waiting
    /\ s \notin mask \/ Siblings
    /\ waiting' = waiting \ {s}
    /\ tripped' = IF handler[s] \in {"callable", "defer"}
                  THEN tripped \cup {s} ELSE tripped
    /\ IF handler[s] = "default" THEN pc' = "exit" /\ outcome' = "killed"
                                 ELSE UNCHANGED <<pc, outcome>>
    /\ UNCHANGED <<signalVars, caller, arrived, cancellation, workerVars,
                   expired, error, cleanup>>

WorkerExits ==
    /\ worker = "running"
    /\ worker' = "exited"
    /\ UNCHANGED <<pc, signalVars, caller, deliveryVars, cancellation, status,
                   returncode, workerMask, group, owned, open, expired, error,
                   cleanup, outcome>>

ReapedElsewhere ==
    /\ caller.reaper /\ worker = "exited"
    /\ worker' = "reaped"
    /\ UNCHANGED <<pc, signalVars, caller, deliveryVars, cancellation, status,
                   returncode, workerMask, group, owned, open, expired, error,
                   cleanup, outcome>>

Expire ==
    /\ pc \in {"loop", "events", "awaitExit", "awaitCheck"} /\ ~expired
    /\ expired' = TRUE
    /\ UNCHANGED <<pc, signalVars, caller, deliveryVars, cancellation,
                   workerVars, error, cleanup, outcome>>

-----------------------------------------------------------------------------
Goto(p) == pc' = p /\ UNCHANGED outcome
Leave(o) == pc' = "exit" /\ outcome' = o

\* Everything the main thread's own steps leave alone.
Quiet == UNCHANGED <<caller, deliveryVars>>

\* An error of the operation: control goes to the finally clause (line 402).
Fail(e) == error' = e /\ Goto("block")

\* Where an exception of the caller's handler takes unwrap: before the try
\* and after the restoration out of it; from line 313 to line 401 to the
\* finally clause; in line 403 past the inner try; in line 412 to the
\* restoration; in lines 414-419 out of unwrap, past what was left to restore.
AfterRaise ==
    CASE pc \in {"masked", "install", "record", "beforeSpawn", "spawn",
                 "afterSpawn", "unmask", "unmasked", "loop", "events",
                 "awaitExit", "awaitCheck"} -> "block"
      [] pc = "cleanup" -> "restore"
      [] OTHER -> "exit"

\* The Python handler of a tripped signal runs in the main thread: the
\* adapter's keeps the first signal (lines 317-322), the caller's returns or
\* raises.
RunHandler(s) ==
    /\ pc # "exit" /\ s \in tripped
    /\ tripped' = tripped \ {s}
    /\ \/ /\ handler[s] = "defer"
          /\ cancellation' = IF cancellation = "none" THEN s ELSE cancellation
          /\ UNCHANGED <<pc, error, outcome>>
       \/ /\ handler[s] = "callable"
          /\ UNCHANGED <<pc, error, outcome, cancellation>>
       \/ /\ handler[s] = "callable" /\ caller.raising
          /\ error' = "callerRaised"
          /\ IF AfterRaise = "exit" THEN Leave("callerRaised")
                                    ELSE Goto(AfterRaise)
          /\ UNCHANGED cancellation
    /\ UNCHANGED <<signalVars, caller, waiting, arrived, workerVars, expired,
                   cleanup>>

\* pthread_sigmask and signal.signal run the handlers of tripped signals before
\* they return; unblocked signals are taken by then.
Settled == tripped = {} /\ waiting \subseteq mask

-----------------------------------------------------------------------------
(***************************************************************************)
(* unwrap, lines 299-378: masks, handlers, worker.                         *)
(***************************************************************************)

\* Lines 300-305: not the main thread, or an envelope that is refused.
Refuse ==
    /\ pc = "start"
    /\ Leave("error")
    /\ UNCHANGED <<signalVars, cancellation, workerVars, expired, error, cleanup>>
    /\ Quiet

\* Lines 313-315: the system call, and then the assignment of its result.
Block ==
    /\ pc = "start"
    /\ mask' = mask \cup Signals
    /\ Goto("masked")
    /\ UNCHANGED <<handler, maskSaved, installed, cancellation, workerVars,
                   expired, error, cleanup>>
    /\ Quiet
SaveMask ==
    /\ pc = "masked" /\ Settled
    /\ maskSaved' = TRUE
    /\ Goto("install")
    /\ UNCHANGED <<mask, handler, installed, cancellation, workerVars, expired,
                   error, cleanup>>
    /\ Quiet

\* Lines 324-329: SIGINT, then SIGTERM; an ignored signal stays ignored.  The
\* adapter's handler is set by one statement and recorded for the restoration
\* by the next.
Deferred(s) == caller.handler[s] # "ignore"
Selected(s) ==
    /\ Deferred(s) /\ s \notin installed
    /\ s = "TERM" => ("INT" \in installed \/ ~Deferred("INT"))
Install(s) ==
    /\ pc = "install" /\ Settled
    /\ Selected(s)
    /\ handler' = [handler EXCEPT ![s] = "defer"]
    /\ Goto("record")
    /\ UNCHANGED <<mask, maskSaved, installed, cancellation, workerVars, expired,
                   error, cleanup>>
    /\ Quiet
Record(s) ==
    /\ pc = "record"
    /\ Selected(s)
    /\ installed' = installed \cup {s}
    /\ Goto("install")
    /\ UNCHANGED <<mask, handler, maskSaved, cancellation, workerVars, expired,
                   error, cleanup>>
    /\ Quiet
Installed ==
    /\ pc = "install" /\ {s \in Signals : Deferred(s)} \subseteq installed
    /\ Goto("beforeSpawn")
    /\ UNCHANGED <<signalVars, cancellation, workerVars, expired, error, cleanup>>
    /\ Quiet

\* Lines 359-360 and 375-376: a deferred signal ends the operation; the mask
\* is restored on the way (lines 377-378).
CheckCancelled ==
    /\ pc \in {"beforeSpawn", "afterSpawn"}
    /\ IF cancellation # "none" THEN error' = "cancelled" /\ Goto("unmask")
       ELSE /\ Goto(IF pc = "beforeSpawn" THEN "spawn" ELSE "unmask")
            /\ UNCHANGED error
    /\ UNCHANGED <<signalVars, cancellation, workerVars, expired, cleanup>>
    /\ Quiet

\* Lines 332-358 and 362-370: the worker inherits the main thread's mask, and
\* its launcher unblocks what the adapter has added to the caller's.
Spawn ==
    /\ pc = "spawn"
    /\ worker' = "running" /\ group' = TRUE
    /\ workerMask' = mask \ (Signals \ caller.mask)
    /\ open' = {"stdin", "stdout", "stderr"}
    /\ Goto("afterSpawn")
    /\ UNCHANGED <<signalVars, cancellation, status, returncode, owned, expired,
                   error, cleanup>>
    /\ Quiet

\* Lines 371-374: a deferred signal goes before the failure to start.
SpawnFails ==
    /\ pc = "spawn"
    /\ error' = IF cancellation # "none" THEN "cancelled" ELSE "unavailable"
    /\ Goto("unmask")
    /\ UNCHANGED <<signalVars, cancellation, workerVars, expired, cleanup>>
    /\ Quiet

\* Line 378: the caller's mask again, and the handlers of what it let through.
Unmask ==
    /\ pc = "unmask"
    /\ mask' = caller.mask
    /\ Goto("unmasked")
    /\ UNCHANGED <<handler, maskSaved, installed, cancellation, workerVars,
                   expired, error, cleanup>>
    /\ Quiet
Unmasked ==
    /\ pc = "unmasked" /\ Settled
    /\ Goto(IF error = "none" THEN "loop" ELSE "block")
    /\ UNCHANGED <<signalVars, cancellation, workerVars, expired, error, cleanup>>
    /\ Quiet

-----------------------------------------------------------------------------
(***************************************************************************)
(* _bounded_communicate, lines 159-243, and the errors of lines 387-399.   *)
(***************************************************************************)

\* Lines 193-202: cancellation, then the deadline, then one select.
Loop ==
    /\ pc = "loop"
    /\ IF open = {} THEN Goto("awaitExit") /\ UNCHANGED error
       ELSE IF cancellation # "none" THEN Fail("cancelled")
       ELSE IF expired THEN Fail("timeout")
       ELSE Goto("events") /\ UNCHANGED error
    /\ UNCHANGED <<signalVars, cancellation, workerVars, expired, cleanup>>
    /\ Quiet

\* Lines 204-231: one ready pipe is written or read: it is finished, or it
\* stays registered, or it fails or exceeds the limit.
Event ==
    /\ pc = "events"
    /\ \/ \E p \in open : open' = open \ {p} /\ Goto("events") /\ UNCHANGED error
       \/ \E e \in {"io", "tooLarge"} : Fail(e) /\ UNCHANGED open
       \/ Goto("loop") /\ UNCHANGED <<open, error>>
    /\ UNCHANGED <<signalVars, cancellation, worker, status, returncode, workerMask,
                   group, owned, expired, cleanup>>
    /\ Quiet

\* Lines 235 and 395-399: the leader's status, unreaped; a leader reaped
\* elsewhere ends the ownership and with it the cleanup, a status check that
\* fails otherwise does not.
AwaitExit ==
    /\ pc = "awaitExit"
    /\ \/ worker = "exited" /\ Goto("block") /\ UNCHANGED <<owned, error>>
       \/ worker = "running" /\ Goto("awaitCheck") /\ UNCHANGED <<owned, error>>
       \/ worker = "reaped" /\ Fail("ownershipLost") /\ owned' = FALSE
       \/ Fail("statusCheck") /\ UNCHANGED owned
    /\ UNCHANGED <<signalVars, cancellation, worker, status, returncode, workerMask,
                   group, open, expired, cleanup>>
    /\ Quiet

\* Faulty variants, named Wrong..., are what the properties are tested against.
\* The wait for the worker's exit has no deadline.
WrongAwaitCheck ==
    /\ pc = "awaitCheck"
    /\ IF cancellation # "none" THEN Fail("cancelled")
       ELSE Goto("awaitExit") /\ UNCHANGED error
    /\ UNCHANGED <<signalVars, cancellation, workerVars, expired, cleanup>>
    /\ Quiet

\* Lines 236-242.
AwaitCheck ==
    /\ pc = "awaitCheck"
    /\ IF cancellation # "none" THEN Fail("cancelled")
       ELSE IF expired THEN Fail("timeout")
       ELSE Goto("awaitExit") /\ UNCHANGED error
    /\ UNCHANGED <<signalVars, cancellation, workerVars, expired, cleanup>>
    /\ Quiet

-----------------------------------------------------------------------------
(***************************************************************************)
(* The finally clause, lines 402-426, and the result, lines 427-483.       *)
(***************************************************************************)

\* Lines 403-406: without a saved mask nothing was, and nothing is, blocked.
BlockAgain ==
    /\ pc = "block"
    /\ mask' = IF maskSaved THEN mask \cup Signals ELSE mask
    /\ Goto("cleanup")
    /\ UNCHANGED <<handler, maskSaved, installed, cancellation, workerVars,
                   expired, error, cleanup>>
    /\ Quiet

\* Lines 407-412, through OwnedGroupCleanup.  A worker that still runs ends by
\* SIGKILL, unless it exits first; for a worker that is reaped elsewhere during
\* the cleanup Popen.wait stores status 0; one reaped before it is noticed.
CleanupStatus ==
    {status} \cup (IF worker = "running" THEN {"nonzero"} ELSE {})
             \cup (IF caller.reaper THEN {"zero"} ELSE {})
CleanupSucceeds ==
    /\ worker \in {"running", "exited"}
    /\ cleanup' = "ok" /\ worker' = "reaped" /\ group' = FALSE
    /\ returncode' \in CleanupStatus
    /\ UNCHANGED <<status, workerMask, owned, open>>
CleanupFails ==
    /\ \/ cleanup' = "failed"
       \/ caller.reaper /\ cleanup' = "lost"
    /\ UNCHANGED workerVars
\* A worker that exited by itself is not cleaned up.
WrongCleanupOnlyRunning ==
    /\ pc = "cleanup"
    /\ \/ (worker # "running" \/ ~owned) /\ UNCHANGED <<cleanup, workerVars>>
       \/ (worker = "running" /\ owned) /\ (CleanupSucceeds \/ CleanupFails)
    /\ Goto("restore")
    /\ UNCHANGED <<signalVars, cancellation, expired, error>>
    /\ Quiet

Cleanup ==
    /\ pc = "cleanup"
    /\ \/ (worker = "none" \/ ~owned) /\ UNCHANGED <<cleanup, workerVars>>
       \/ (worker # "none" /\ owned) /\ (CleanupSucceeds \/ CleanupFails)
    /\ Goto("restore")
    /\ UNCHANGED <<signalVars, cancellation, expired, error>>
    /\ Quiet

\* Lines 414-417: SIGINT, then SIGTERM.  signal.signal refuses the None that
\* stands for a native handler.
Restore(s) ==
    /\ pc = "restore" /\ Settled
    /\ s \in installed
    /\ s = "TERM" => "INT" \notin installed
    /\ IF caller.handler[s] = "native"
       THEN Leave("typeError") /\ UNCHANGED <<handler, installed>>
       ELSE /\ handler' = [handler EXCEPT ![s] = caller.handler[s]]
            /\ installed' = installed \ {s}
            /\ UNCHANGED <<pc, outcome>>
    /\ UNCHANGED <<mask, maskSaved, cancellation, workerVars, expired, error,
                   cleanup>>
    /\ Quiet

\* The caller's mask is not restored; a failed cleanup is forgotten.
WrongRestoreMask ==
    /\ pc = "restore" /\ installed = {}
    /\ Goto("restoreMask")
    /\ UNCHANGED <<mask, handler, maskSaved, installed, cancellation, workerVars,
                   expired, error, cleanup>>
    /\ Quiet
WrongRestored ==
    /\ pc = "restoreMask" /\ Settled
    /\ Goto("restored")
    /\ UNCHANGED <<signalVars, cancellation, workerVars, expired, error, cleanup>>
    /\ Quiet

\* Lines 418-419; a failed cleanup has raised in line 412 and goes first.
RestoreMask ==
    /\ pc = "restore" /\ installed = {}
    /\ mask' = IF maskSaved THEN caller.mask ELSE mask
    /\ Goto("restoreMask")
    /\ UNCHANGED <<handler, maskSaved, installed, cancellation, workerVars,
                   expired, error, cleanup>>
    /\ Quiet
Restored ==
    /\ pc = "restoreMask" /\ Settled
    /\ IF cleanup \in {"failed", "lost"} THEN Leave("cleanupError")
       ELSE Goto("restored")
    /\ UNCHANGED <<signalVars, cancellation, workerVars, expired, error, cleanup>>
    /\ Quiet

\* Line 420, and the exception that ended the operation.
Conclude ==
    /\ pc = "restored"
    /\ \/ cancellation # "none" /\ Goto("propagate")
       \/ cancellation = "none" /\ error = "none" /\ Goto("result")
       \/ cancellation = "none" /\ error = "callerRaised" /\ Leave("callerRaised")
       \/ cancellation = "none" /\ error \notin {"none", "callerRaised"}
          /\ Leave("error")
    /\ UNCHANGED <<signalVars, cancellation, workerVars, expired, error, cleanup>>
    /\ Quiet

\* Lines 246-255 and 421-426: the signal is sent again, or the caller's
\* handler called, and the operation reported as interrupted.
Propagate ==
    /\ pc = "propagate"
    /\ Leave("cancelled")
    /\ UNCHANGED <<signalVars, cancellation, workerVars, expired, error, cleanup>>
    /\ Quiet

\* The response is admitted whatever the status.
WrongResult ==
    /\ pc = "result"
    /\ Leave("result") \/ Leave("error")
    /\ UNCHANGED <<signalVars, cancellation, workerVars, expired, error, cleanup>>
    /\ Quiet

\* Lines 427-483: a response is admitted only from a worker that is taken to
\* have exited with status 0; the response may still be refused.
Result ==
    /\ pc = "result"
    /\ \/ returncode = "zero" /\ Leave("result")
       \/ Leave("error")
    /\ UNCHANGED <<signalVars, cancellation, workerVars, expired, error, cleanup>>
    /\ Quiet

Unwrap ==
    \/ Refuse \/ Block \/ SaveMask \/ Installed \/ CheckCancelled
    \/ \E s \in Signals : Install(s) \/ Record(s) \/ Restore(s)
    \/ Spawn \/ SpawnFails \/ Unmask \/ Unmasked
    \/ Loop \/ Event \/ AwaitExit \/ AwaitCheck
    \/ BlockAgain \/ Cleanup \/ RestoreMask \/ Restored
    \/ Conclude \/ Propagate \/ Result

Next ==
    \/ Unwrap
    \/ \E s \in Signals : Arrive(s) \/ Deliver(s) \/ RunHandler(s)
    \/ WorkerExits \/ ReapedElsewhere \/ Expire

\* The main thread runs, deliverable signals are delivered and handled, and
\* the operation's deadline passes; the worker owes nothing.
Fairness ==
    /\ WF_vars(Unwrap)
    /\ WF_vars(Expire)
    /\ \A s \in Signals : WF_vars(Deliver(s)) /\ WF_vars(RunHandler(s))

Spec == Init /\ [][Next]_vars /\ Fairness

-----------------------------------------------------------------------------
TypeOK ==
    /\ pc \in Places
    /\ caller \in Callers /\ mask \subseteq Signals
    /\ handler \in [Signals -> HandlerKinds \cup {"defer"}]
    /\ maskSaved \in BOOLEAN /\ installed \subseteq Signals
    /\ waiting \subseteq Signals /\ tripped \subseteq Signals
    /\ arrived \in 0..MaxSignals
    /\ cancellation \in Signals \cup {"none"}
    /\ worker \in {"none", "running", "exited", "reaped"}
    /\ status \in {"zero", "nonzero"} /\ returncode \in {"none", "zero", "nonzero"}
    /\ workerMask \subseteq Signals
    /\ group \in BOOLEAN /\ owned \in BOOLEAN /\ expired \in BOOLEAN
    /\ open \subseteq {"stdin", "stdout", "stderr"}
    /\ error \in {"none", "cancelled", "unavailable", "timeout", "io", "tooLarge",
                  "ownershipLost", "statusCheck", "callerRaised"}
    /\ cleanup \in {"none", "ok", "lost", "failed"}
    /\ outcome \in Outcomes

\* The caller's mask and dispositions, as unwrap found them.
CallerState == mask = caller.mask /\ handler = caller.handler

\* A caller whose handlers return and were installed by Python.
Tame == ~caller.raising /\ \A s \in Signals : caller.handler[s] # "native"

\* However unwrap ends, it hands the signal state back as it found it
\* (fido-custody-v1.md:28-29 "caller signal-state restoration"; lines 413-419).
CallerStateAlwaysRestored == pc = "exit" /\ outcome # "killed" => CallerState

\* The worker's program starts with the caller's signal mask, wherever it was
\* blocked before (fido-custody-v1.md:9-14; lines 332-358).
WorkerSeesCallersMask == worker # "none" => workerMask = caller.mask

\* Every tame caller gets its signal state back, and no caller's worker starts
\* with the signals blocked that the adapter blocked to start it.
CallerStateRestored ==
    /\ Tame => CallerStateAlwaysRestored
    /\ WorkerSeesCallersMask

\* No signal, delivered to whichever thread at whichever moment, makes unwrap
\* end with a worker it started and did not clean up, as long as it owned it;
\* nor does a signal kill the caller before the cleanup (lines 306-425).
\* Handlers that raise, and workers reaped elsewhere, are no exception.
CleanupAlwaysAttempted ==
    pc = "exit" /\ worker # "none" => cleanup # "none" \/ ~owned

\* "Any malformed, partial, mismatched, cancelled, timed-out, or non-zero worker
\* result fails closed" (fido-custody-v1.md:37-39): the response of a worker
\* that exited with another status than 0, or had to be killed, is not admitted,
\* nor one whose group still has a process, nor one after a deferred signal.
\* The status is the worker's own unless somebody else reaps it (lines 400-428).
ResultMeansCleanExit ==
    /\ TypeOK
    /\ outcome = "result" =>
        /\ ~caller.reaper => status = "zero"
        /\ open = {} /\ cleanup = "ok" /\ ~group /\ cancellation = "none"

\* "Deferred cancellation propagates only after successful owned cleanup and
\* caller signal-state restoration; a cleanup failure remains dominant"
\* (fido-custody-v1.md:28-30), as far as the code keeps it for every caller:
\* the cleanup of an owned worker has succeeded and the mask is the caller's;
\* the dispositions are, unless a handler of the caller's has raised within the
\* operation, which between lines 328 and 329 leaves a handler of the adapter's
\* behind (lines 413-426).
PropagatesOnlyAfterCleanup ==
    /\ pc = "propagate" \/ outcome = "cancelled" =>
        /\ worker # "none" /\ owned => cleanup = "ok"
        /\ mask = caller.mask
        /\ error # "callerRaised" => handler = caller.handler
    /\ Tame /\ pc = "exit" /\ cleanup \in {"failed", "lost"} =>
        outcome \in {"cleanupError", "killed"}

\* A signal the adapter took in place of the caller's handler is not swallowed:
\* unless the cleanup failed, a tame caller hears of it (lines 420-426).
CancellationNotLost ==
    Tame /\ pc = "exit" /\ cancellation # "none"
        => outcome \in {"cancelled", "cleanupError", "killed"}

\* The cancellation of an operation is held back until it is clean, and only
\* until then.
CancellationHonoured == PropagatesOnlyAfterCleanup /\ CancellationNotLost

\* unwrap always ends: neither a silent worker nor signals hold it up.
UnwrapEnds == <>(pc = "exit")
=============================================================================
