------------------------ MODULE CustodyAdapterProofs ------------------------
(***************************************************************************)
(* The safety properties of CustodyAdapter, for any set of calls, any      *)
(* number of signals, with and without sibling threads.                    *)
(***************************************************************************)
EXTENDS CustodyAdapter, TLAPS

(***************************************************************************)
(* The inductive invariant.  While the adapter owns a worker every signal  *)
(* that is not ignored has the adapter's handler, so none kills it or      *)
(* raises; what was saved says what is still to be restored.               *)
(***************************************************************************)

Before == {"start", "masked", "install", "record", "beforeSpawn", "spawn"}
Operating == {"loop", "events", "awaitExit", "awaitCheck"}
Guarded == {"beforeSpawn", "spawn", "afterSpawn", "unmask", "unmasked"} \cup Operating
Closing == {"block", "cleanup"}
Returning == {"restoreMask", "restored", "propagate", "result"}
Restoring == {"restore"} \cup Returning

AllInstalled == \A s \in Signals : Deferred(s) => s \in installed

\* The adapter's handler is set, and not recorded yet.
Unrecorded(s) == pc = "record" /\ Selected(s)

\* The dispositions: the adapter's for what is installed, the caller's for the
\* rest, but for a handler whose recording another signal's handler cut off.
HandlerInv ==
    /\ \A s \in Signals :
          /\ handler[s] \in {"defer", caller.handler[s]}
          /\ s \in installed \/ Unrecorded(s) => handler[s] = "defer"
          /\ handler[s] = "defer" =>
                /\ maskSaved /\ Deferred(s)
                /\ \/ s \in installed \/ Unrecorded(s)
                   \/ error = "callerRaised" \/ outcome = "killed"
    /\ outcome = "killed" => pc = "exit"
    /\ pc \in {"start", "masked", "install", "record"} => error = "none"
    /\ pc \in Guarded \/ (pc \in Closing /\ worker # "none") => AllInstalled
    /\ pc \in Returning => installed = {}

\* The mask, and whether the caller's is known.
MaskInv ==
    /\ ~maskSaved => installed = {} /\ cancellation = "none"
    /\ pc \in {"start", "masked"} => ~maskSaved
    /\ pc \in {"install", "record"} \cup Guarded => maskSaved
    /\ Tame /\ ~maskSaved => pc \in {"start", "masked", "exit"}
    /\ pc = "start" => mask = caller.mask
    /\ pc \in Before \ {"start"} => mask = Signals
    /\ maskSaved /\ pc \in Returning => mask = caller.mask
    /\ WorkerSeesCallersMask

\* Whether there is a worker, by place and error: an operation that has come to
\* its end without an error has a worker of its own, with all pipes closed.
WorkerInv ==
    /\ pc \in Before => worker = "none"
    /\ pc \in {"afterSpawn"} \cup Operating => worker # "none"
    /\ pc \in {"unmask", "unmasked"} /\ error = "none" => worker # "none"
    /\ pc \in Before \cup Guarded => owned
    /\ pc \in {"awaitExit", "awaitCheck"} => open = {}
    /\ pc \in Closing \cup Restoring /\ error = "none" =>
          open = {} /\ worker # "none" /\ owned

\* The cleanup: not before its place, and not left out after it.
CleanupInv ==
    /\ pc \in Before \cup Guarded \cup Closing => cleanup = "none"
    /\ pc \in Restoring \cup {"exit"} /\ worker # "none" =>
          cleanup # "none" \/ ~owned

\* What the cleanup has found.
FoundInv ==
    /\ cleanup = "ok" => ~group
    /\ returncode # "none" => cleanup = "ok"
    /\ returncode = "zero" => caller.reaper \/ status = "zero"

\* How unwrap ends.
OutcomeInv ==
    /\ outcome = "none" <=> pc # "exit"
    /\ pc \in {"restored", "propagate", "result"} => cleanup \notin {"failed", "lost"}
    /\ pc = "propagate" => cancellation # "none"
    /\ pc = "result" => cancellation = "none" /\ error = "none"
    /\ error = "callerRaised" \/ outcome \in {"callerRaised", "typeError"} => ~Tame
    /\ pc = "exit" /\ cancellation # "none" => outcome \notin {"result", "error"}
    /\ pc = "exit" /\ cleanup \in {"failed", "lost"} =>
          outcome \in {"cleanupError", "killed", "callerRaised", "typeError"}
    /\ Tame /\ pc = "exit" /\ outcome # "killed" => CallerState
    /\ outcome = "cancelled" =>
          /\ mask = caller.mask /\ (error # "callerRaised" => handler = caller.handler)
          /\ worker # "none" /\ owned => cleanup = "ok"
    /\ outcome = "result" =>
          open = {} /\ returncode = "zero" /\ cancellation = "none"

AdapterInv ==
    /\ TypeOK /\ HandlerInv /\ MaskInv
    /\ WorkerInv /\ CleanupInv /\ FoundInv /\ OutcomeInv

-----------------------------------------------------------------------------
(***************************************************************************)
(* Type correctness.                                                       *)
(***************************************************************************)

\* The types by kind of variable: the signal state, truth values, and names.
SignalsOK ==
    /\ caller \in Callers /\ mask \subseteq Signals
    /\ handler \in [Signals -> HandlerKinds \cup {"defer"}]
    /\ installed \subseteq Signals
    /\ waiting \subseteq Signals /\ tripped \subseteq Signals
    /\ arrived \in 0..MaxSignals
    /\ cancellation \in Signals \cup {"none"} /\ workerMask \subseteq Signals
FlagsOK ==
    /\ maskSaved \in BOOLEAN /\ group \in BOOLEAN /\ owned \in BOOLEAN
    /\ expired \in BOOLEAN
PlaceOK == pc \in Places /\ outcome \in Outcomes
RunOK ==
    /\ worker \in {"none", "running", "exited", "reaped"}
    /\ status \in {"zero", "nonzero"} /\ returncode \in {"none", "zero", "nonzero"}
    /\ open \subseteq {"stdin", "stdout", "stderr"}
    /\ error \in {"none", "cancelled", "unavailable", "timeout", "io", "tooLarge",
                  "ownershipLost", "statusCheck", "callerRaised"}
    /\ cleanup \in {"none", "ok", "lost", "failed"}

\* The kinds are all the types.
LEMMA TypesByKind == TypeOK <=> SignalsOK /\ FlagsOK /\ PlaceOK /\ RunOK
  BY DEF TypeOK, SignalsOK, FlagsOK, PlaceOK, RunOK

\* A call has a mask of signals and a disposition for each.
LEMMA CallerKind ==
  ASSUME NEW c \in Callers
  PROVE  c.mask \subseteq Signals /\ c.handler \in [Signals -> HandlerKinds]
  BY CallerAssumption DEF CallerKinds

\* Every step keeps the signal state typed.
LEMMA SignalsKept ==
  ASSUME SignalsOK, Next
  PROVE  SignalsOK'
<1> USE DEF SignalsOK, Deferred, Goto, Leave, Fail, Quiet, signalVars,
            deliveryVars, workerVars
<1>1. ASSUME NEW s \in Signals, Arrive(s)
      PROVE  SignalsOK'
  BY <1>1, CallerKind, BoundAssumption DEF Arrive
<1>2. ASSUME NEW s \in Signals, Deliver(s)
      PROVE  SignalsOK'
  BY <1>2, CallerKind, BoundAssumption DEF Deliver
<1>3. ASSUME NEW s \in Signals, RunHandler(s)
      PROVE  SignalsOK'
  BY <1>3, CallerKind, BoundAssumption DEF RunHandler, AfterRaise
<1>4. CASE WorkerExits
  BY <1>4, CallerKind, BoundAssumption DEF WorkerExits
<1>5. CASE ReapedElsewhere
  BY <1>5, CallerKind, BoundAssumption DEF ReapedElsewhere
<1>6. CASE Expire
  BY <1>6, CallerKind, BoundAssumption DEF Expire
<1>7. CASE Refuse \/ Block \/ SaveMask
  BY <1>7, CallerKind, BoundAssumption DEF Refuse, Block, SaveMask, Settled
<1>8. ASSUME NEW s \in Signals, Install(s) \/ Record(s)
      PROVE  SignalsOK'
  BY <1>8, CallerKind, BoundAssumption DEF Install, Record, Settled
<1>9. CASE Installed \/ CheckCancelled
  BY <1>9, CallerKind, BoundAssumption DEF Installed, CheckCancelled
<1>10. CASE Spawn \/ SpawnFails
  BY <1>10, CallerKind, BoundAssumption DEF Spawn, SpawnFails
<1>11. CASE Unmask \/ Unmasked
  BY <1>11, CallerKind, BoundAssumption DEF Unmask, Unmasked, Settled
<1>12. CASE Loop \/ Event
  BY <1>12, CallerKind, BoundAssumption DEF Loop, Event
<1>13. CASE AwaitExit \/ AwaitCheck
  BY <1>13, CallerKind, BoundAssumption DEF AwaitExit, AwaitCheck
<1>14. CASE BlockAgain
  BY <1>14, CallerKind, BoundAssumption DEF BlockAgain
<1>15. CASE Cleanup
  BY <1>15, CallerKind, BoundAssumption DEF Cleanup, CleanupSucceeds,
                                            CleanupFails, CleanupStatus
<1>16. ASSUME NEW s \in Signals, Restore(s)
      PROVE  SignalsOK'
  BY <1>16, CallerKind, BoundAssumption DEF Restore, Settled
<1>17. CASE RestoreMask \/ Restored
  BY <1>17, CallerKind, BoundAssumption DEF RestoreMask, Restored, Settled
<1>18. CASE Conclude
  BY <1>18, CallerKind, BoundAssumption DEF Conclude
<1>19. CASE Propagate
  BY <1>19, CallerKind, BoundAssumption DEF Propagate
<1>20. CASE Result
  BY <1>20, CallerKind, BoundAssumption DEF Result
<1> QED BY <1>1, <1>2, <1>3, <1>4, <1>5, <1>6, <1>7, <1>8, <1>9, <1>10, <1>11,
           <1>12, <1>13, <1>14, <1>15, <1>16, <1>17, <1>18, <1>19, <1>20
        DEF Next, Unwrap

\* Every step keeps the truth values.
LEMMA FlagsKept ==
  ASSUME FlagsOK, Next
  PROVE  FlagsOK'
<1> USE DEF FlagsOK, Deferred, Goto, Leave, Fail, Quiet, signalVars,
            deliveryVars, workerVars
<1>1. ASSUME NEW s \in Signals, Arrive(s)
      PROVE  FlagsOK'
  BY <1>1, Zenon DEF Arrive
<1>2. ASSUME NEW s \in Signals, Deliver(s)
      PROVE  FlagsOK'
  BY <1>2, Zenon DEF Deliver
<1>3. ASSUME NEW s \in Signals, RunHandler(s)
      PROVE  FlagsOK'
  BY <1>3, Zenon DEF RunHandler, AfterRaise
<1>4. CASE WorkerExits
  BY <1>4, Zenon DEF WorkerExits
<1>5. CASE ReapedElsewhere
  BY <1>5, Zenon DEF ReapedElsewhere
<1>6. CASE Expire
  BY <1>6, Zenon DEF Expire
<1>7. CASE Refuse \/ Block \/ SaveMask
  BY <1>7, Zenon DEF Refuse, Block, SaveMask, Settled
<1>8. ASSUME NEW s \in Signals, Install(s) \/ Record(s)
      PROVE  FlagsOK'
  BY <1>8, Zenon DEF Install, Record, Settled
<1>9. CASE Installed \/ CheckCancelled
  BY <1>9, Zenon DEF Installed, CheckCancelled
<1>10. CASE Spawn \/ SpawnFails
  BY <1>10, Zenon DEF Spawn, SpawnFails
<1>11. CASE Unmask \/ Unmasked
  BY <1>11, Zenon DEF Unmask, Unmasked, Settled
<1>12. CASE Loop \/ Event
  BY <1>12, Zenon DEF Loop, Event
<1>13. CASE AwaitExit \/ AwaitCheck
  BY <1>13, Zenon DEF AwaitExit, AwaitCheck
<1>14. CASE BlockAgain
  BY <1>14, Zenon DEF BlockAgain
<1>15. CASE Cleanup
  BY <1>15, Zenon DEF Cleanup, CleanupSucceeds, CleanupFails, CleanupStatus
<1>16. ASSUME NEW s \in Signals, Restore(s)
      PROVE  FlagsOK'
  BY <1>16, Zenon DEF Restore, Settled
<1>17. CASE RestoreMask \/ Restored
  BY <1>17, Zenon DEF RestoreMask, Restored, Settled
<1>18. CASE Conclude
  BY <1>18, Zenon DEF Conclude
<1>19. CASE Propagate
  BY <1>19, Zenon DEF Propagate
<1>20. CASE Result
  BY <1>20, Zenon DEF Result
<1> QED BY <1>1, <1>2, <1>3, <1>4, <1>5, <1>6, <1>7, <1>8, <1>9, <1>10, <1>11,
           <1>12, <1>13, <1>14, <1>15, <1>16, <1>17, <1>18, <1>19, <1>20
        DEF Next, Unwrap

\* Every step keeps unwrap at one of its places.
LEMMA PlaceKept ==
  ASSUME PlaceOK, Next
  PROVE  PlaceOK'
<1> USE DEF PlaceOK, Places, Outcomes, Deferred, Goto, Leave, Fail, Quiet,
            signalVars, deliveryVars, workerVars
<1>1. ASSUME NEW s \in Signals, Arrive(s)
      PROVE  PlaceOK'
  BY <1>1 DEF Arrive
<1>2. ASSUME NEW s \in Signals, Deliver(s)
      PROVE  PlaceOK'
  BY <1>2 DEF Deliver
<1>3. ASSUME NEW s \in Signals, RunHandler(s)
      PROVE  PlaceOK'
  BY <1>3 DEF RunHandler, AfterRaise
<1>4. CASE WorkerExits
  BY <1>4 DEF WorkerExits
<1>5. CASE ReapedElsewhere
  BY <1>5 DEF ReapedElsewhere
<1>6. CASE Expire
  BY <1>6 DEF Expire
<1>7. CASE Refuse \/ Block \/ SaveMask
  BY <1>7 DEF Refuse, Block, SaveMask, Settled
<1>8. ASSUME NEW s \in Signals, Install(s) \/ Record(s)
      PROVE  PlaceOK'
  BY <1>8 DEF Install, Record, Settled
<1>9. CASE Installed \/ CheckCancelled
  BY <1>9 DEF Installed, CheckCancelled
<1>10. CASE Spawn \/ SpawnFails
  BY <1>10 DEF Spawn, SpawnFails
<1>11. CASE Unmask \/ Unmasked
  BY <1>11 DEF Unmask, Unmasked, Settled
<1>12. CASE Loop \/ Event
  BY <1>12 DEF Loop, Event
<1>13. CASE AwaitExit \/ AwaitCheck
  BY <1>13 DEF AwaitExit, AwaitCheck
<1>14. CASE BlockAgain
  BY <1>14 DEF BlockAgain
<1>15. CASE Cleanup
  BY <1>15 DEF Cleanup, CleanupSucceeds, CleanupFails, CleanupStatus
<1>16. ASSUME NEW s \in Signals, Restore(s)
      PROVE  PlaceOK'
  BY <1>16 DEF Restore, Settled
<1>17. CASE RestoreMask \/ Restored
  BY <1>17 DEF RestoreMask, Restored, Settled
<1>18. CASE Conclude
  BY <1>18 DEF Conclude
<1>19. CASE Propagate
  BY <1>19 DEF Propagate
<1>20. CASE Result
  BY <1>20 DEF Result
<1> QED BY <1>1, <1>2, <1>3, <1>4, <1>5, <1>6, <1>7, <1>8, <1>9, <1>10, <1>11,
           <1>12, <1>13, <1>14, <1>15, <1>16, <1>17, <1>18, <1>19, <1>20
        DEF Next, Unwrap

\* Every step keeps what is known of the worker typed.
LEMMA RunKept ==
  ASSUME RunOK, Next
  PROVE  RunOK'
<1> USE DEF RunOK, Deferred, Goto, Leave, Fail, Quiet, signalVars,
            deliveryVars, workerVars
<1>1. ASSUME NEW s \in Signals, Arrive(s)
      PROVE  RunOK'
  BY <1>1 DEF Arrive
<1>2. ASSUME NEW s \in Signals, Deliver(s)
      PROVE  RunOK'
  BY <1>2 DEF Deliver
<1>3. ASSUME NEW s \in Signals, RunHandler(s)
      PROVE  RunOK'
  BY <1>3 DEF RunHandler, AfterRaise
<1>4. CASE WorkerExits
  BY <1>4 DEF WorkerExits
<1>5. CASE ReapedElsewhere
  BY <1>5 DEF ReapedElsewhere
<1>6. CASE Expire
  BY <1>6 DEF Expire
<1>7. CASE Refuse \/ Block \/ SaveMask
  BY <1>7 DEF Refuse, Block, SaveMask, Settled
<1>8. ASSUME NEW s \in Signals, Install(s) \/ Record(s)
      PROVE  RunOK'
  <2>1. CASE Install(s)
    BY <2>1 DEF Install
  <2>2. CASE Record(s)
    BY <2>2 DEF Record
  <2> QED BY <1>8, <2>1, <2>2
<1>9. CASE Installed \/ CheckCancelled
  <2>1. CASE Installed
    BY <2>1 DEF Installed
  <2>2. CASE CheckCancelled
    BY <2>2 DEF CheckCancelled
  <2> QED BY <1>9, <2>1, <2>2
<1>10. CASE Spawn \/ SpawnFails
  <2>1. CASE Spawn
    BY <2>1 DEF Spawn
  <2>2. CASE SpawnFails
    BY <2>2 DEF SpawnFails
  <2> QED BY <1>10, <2>1, <2>2
<1>11. CASE Unmask \/ Unmasked
  <2>1. CASE Unmask
    BY <2>1 DEF Unmask, Settled
  <2>2. CASE Unmasked
    BY <2>2 DEF Unmasked, Settled
  <2> QED BY <1>11, <2>1, <2>2
<1>12. CASE Loop \/ Event
  <2>1. CASE Loop
    BY <2>1 DEF Loop
  <2>2. CASE Event
    <3>1. /\ UNCHANGED <<worker, status, returncode, cleanup>>
          /\ error' \in {error, "io", "tooLarge"}
      BY <2>2 DEF Event
    <3>2. open' \subseteq open
      BY <2>2 DEF Event
    <3> QED BY <3>1, <3>2
  <2> QED BY <1>12, <2>1, <2>2
<1>13. CASE AwaitExit \/ AwaitCheck
  <2>1. CASE AwaitExit
    BY <2>1 DEF AwaitExit
  <2>2. CASE AwaitCheck
    BY <2>2 DEF AwaitCheck
  <2> QED BY <1>13, <2>1, <2>2
<1>14. CASE BlockAgain
  BY <1>14 DEF BlockAgain
<1>15. CASE Cleanup
  BY <1>15 DEF Cleanup, CleanupSucceeds, CleanupFails, CleanupStatus
<1>16. ASSUME NEW s \in Signals, Restore(s)
      PROVE  RunOK'
  BY <1>16 DEF Restore, Settled
<1>17. CASE RestoreMask \/ Restored
  <2>1. CASE RestoreMask
    BY <2>1 DEF RestoreMask, Settled
  <2>2. CASE Restored
    BY <2>2 DEF Restored, Settled
  <2> QED BY <1>17, <2>1, <2>2
<1>18. CASE Conclude
  BY <1>18 DEF Conclude
<1>19. CASE Propagate
  BY <1>19 DEF Propagate
<1>20. CASE Result
  BY <1>20 DEF Result
<1> QED BY <1>1, <1>2, <1>3, <1>4, <1>5, <1>6, <1>7, <1>8, <1>9, <1>10, <1>11,
           <1>12, <1>13, <1>14, <1>15, <1>16, <1>17, <1>18, <1>19, <1>20
        DEF Next, Unwrap

-----------------------------------------------------------------------------
(***************************************************************************)
(* Each part of the invariant is kept by every step.                       *)
(***************************************************************************)

\* A signal that is delivered does nothing to unwrap, or kills it where it owns
\* no worker that has not been cleaned up.
LEMMA Delivered ==
  ASSUME HandlerInv, NEW s \in Signals, Deliver(s)
  PROVE  \/ UNCHANGED <<pc, outcome>>
         \/ /\ pc' = "exit" /\ outcome' = "killed"
            /\ pc \notin Guarded /\ ~(pc \in Closing /\ worker # "none")
<1>1. CASE handler[s] # "default"
  BY <1>1 DEF Deliver
<1>2. CASE handler[s] = "default"
  <2>1. s \notin installed /\ Deferred(s)
    BY <1>2 DEF HandlerInv, Deferred
  <2>2. ~AllInstalled
    BY <2>1 DEF AllInstalled
  <2> QED BY <1>2, <2>2 DEF Deliver, HandlerInv
<1> QED BY <1>1, <1>2

\* A handler that runs keeps a signal that the adapter has taken over, or
\* returns, or is the caller's and raises, and then likewise.
LEMMA HandlerRuns ==
  ASSUME SignalsOK, HandlerInv, NEW s \in Signals, RunHandler(s)
  PROVE  \/ /\ UNCHANGED <<pc, error, outcome>>
            /\ cancellation' = cancellation \/ maskSaved
         \/ /\ ~Tame /\ error' = "callerRaised" /\ UNCHANGED cancellation
            /\ pc \notin Guarded /\ ~(pc \in Closing /\ worker # "none")
            /\ \/ /\ pc \in {"masked", "install", "record"}
                  /\ pc' = "block" /\ UNCHANGED outcome
               \/ pc = "cleanup" /\ pc' = "restore" /\ UNCHANGED outcome
               \/ pc # "exit" /\ pc' = "exit" /\ outcome' = "callerRaised"
<1>1. CASE handler[s] = "defer"
  <2>1. maskSaved
    BY <1>1 DEF HandlerInv
  <2> QED BY <1>1, <2>1 DEF RunHandler
<1>2. CASE handler[s] = "callable" /\ UNCHANGED <<pc, error, outcome, cancellation>>
  BY <1>2
<1>3. CASE handler[s] = "callable" /\ ~UNCHANGED <<pc, error, outcome, cancellation>>
  <2>1. s \notin installed /\ Deferred(s)
    BY <1>3 DEF HandlerInv, Deferred
  <2>2. ~AllInstalled
    BY <2>1 DEF AllInstalled
  <2>3. pc \notin Guarded /\ ~(pc \in Closing /\ worker # "none")
    BY <2>2 DEF HandlerInv
  <2>4. /\ pc # "exit" /\ ~Tame /\ error' = "callerRaised" /\ UNCHANGED cancellation
        /\ IF AfterRaise = "exit" THEN Leave("callerRaised") ELSE Goto(AfterRaise)
    BY <1>3 DEF RunHandler, Tame
  <2>5. CASE pc \in {"masked", "install", "record"}
    BY <2>3, <2>4, <2>5 DEF AfterRaise, Goto
  <2>6. CASE pc = "cleanup"
    BY <2>3, <2>4, <2>6 DEF AfterRaise, Goto
  <2>7. CASE pc \notin {"masked", "install", "record", "cleanup"}
    <3>1. AfterRaise = "exit"
      BY <2>3, <2>7 DEF AfterRaise, Guarded, Operating
    <3> QED BY <2>3, <2>4, <3>1 DEF Leave
  <2> QED BY <2>5, <2>6, <2>7
<1> QED BY <1>1, <1>2, <1>3 DEF RunHandler

\* Each disposition is the adapter's or the caller's.
LEMMA HandlerKept ==
  ASSUME SignalsOK, HandlerInv, MaskInv, WorkerInv, Next
  PROVE  HandlerInv'
<1> USE DEF SignalsOK, HandlerInv, WorkerInv, AllInstalled, Unrecorded, Signals,
            Before, Operating, Guarded, Closing, Returning, Restoring, Deferred,
            Selected, Goto, Leave, Fail, Quiet, signalVars, deliveryVars, workerVars
<1>1. ASSUME NEW s \in Signals, Arrive(s)
      PROVE  HandlerInv'
  BY <1>1, CallerKind DEF Arrive
<1>2. ASSUME NEW s \in Signals, Deliver(s)
      PROVE  HandlerInv'
  BY <1>2, CallerKind DEF Deliver
<1>3. ASSUME NEW s \in Signals, RunHandler(s)
      PROVE  HandlerInv'
  <2>1. /\ UNCHANGED <<handler, installed, maskSaved, caller, worker>>
        /\ outcome # "killed" /\ (outcome' = "killed" => outcome = "killed")
    BY <1>3 DEF RunHandler
  <2>2. CASE UNCHANGED <<pc, error>>
    BY <2>1, <2>2
  <2>3. CASE /\ error' = "callerRaised" /\ pc' \in {"block", "restore", "exit"}
             /\ ~(pc' \in Closing /\ worker # "none")
    BY <2>1, <2>3
  <2> QED BY <1>3, <2>2, <2>3, HandlerRuns
<1>4. CASE WorkerExits
  BY <1>4, CallerKind DEF WorkerExits
<1>5. CASE ReapedElsewhere
  BY <1>5, CallerKind DEF ReapedElsewhere
<1>6. CASE Expire
  BY <1>6, CallerKind DEF Expire
<1>7. CASE Refuse \/ Block \/ SaveMask
  BY <1>7, CallerKind DEF Refuse, Block, SaveMask, Settled
<1>8. ASSUME NEW s \in Signals, Install(s) \/ Record(s)
      PROVE  HandlerInv'
  <2>1. CASE Install(s)
    <3>1. maskSaved
      BY <2>1 DEF Install, MaskInv
    <3> QED BY <2>1, <3>1, CallerKind DEF Install, HandlerKinds
  <2>2. CASE Record(s)
    BY <2>2, CallerKind DEF Record
  <2> QED BY <1>8, <2>1, <2>2
<1>9. CASE Installed \/ CheckCancelled
  BY <1>9, CallerKind DEF Installed, CheckCancelled
<1>10. CASE Spawn \/ SpawnFails
  BY <1>10, CallerKind DEF Spawn, SpawnFails
<1>11. CASE Unmask \/ Unmasked
  BY <1>11, CallerKind DEF Unmask, Unmasked, Settled
<1>12. CASE Loop \/ Event
  BY <1>12, CallerKind DEF Loop, Event
<1>13. CASE AwaitExit \/ AwaitCheck
  BY <1>13, CallerKind DEF AwaitExit, AwaitCheck
<1>14. CASE BlockAgain
  BY <1>14, CallerKind DEF BlockAgain
<1>15. CASE Cleanup
  BY <1>15, CallerKind DEF Cleanup, CleanupSucceeds, CleanupFails,
                           CleanupStatus
<1>16. ASSUME NEW s \in Signals, Restore(s)
      PROVE  HandlerInv'
  BY <1>16, CallerKind DEF Restore, Settled, HandlerKinds
<1>17. CASE RestoreMask \/ Restored
  <2>1. CASE RestoreMask
    BY <2>1 DEF RestoreMask
  <2>2. CASE Restored
    BY <2>2 DEF Restored
  <2> QED BY <1>17, <2>1, <2>2
<1>18. CASE Conclude
  BY <1>18, CallerKind DEF Conclude
<1>19. CASE Propagate
  BY <1>19, CallerKind DEF Propagate
<1>20. CASE Result
  BY <1>20, CallerKind DEF Result
<1> QED BY <1>1, <1>2, <1>3, <1>4, <1>5, <1>6, <1>7, <1>8, <1>9, <1>10, <1>11,
           <1>12, <1>13, <1>14, <1>15, <1>16, <1>17, <1>18, <1>19, <1>20
        DEF Next, Unwrap

\* The mask can be restored once it has been saved.
LEMMA MaskKept ==
  ASSUME SignalsOK, HandlerInv, MaskInv, WorkerInv, Next
  PROVE  MaskInv'
<1> USE DEF SignalsOK, HandlerInv, MaskInv, WorkerInv, WorkerSeesCallersMask,
            Tame, Before, Operating, Guarded, Closing, Returning, Restoring,
            Deferred, Selected, Unrecorded, Goto, Leave, Fail, Quiet, signalVars,
            deliveryVars, workerVars
<1>1. ASSUME NEW s \in Signals, Arrive(s)
      PROVE  MaskInv'
  BY <1>1, CallerKind DEF Arrive
<1>2. ASSUME NEW s \in Signals, Deliver(s)
      PROVE  MaskInv'
  BY <1>2, Delivered DEF Deliver
<1>3. ASSUME NEW s \in Signals, RunHandler(s)
      PROVE  MaskInv'
  BY <1>3, HandlerRuns DEF RunHandler
<1>4. CASE WorkerExits
  BY <1>4, CallerKind DEF WorkerExits
<1>5. CASE ReapedElsewhere
  BY <1>5, CallerKind DEF ReapedElsewhere
<1>6. CASE Expire
  BY <1>6, CallerKind DEF Expire
<1>7. CASE Refuse \/ Block \/ SaveMask
  BY <1>7, CallerKind DEF Refuse, Block, SaveMask, Settled
<1>8. ASSUME NEW s \in Signals, Install(s) \/ Record(s)
      PROVE  MaskInv'
  BY <1>8, CallerKind DEF Install, Record, Settled
<1>9. CASE Installed \/ CheckCancelled
  BY <1>9, CallerKind DEF Installed, CheckCancelled
<1>10. CASE Spawn \/ SpawnFails
  BY <1>10, CallerKind DEF Spawn, SpawnFails
<1>11. CASE Unmask \/ Unmasked
  BY <1>11, CallerKind DEF Unmask, Unmasked, Settled
<1>12. CASE Loop \/ Event
  BY <1>12, CallerKind DEF Loop, Event
<1>13. CASE AwaitExit \/ AwaitCheck
  BY <1>13, CallerKind DEF AwaitExit, AwaitCheck
<1>14. CASE BlockAgain
  BY <1>14, CallerKind DEF BlockAgain
<1>15. CASE Cleanup
  BY <1>15, CallerKind DEF Cleanup, CleanupSucceeds, CleanupFails,
                           CleanupStatus
<1>16. ASSUME NEW s \in Signals, Restore(s)
      PROVE  MaskInv'
  BY <1>16, CallerKind DEF Restore, Settled
<1>17. CASE RestoreMask \/ Restored
  BY <1>17, CallerKind DEF RestoreMask, Restored, Settled
<1>18. CASE Conclude
  BY <1>18, CallerKind DEF Conclude
<1>19. CASE Propagate
  BY <1>19, CallerKind DEF Propagate
<1>20. CASE Result
  BY <1>20, CallerKind DEF Result
<1> QED BY <1>1, <1>2, <1>3, <1>4, <1>5, <1>6, <1>7, <1>8, <1>9, <1>10, <1>11,
           <1>12, <1>13, <1>14, <1>15, <1>16, <1>17, <1>18, <1>19, <1>20
        DEF Next, Unwrap

\* An operation without an error has its worker.
LEMMA WorkerKept ==
  ASSUME SignalsOK, RunOK, HandlerInv, WorkerInv, Next
  PROVE  WorkerInv'
<1> USE DEF RunOK, WorkerInv, Before, Operating, Guarded, Closing, Returning,
            Restoring, Deferred, Goto, Leave, Fail, Quiet, signalVars,
            deliveryVars, workerVars
<1>1. ASSUME NEW s \in Signals, Arrive(s)
      PROVE  WorkerInv'
  BY <1>1 DEF Arrive
<1>2. ASSUME NEW s \in Signals, Deliver(s)
      PROVE  WorkerInv'
  BY <1>2, Delivered DEF Deliver
<1>3. ASSUME NEW s \in Signals, RunHandler(s)
      PROVE  WorkerInv'
  BY <1>3, HandlerRuns DEF RunHandler
<1>4. CASE WorkerExits
  BY <1>4 DEF WorkerExits
<1>5. CASE ReapedElsewhere
  BY <1>5 DEF ReapedElsewhere
<1>6. CASE Expire
  BY <1>6 DEF Expire
<1>7. CASE Refuse \/ Block \/ SaveMask
  BY <1>7 DEF Refuse, Block, SaveMask, Settled
<1>8. ASSUME NEW s \in Signals, Install(s) \/ Record(s)
      PROVE  WorkerInv'
  BY <1>8 DEF Install, Record, Settled
<1>9. CASE Installed \/ CheckCancelled
  BY <1>9 DEF Installed, CheckCancelled
<1>10. CASE Spawn \/ SpawnFails
  BY <1>10 DEF Spawn, SpawnFails
<1>11. CASE Unmask \/ Unmasked
  BY <1>11 DEF Unmask, Unmasked, Settled
<1>12. CASE Loop \/ Event
  BY <1>12 DEF Loop, Event
<1>13. CASE AwaitExit \/ AwaitCheck
  BY <1>13 DEF AwaitExit, AwaitCheck
<1>14. CASE BlockAgain
  BY <1>14 DEF BlockAgain
<1>15. CASE Cleanup
  BY <1>15 DEF Cleanup, CleanupSucceeds, CleanupFails, CleanupStatus
<1>16. ASSUME NEW s \in Signals, Restore(s)
      PROVE  WorkerInv'
  BY <1>16 DEF Restore, Settled
<1>17. CASE RestoreMask \/ Restored
  BY <1>17 DEF RestoreMask, Restored, Settled
<1>18. CASE Conclude
  BY <1>18 DEF Conclude
<1>19. CASE Propagate
  BY <1>19 DEF Propagate
<1>20. CASE Result
  BY <1>20 DEF Result
<1> QED BY <1>1, <1>2, <1>3, <1>4, <1>5, <1>6, <1>7, <1>8, <1>9, <1>10, <1>11,
           <1>12, <1>13, <1>14, <1>15, <1>16, <1>17, <1>18, <1>19, <1>20
        DEF Next, Unwrap

\* A worker is cleaned up before the adapter lets it go.
LEMMA CleanupKept ==
  ASSUME SignalsOK, PlaceOK, HandlerInv, WorkerInv, CleanupInv, Next
  PROVE  CleanupInv'
<1> USE DEF PlaceOK, Places, WorkerInv, CleanupInv, Before, Operating,
            Guarded, Closing, Returning, Restoring, Deferred, Goto, Leave,
            Fail, Quiet, signalVars, deliveryVars, workerVars
<1>1. ASSUME NEW s \in Signals, Arrive(s)
      PROVE  CleanupInv'
  BY <1>1 DEF Arrive
<1>2. ASSUME NEW s \in Signals, Deliver(s)
      PROVE  CleanupInv'
  BY <1>2, Delivered DEF Deliver
<1>3. ASSUME NEW s \in Signals, RunHandler(s)
      PROVE  CleanupInv'
  BY <1>3, HandlerRuns DEF RunHandler
<1>4. CASE WorkerExits
  BY <1>4 DEF WorkerExits
<1>5. CASE ReapedElsewhere
  BY <1>5 DEF ReapedElsewhere
<1>6. CASE Expire
  BY <1>6 DEF Expire
<1>7. CASE Refuse \/ Block \/ SaveMask
  BY <1>7 DEF Refuse, Block, SaveMask, Settled
<1>8. ASSUME NEW s \in Signals, Install(s) \/ Record(s)
      PROVE  CleanupInv'
  BY <1>8 DEF Install, Record, Settled
<1>9. CASE Installed \/ CheckCancelled
  BY <1>9 DEF Installed, CheckCancelled
<1>10. CASE Spawn \/ SpawnFails
  BY <1>10 DEF Spawn, SpawnFails
<1>11. CASE Unmask \/ Unmasked
  BY <1>11 DEF Unmask, Unmasked, Settled
<1>12. CASE Loop \/ Event
  BY <1>12 DEF Loop, Event
<1>13. CASE AwaitExit \/ AwaitCheck
  BY <1>13 DEF AwaitExit, AwaitCheck
<1>14. CASE BlockAgain
  BY <1>14 DEF BlockAgain
<1>15. CASE Cleanup
  BY <1>15 DEF Cleanup, CleanupSucceeds, CleanupFails, CleanupStatus
<1>16. ASSUME NEW s \in Signals, Restore(s)
      PROVE  CleanupInv'
  BY <1>16 DEF Restore, Settled
<1>17. CASE RestoreMask \/ Restored
  BY <1>17 DEF RestoreMask, Restored, Settled
<1>18. CASE Conclude
  BY <1>18 DEF Conclude
<1>19. CASE Propagate
  BY <1>19 DEF Propagate
<1>20. CASE Result
  BY <1>20 DEF Result
<1> QED BY <1>1, <1>2, <1>3, <1>4, <1>5, <1>6, <1>7, <1>8, <1>9, <1>10, <1>11,
           <1>12, <1>13, <1>14, <1>15, <1>16, <1>17, <1>18, <1>19, <1>20
        DEF Next, Unwrap

\* A status is known by the cleanup, and is the worker's own.
LEMMA FoundKept ==
  ASSUME RunOK, CleanupInv, FoundInv, Next
  PROVE  FoundInv'
<1> USE DEF RunOK, CleanupInv, FoundInv, Before, Operating, Guarded, Closing,
            Returning, Restoring, Deferred, Goto, Leave, Fail, Quiet,
            signalVars, deliveryVars, workerVars
<1>1. ASSUME NEW s \in Signals, Arrive(s)
      PROVE  FoundInv'
  BY <1>1 DEF Arrive
<1>2. ASSUME NEW s \in Signals, Deliver(s)
      PROVE  FoundInv'
  BY <1>2 DEF Deliver
<1>3. ASSUME NEW s \in Signals, RunHandler(s)
      PROVE  FoundInv'
  BY <1>3 DEF RunHandler, AfterRaise
<1>4. CASE WorkerExits
  BY <1>4 DEF WorkerExits
<1>5. CASE ReapedElsewhere
  BY <1>5 DEF ReapedElsewhere
<1>6. CASE Expire
  BY <1>6 DEF Expire
<1>7. CASE Refuse \/ Block \/ SaveMask
  BY <1>7 DEF Refuse, Block, SaveMask, Settled
<1>8. ASSUME NEW s \in Signals, Install(s) \/ Record(s)
      PROVE  FoundInv'
  BY <1>8 DEF Install, Record, Settled
<1>9. CASE Installed \/ CheckCancelled
  BY <1>9 DEF Installed, CheckCancelled
<1>10. CASE Spawn \/ SpawnFails
  BY <1>10 DEF Spawn, SpawnFails
<1>11. CASE Unmask \/ Unmasked
  BY <1>11 DEF Unmask, Unmasked, Settled
<1>12. CASE Loop \/ Event
  BY <1>12 DEF Loop, Event
<1>13. CASE AwaitExit \/ AwaitCheck
  BY <1>13 DEF AwaitExit, AwaitCheck
<1>14. CASE BlockAgain
  BY <1>14 DEF BlockAgain
<1>15. CASE Cleanup
  BY <1>15 DEF Cleanup, CleanupSucceeds, CleanupFails, CleanupStatus
<1>16. ASSUME NEW s \in Signals, Restore(s)
      PROVE  FoundInv'
  BY <1>16 DEF Restore, Settled
<1>17. CASE RestoreMask \/ Restored
  BY <1>17 DEF RestoreMask, Restored, Settled
<1>18. CASE Conclude
  BY <1>18 DEF Conclude
<1>19. CASE Propagate
  BY <1>19 DEF Propagate
<1>20. CASE Result
  BY <1>20 DEF Result
<1> QED BY <1>1, <1>2, <1>3, <1>4, <1>5, <1>6, <1>7, <1>8, <1>9, <1>10, <1>11,
           <1>12, <1>13, <1>14, <1>15, <1>16, <1>17, <1>18, <1>19, <1>20
        DEF Next, Unwrap

\* What unwrap reports fits what it has done.
LEMMA OutcomeKept ==
  ASSUME SignalsOK, RunOK, HandlerInv, MaskInv, WorkerInv,
         CleanupInv, OutcomeInv, Next
  PROVE  OutcomeInv'
<1> USE DEF SignalsOK, RunOK, HandlerInv, MaskInv, WorkerInv, CleanupInv,
            OutcomeInv, CallerState, Tame, AllInstalled, Before, Operating,
            Guarded, Closing, Returning, Restoring, Deferred, Selected,
            Unrecorded, Goto, Leave, Fail, Quiet, signalVars, deliveryVars,
            workerVars
<1>1. ASSUME NEW s \in Signals, Arrive(s)
      PROVE  OutcomeInv'
  BY <1>1, CallerKind DEF Arrive
<1>2. ASSUME NEW s \in Signals, Deliver(s)
      PROVE  OutcomeInv'
  BY <1>2, Delivered DEF Deliver
<1>3. ASSUME NEW s \in Signals, RunHandler(s)
      PROVE  OutcomeInv'
  BY <1>3, HandlerRuns DEF RunHandler
<1>4. CASE WorkerExits
  BY <1>4, CallerKind DEF WorkerExits
<1>5. CASE ReapedElsewhere
  BY <1>5, CallerKind DEF ReapedElsewhere
<1>6. CASE Expire
  BY <1>6, CallerKind DEF Expire
<1>7. CASE Refuse \/ Block \/ SaveMask
  BY <1>7, CallerKind DEF Refuse, Block, SaveMask, Settled
<1>8. ASSUME NEW s \in Signals, Install(s) \/ Record(s)
      PROVE  OutcomeInv'
  BY <1>8, CallerKind DEF Install, Record, Settled
<1>9. CASE Installed \/ CheckCancelled
  BY <1>9, CallerKind DEF Installed, CheckCancelled
<1>10. CASE Spawn \/ SpawnFails
  BY <1>10, CallerKind DEF Spawn, SpawnFails
<1>11. CASE Unmask \/ Unmasked
  BY <1>11, CallerKind DEF Unmask, Unmasked, Settled
<1>12. CASE Loop \/ Event
  BY <1>12, CallerKind DEF Loop, Event
<1>13. CASE AwaitExit \/ AwaitCheck
  BY <1>13, CallerKind DEF AwaitExit, AwaitCheck
<1>14. CASE BlockAgain
  BY <1>14, CallerKind DEF BlockAgain
<1>15. CASE Cleanup
  BY <1>15, CallerKind DEF Cleanup, CleanupSucceeds, CleanupFails,
                           CleanupStatus
<1>16. ASSUME NEW s \in Signals, Restore(s)
      PROVE  OutcomeInv'
  BY <1>16, CallerKind DEF Restore, Settled
<1>17. CASE RestoreMask \/ Restored
  BY <1>17, CallerKind DEF RestoreMask, Restored, Settled
<1>18. CASE Conclude
  BY <1>18, CallerKind DEF Conclude
<1>19. CASE Propagate
  BY <1>19, CallerKind DEF Propagate
<1>20. CASE Result
  BY <1>20, CallerKind DEF Result
<1> QED BY <1>1, <1>2, <1>3, <1>4, <1>5, <1>6, <1>7, <1>8, <1>9, <1>10, <1>11,
           <1>12, <1>13, <1>14, <1>15, <1>16, <1>17, <1>18, <1>19, <1>20
        DEF Next, Unwrap

-----------------------------------------------------------------------------
(***************************************************************************)
(* The theorems.                                                           *)
(***************************************************************************)

\* The invariant holds when unwrap is called.
LEMMA AdapterInit == Init => AdapterInv
<1> SUFFICES ASSUME Init PROVE AdapterInv
  OBVIOUS
<1> USE DEF Init
<1>1. FlagsOK
  BY Zenon DEF FlagsOK
<1>2. SignalsOK
  <2>1. caller.mask \subseteq Signals /\ caller.handler \in [Signals -> HandlerKinds]
    BY CallerKind
  <2>2. arrived \in 0..MaxSignals
    BY BoundAssumption
  <2> QED BY <2>1, <2>2 DEF SignalsOK
<1>3. PlaceOK /\ RunOK
  BY DEF PlaceOK, RunOK, Places, Outcomes
<1>4. HandlerInv
  <2>1. \A s \in Signals : handler[s] = caller.handler[s] /\ handler[s] # "defer"
    BY CallerKind DEF HandlerKinds
  <2>2. \A s \in Signals : ~Unrecorded(s)
    BY DEF Unrecorded
  <2> QED BY <2>1, <2>2 DEF HandlerInv, Guarded, Operating, Closing, Returning
<1>5. MaskInv
  BY DEF MaskInv, Before, Guarded, Operating, Returning, WorkerSeesCallersMask
<1>6. WorkerInv
  BY DEF WorkerInv, Before, Guarded, Operating, Closing, Restoring, Returning
<1>7. CleanupInv /\ FoundInv
  BY DEF CleanupInv, FoundInv, Restoring, Returning
<1>8. OutcomeInv
  BY DEF OutcomeInv
<1> QED BY <1>1, <1>2, <1>3, <1>4, <1>5, <1>6, <1>7, <1>8, TypesByKind DEF AdapterInv

\* Every step keeps it.
LEMMA AdapterStep == AdapterInv /\ [Next]_vars => AdapterInv'
<1> SUFFICES ASSUME AdapterInv, [Next]_vars PROVE AdapterInv'
  OBVIOUS
<1>1. CASE Next
  <2>1. SignalsOK /\ FlagsOK /\ PlaceOK /\ RunOK
    BY TypesByKind DEF AdapterInv
  <2>2. TypeOK'
    BY <1>1, <2>1, SignalsKept, FlagsKept, PlaceKept, RunKept
       DEF TypeOK, SignalsOK, FlagsOK, PlaceOK, RunOK
  <2> QED
    BY <1>1, <2>1, <2>2, HandlerKept, MaskKept, WorkerKept, CleanupKept,
       FoundKept, OutcomeKept
       DEF AdapterInv
<1>2. CASE UNCHANGED vars
  BY <1>2
     DEF vars, signalVars, deliveryVars, workerVars, AdapterInv, TypeOK,
         HandlerInv, AllInstalled, Deferred, Selected, Unrecorded, MaskInv,
         Tame, WorkerSeesCallersMask, WorkerInv, CleanupInv, FoundInv, OutcomeInv,
         CallerState
<1> QED BY <1>1, <1>2

LEMMA AdapterInvariant == Spec => []AdapterInv
  BY AdapterInit, AdapterStep, PTL DEF Spec

\* Whatever signals arrive, a caller whose handlers return gets its mask and
\* its dispositions back, and a worker starts with the caller's mask
\* (fido_custody.py:313-329, 332-358 and 413-419).
THEOREM CallerStateRestoredHolds == Spec => []CallerStateRestored
<1>1. AdapterInv => CallerStateRestored
  BY DEF AdapterInv, MaskInv, OutcomeInv, CallerStateRestored,
         CallerStateAlwaysRestored
<1> QED BY <1>1, AdapterInvariant, PTL

\* unwrap never ends, returning, raising or killed, with a worker it owns and
\* has not tried to clean up (fido_custody.py:306-425).
THEOREM CleanupAlwaysAttemptedHolds == Spec => []CleanupAlwaysAttempted
<1>1. AdapterInv => CleanupAlwaysAttempted
  BY DEF AdapterInv, CleanupInv, CleanupAlwaysAttempted
<1> QED BY <1>1, AdapterInvariant, PTL

\* A response is admitted only from a worker that exited with status 0 and left
\* nothing behind, in an operation nobody cancelled (fido_custody.py:400-428).
THEOREM ResultMeansCleanExitHolds == Spec => []ResultMeansCleanExit
<1>1. AdapterInv => ResultMeansCleanExit
  BY DEF AdapterInv, FoundInv, OutcomeInv, ResultMeansCleanExit
<1> QED BY <1>1, AdapterInvariant, PTL

\* A deferred signal is propagated after a successful cleanup, with the caller's
\* mask restored, and its dispositions too unless a handler of the caller's
\* raised; and it is not lost to a tame caller (fido_custody.py:313-426).
THEOREM CancellationHonouredHolds == Spec => []CancellationHonoured
<1>1. AdapterInv => PropagatesOnlyAfterCleanup
  <2> SUFFICES ASSUME AdapterInv PROVE PropagatesOnlyAfterCleanup
    OBVIOUS
  <2>1. ASSUME pc = "propagate"
        PROVE  mask = caller.mask /\ (error # "callerRaised" => handler = caller.handler)
    <3>1. mask = caller.mask
      BY <2>1 DEF AdapterInv, MaskInv, OutcomeInv, Returning
    <3>2. error # "callerRaised" => \A s \in Signals : handler[s] = caller.handler[s]
      BY <2>1 DEF AdapterInv, HandlerInv, Unrecorded, Returning
    <3>3. error # "callerRaised" => handler = caller.handler
      <4>1. handler \in [Signals -> HandlerKinds \cup {"defer"}] /\ caller \in Callers
        BY DEF AdapterInv, TypeOK
      <4>2. caller.handler \in [Signals -> HandlerKinds]
        BY <4>1, CallerKind
      <4> QED BY <3>2, <4>1, <4>2
    <3> QED BY <3>1, <3>3
  <2>2. ASSUME pc = "propagate", worker # "none", owned
        PROVE  cleanup = "ok"
    BY <2>2 DEF AdapterInv, TypeOK, CleanupInv, OutcomeInv, Restoring, Returning
  <2>3. ASSUME Tame, pc = "exit", cleanup \in {"failed", "lost"}
        PROVE  outcome \in {"cleanupError", "killed"}
    BY <2>3 DEF AdapterInv, OutcomeInv
  <2>4. outcome = "cancelled" =>
          /\ mask = caller.mask /\ (error # "callerRaised" => handler = caller.handler)
          /\ worker # "none" /\ owned => cleanup = "ok"
    BY DEF AdapterInv, OutcomeInv
  <2> QED BY <2>1, <2>2, <2>3, <2>4 DEF PropagatesOnlyAfterCleanup
<1>2. AdapterInv => CancellationNotLost
  BY DEF AdapterInv, TypeOK, Outcomes, OutcomeInv, CancellationNotLost
<1> QED BY <1>1, <1>2, AdapterInvariant, PTL DEF CancellationHonoured
=============================================================================
