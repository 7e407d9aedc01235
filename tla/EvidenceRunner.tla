--------------------------- MODULE EvidenceRunner ---------------------------
(***************************************************************************)
(* A conformance runner (conformance/run-sq.sh, run-signing-profile.sh)    *)
(* with the library it sources, conformance/sq-evidence-lib.sh: a bash     *)
(* script that makes a working directory, runs one evidence helper after   *)
(* another in its own process group, consumes each helper's receipt, and   *)
(* at the end removes the directory and leaves the runner's receipt.  Its  *)
(* ERR, TERM and EXIT traps finish early.                                  *)
(*                                                                         *)
(* bash runs a trap between two commands, and not before a foreground      *)
(* command has ended; a TERM sent to the group reaches the helper at once. *)
(* The helper is what OwnedRun promises; until its own handler is in place *)
(* (sq_evidence_process.py:453) a TERM simply kills it.                    *)
(***************************************************************************)
EXTENDS Naturals

CONSTANTS
    MaxTools,  \* the tools one runner runs
    MaxTerms   \* bound on the TERMs sent to the runner's group

ASSUME BoundAssumption == MaxTools \in Nat /\ MaxTerms \in Nat

VARIABLES
    pc,             \* the next command, see Commands
    why,            \* on whose behalf: "run", "main", "exit", "err" or "term"
    traps,          \* TERM's disposition: "default", "set" or "ignored"
    pending,        \* a TERM waits for its trap
    terms,          \* TERMs sent so far
    code,           \* exit: "0", "nonzero", "terminated" by TERM, "killed"
    work,           \* the variable work_dir is set
    active,         \* SQ_EVIDENCE_ACTIVE_PROCESS_RECEIPT is set
    tools,          \* helpers started so far
    dir,            \* the directory: "absent", "empty", "material" or "gone"
    runnerReceipt,  \* "absent", "empty" or "valid"; "unasked": no path was given
    refused,        \* the file system refused a removal or a receipt
    helper,         \* the latest helper: "none", "starting", "owning", "gone"
    started, live, receipt, result,  \* its run, see OwnedRun
    consumed        \* its receipt has been removed

Run == INSTANCE OwnedRun

scriptVars == <<pc, why, code>>
shellVars == <<traps, pending, work, active, tools>>
fileVars == <<dir, runnerReceipt, refused>>
runVars == <<started, live, receipt, result>>
vars == <<scriptVars, shellVars, terms, fileVars, helper, runVars, consumed>>

Commands ==
    {"boot", "setup", "mktemp", "assign", "copy", "next", "launch", "helper",
     "consume", "rm", "clear", "status", "fin", "await", "confirm", "remove",
     "write", "writing", "done", "untrap", "report", "exit"}

Init ==
    /\ pc = "boot" /\ why = "run" /\ code = "none"
    /\ traps = "default" /\ pending = FALSE /\ terms = 0
    /\ work = FALSE /\ active = FALSE /\ tools = 0
    /\ dir = "absent" /\ refused = FALSE
    /\ runnerReceipt \in {"absent", "unasked"}
    /\ helper = "none" /\ consumed = FALSE
    /\ Run!Init

-----------------------------------------------------------------------------
(***************************************************************************)
(* The environment: the outer helper's TERM and KILL, and the inner helper *)
(* with its tool, which runs in a session of its own.                      *)
(***************************************************************************)

TermArrives ==
    /\ pc # "exit" /\ terms < MaxTerms
    /\ terms' = terms + 1
    /\ pending' = (pending \/ traps # "ignored")
    /\ IF helper = "starting" THEN helper' = "gone" /\ result' = "failed"
                              ELSE UNCHANGED <<helper, result>>
    /\ UNCHANGED <<scriptVars, traps, work, active, tools, fileVars, started,
                   live, receipt, consumed>>

\* KILL follows a TERM that did not end the group in time.
KillArrives ==
    /\ pc # "exit" /\ terms > 0
    /\ pc' = "exit" /\ code' = "killed"
    /\ IF helper \in {"starting", "owning"}
       THEN helper' = "gone" /\ result' = "failed"
       ELSE UNCHANGED <<helper, result>>
    /\ UNCHANGED <<why, shellVars, terms, fileVars, started, live, receipt,
                   consumed>>

HelperReady ==
    /\ helper = "starting"
    /\ \/ helper' = "owning" /\ UNCHANGED result
       \/ helper' = "gone" /\ result' = "failed"
    /\ UNCHANGED <<scriptVars, shellVars, terms, fileVars, started, live, receipt,
                   consumed>>

HelperRuns ==
    /\ helper = "owning"
    /\ Run!Start \/ Run!Certify
    /\ UNCHANGED <<scriptVars, shellVars, terms, fileVars, helper, consumed>>

HelperReports ==
    /\ helper = "owning"
    /\ Run!Report
    /\ helper' = "gone"
    /\ UNCHANGED <<scriptVars, shellVars, terms, fileVars, consumed>>

ToolEnds ==
    /\ Run!Die
    /\ UNCHANGED <<scriptVars, shellVars, terms, fileVars, helper, consumed>>

-----------------------------------------------------------------------------
(***************************************************************************)
(* The script.                                                             *)
(***************************************************************************)

\* A command runs only after the traps of the signals that have arrived.
At(command) == pc = command /\ ~(pending /\ traps = "set")

Goto(command) == pc' = command /\ UNCHANGED <<why, code>>

\* The script's exit fails the caller whatever it was asked to end with.
End(status) == pc' = "exit" /\ code' = status /\ UNCHANGED why

\* A failed command: the ERR trap, or run-sq.sh:163 and the EXIT trap, or the
\* end of a finalization that was under way.  The faulty variant does not look
\* at the cleanup's status in line 162.
WrongFailed ==
    \/ /\ why \in {"run", "exit"}
       /\ pc' = "fin" /\ why' = "err" /\ UNCHANGED code
    \/ /\ why = "main"
       /\ Goto("done")
    \/ /\ why \in {"err", "term"}
       /\ End("nonzero")
Failed ==
    \/ /\ why \in {"run", "exit"}
       /\ pc' = "fin" /\ why' = "err" /\ UNCHANGED code
    \/ /\ why = "main"
       /\ pc' = "confirm" /\ why' = "exit" /\ UNCHANGED code
    \/ /\ why \in {"err", "term"}
       /\ End("nonzero")

Proof == receipt /\ ~consumed

Outside == UNCHANGED <<terms, helper, runVars>>

\* run-sq.sh:8-42.
Boot ==
    /\ At("boot")
    /\ traps' = "set" /\ Goto("setup")
    /\ UNCHANGED <<pending, work, active, tools, fileVars, consumed>>
    /\ Outside

\* run-sq.sh:44-49.
Setup ==
    /\ At("setup")
    /\ Goto("mktemp") \/ Failed
    /\ UNCHANGED <<shellVars, fileVars, consumed>>
    /\ Outside

\* run-sq.sh:50: the directory exists before the script knows its name.
MkTemp ==
    /\ At("mktemp")
    /\ \/ dir' = "empty" /\ Goto("assign")
       \/ Failed /\ UNCHANGED dir
    /\ UNCHANGED <<shellVars, runnerReceipt, refused, consumed>>
    /\ Outside
Assign ==
    /\ At("assign")
    /\ work' = TRUE /\ Goto("copy")
    /\ UNCHANGED <<traps, pending, active, tools, fileVars, consumed>>
    /\ Outside

\* run-sq.sh:52-53.
Copy ==
    /\ At("copy")
    /\ dir' = "material"
    /\ Goto("next") \/ Failed
    /\ UNCHANGED <<shellVars, runnerReceipt, refused, consumed>>
    /\ Outside

\* The next tool (sq-evidence-lib.sh:65-73), or the end of the main line
\* (run-sq.sh:161-162); between the tools any other command may fail.
NextCommand ==
    /\ At("next")
    /\ \/ tools < MaxTools /\ active' = TRUE /\ Goto("launch")
       \/ tools = MaxTools /\ UNCHANGED active
          /\ pc' = "confirm" /\ why' = "main" /\ UNCHANGED code
       \/ Failed /\ UNCHANGED active
    /\ UNCHANGED <<traps, pending, work, tools, fileVars, consumed>>
    /\ Outside

\* Lines 74-76.
Launch ==
    /\ At("launch")
    /\ tools' = tools + 1 /\ helper' = "starting"
    /\ started' = FALSE /\ live' = FALSE /\ receipt' = FALSE /\ result' = "none"
    /\ consumed' = FALSE
    /\ Goto("helper")
    /\ UNCHANGED <<traps, pending, work, active, terms, fileVars>>

HelperDone ==
    /\ At("helper") /\ helper = "gone"
    /\ Goto(IF active THEN "consume" ELSE "status")
    /\ UNCHANGED <<shellVars, fileVars, consumed>>
    /\ Outside

\* Lines 92-112, called from line 78 and from line 124.  The faulty variant
\* goes on without a valid receipt.
WrongConsume ==
    /\ At("consume")
    /\ Goto(IF Proof THEN "rm" ELSE "clear")
    /\ UNCHANGED <<shellVars, fileVars, consumed>>
    /\ Outside
Consume ==
    /\ At("consume")
    /\ IF Proof THEN Goto("rm") ELSE Failed
    /\ UNCHANGED <<shellVars, fileVars, consumed>>
    /\ Outside

\* Lines 113-116.
Rm ==
    /\ At("rm")
    /\ \/ consumed' = TRUE /\ Goto("clear") /\ UNCHANGED refused
       \/ refused' = TRUE /\ Failed /\ UNCHANGED consumed
    /\ UNCHANGED <<shellVars, dir, runnerReceipt>>
    /\ Outside

\* Lines 79 and 126.
Clear ==
    /\ At("clear")
    /\ active' = FALSE
    /\ Goto(IF why = "run" THEN "status" ELSE "remove")
    /\ UNCHANGED <<traps, pending, work, tools, fileVars, consumed>>
    /\ Outside

\* Lines 81 and 357-392: the helper's own status, then the tool's.
Status ==
    /\ At("status")
    /\ \/ result = "status" /\ Goto("next")
       \/ Failed
    /\ UNCHANGED <<shellVars, fileVars, consumed>>
    /\ Outside

-----------------------------------------------------------------------------
(***************************************************************************)
(* The traps and the finalizer.                                            *)
(***************************************************************************)

\* run-sq.sh:34-41; by default TERM ends the script.
TakeTerm ==
    /\ pending /\ pc \notin {"exit", "writing"}
    /\ pc = "helper" => helper = "gone"
    /\ pending' = FALSE
    /\ IF traps = "set" THEN pc' = "fin" /\ why' = "term" /\ UNCHANGED code
                        ELSE End("terminated")
    /\ UNCHANGED <<traps, work, active, tools, fileVars, consumed>>
    /\ Outside

\* sq_evidence_exit_runner, lines 220-231.  The faulty variant leaves the
\* finalization of errors to an exit trap that is no longer there.
WrongFin ==
    /\ At("fin")
    /\ traps' = "ignored"
    /\ IF why = "term" THEN Goto("await") ELSE End("nonzero")
    /\ UNCHANGED <<pending, work, active, tools, fileVars, consumed>>
    /\ Outside
Fin ==
    /\ At("fin")
    /\ traps' = "ignored"
    /\ Goto(IF why = "term" THEN "await" ELSE "confirm")
    /\ UNCHANGED <<pending, work, active, tools, fileVars, consumed>>
    /\ Outside

\* Lines 129-165: the receipt, or its deadline; the finalization goes on
\* either way (lines 232-239).  The faulty variant has no deadline.
WrongAwait ==
    /\ At("await")
    /\ active => Proof
    /\ Goto("confirm")
    /\ UNCHANGED <<shellVars, fileVars, consumed>>
    /\ Outside
Await ==
    /\ At("await")
    /\ Goto("confirm")
    /\ UNCHANGED <<shellVars, fileVars, consumed>>
    /\ Outside

\* Lines 119-127, from sq_evidence_finish_runner_cleanup (213) or, without a
\* directory, from line 244.  The faulty variant does not ask for the proof.
WrongConfirm ==
    /\ At("confirm")
    /\ Goto("remove")
    /\ UNCHANGED <<shellVars, fileVars, consumed>>
    /\ Outside
Confirm ==
    /\ At("confirm")
    /\ Goto(IF active THEN "consume" ELSE "remove")
    /\ UNCHANGED <<shellVars, fileVars, consumed>>
    /\ Outside

\* Lines 215 and 469-484; without a directory there is nothing to remove.
Remove ==
    /\ At("remove")
    /\ \/ work /\ dir' = "gone" /\ Goto("write") /\ UNCHANGED refused
       \/ work /\ refused' = TRUE /\ Failed /\ UNCHANGED dir
       \/ ~work /\ Goto("write") /\ UNCHANGED <<dir, refused>>
    /\ UNCHANGED <<shellVars, runnerReceipt, consumed>>
    /\ Outside

\* The finalization has succeeded.
Finalized == IF why = "main" THEN Goto("done") ELSE End("nonzero")

\* Lines 167-193: a runner started by hand is asked for no receipt, and no
\* receipt is written twice.
Write ==
    /\ At("write")
    /\ \/ runnerReceipt = "unasked" /\ Finalized /\ UNCHANGED <<runnerReceipt, refused>>
       \/ /\ runnerReceipt \in {"empty", "valid"}
          /\ Failed /\ UNCHANGED <<runnerReceipt, refused>>
       \/ /\ runnerReceipt = "absent"
          /\ \/ runnerReceipt' = "empty" /\ Goto("writing") /\ UNCHANGED refused
             \/ refused' = TRUE /\ Failed /\ UNCHANGED runnerReceipt
    /\ UNCHANGED <<shellVars, dir, consumed>>
    /\ Outside

\* The builtin of line 194: a KILL may fall between its two effects, a trap
\* may not.
Writing ==
    /\ pc = "writing"
    /\ \/ runnerReceipt' = "valid" /\ Finalized /\ UNCHANGED refused
       \/ refused' = TRUE /\ Failed /\ UNCHANGED runnerReceipt
    /\ UNCHANGED <<shellVars, dir, consumed>>
    /\ Outside

\* run-sq.sh:165-166 and 168-199: the result is printed last.
Done ==
    /\ At("done")
    /\ work' = FALSE /\ Goto("untrap")
    /\ UNCHANGED <<traps, pending, active, tools, fileVars, consumed>>
    /\ Outside
Untrap ==
    /\ At("untrap")
    /\ traps' = "default" /\ Goto("report")
    /\ UNCHANGED <<pending, work, active, tools, fileVars, consumed>>
    /\ Outside
Report ==
    /\ At("report")
    /\ End("0") \/ End("nonzero")
    /\ UNCHANGED <<shellVars, fileVars, consumed>>
    /\ Outside

Script ==
    \/ Boot \/ Setup \/ MkTemp \/ Assign \/ Copy \/ NextCommand \/ Launch
    \/ HelperDone \/ Consume \/ Rm \/ Clear \/ Status
    \/ Fin \/ Await \/ Confirm \/ Remove \/ Write \/ Writing
    \/ Done \/ Untrap \/ Report

Next ==
    \/ Script \/ TakeTerm \/ TermArrives \/ KillArrives
    \/ HelperReady \/ HelperRuns \/ HelperReports \/ ToolEnds

\* The shell runs its commands and traps, and a helper starts and ends
\* (EvidenceProcess!HelperEnds).  Nothing is owed by the tool.
Fairness ==
    /\ WF_vars(Script) /\ WF_vars(TakeTerm)
    /\ WF_vars(HelperReady) /\ WF_vars(HelperReports)

Spec == Init /\ [][Next]_vars /\ Fairness

-----------------------------------------------------------------------------
TypeOK ==
    /\ pc \in Commands /\ why \in {"run", "main", "exit", "err", "term"}
    /\ code \in {"none", "0", "nonzero", "terminated", "killed"}
    /\ traps \in {"default", "set", "ignored"} /\ pending \in BOOLEAN
    /\ terms \in 0..MaxTerms /\ tools \in 0..MaxTools
    /\ work \in BOOLEAN /\ active \in BOOLEAN /\ consumed \in BOOLEAN
    /\ dir \in {"absent", "empty", "material", "gone"}
    /\ runnerReceipt \in {"absent", "empty", "valid", "unasked"}
    /\ refused \in BOOLEAN
    /\ helper \in {"none", "starting", "owning", "gone"}
    /\ started \in BOOLEAN /\ live \in BOOLEAN /\ receipt \in BOOLEAN
    /\ result \in {"none", "status", "failed"}

Ended == pc = "exit"

\* What the outer helper takes the runner's receipt for (conformance/README.md:
\* 61-65): from its first byte on no tool is running or will be started, and no
\* disposable material is left, whichever trap wrote it and whatever follows.
ReceiptMeansClean ==
    runnerReceipt \in {"empty", "valid"} =>
        /\ ~live /\ helper \in {"none", "gone"}
        /\ dir # "material"

\* "The runner consumes that receipt before deleting disposable material"
\* (docs/agents/genesis-validation.md:235-236): the directory never goes while
\* a helper or its tool may still write into it.
MaterialOutlivesTool ==
    [][dir = "material" /\ dir' # "material"
          => ~live /\ helper \in {"none", "gone"}]_vars

\* The receipt is there, if one was asked for.
Certified == runnerReceipt \in {"valid", "unasked"}

\* Status 0 is what lets the aggregate read the result: it stands for a full
\* main line, without a failure or a termination anywhere, and its receipt.
SuccessMeansFinalized ==
    /\ TypeOK
    /\ code = "0" =>
        /\ Certified /\ dir = "gone"
        /\ tools = MaxTools /\ why = "main"

\* Whatever ends a runner short of KILL, its material stays behind only where
\* the proof of its tool's absence is missing or the file system refuses; else
\* it is removed and certified (lines 209-250, run-sq.sh:12-41).
FinalizedUnlessUnproven ==
    Ended /\ code # "killed" =>
        /\ code = "terminated" => dir # "material"
        /\ ~refused /\ traps # "default" /\ (active => Proof)
              => dir # "material" /\ Certified

\* "Runner error and catchable-termination paths finalize their active helper
\* and disposable material before exiting" (docs/agents/genesis-validation.md:
\* 243-244): after a TERM nothing is left where no tool was started, or the
\* last one is gone and was certified.
TerminationFinalizes ==
    /\ Ended /\ why = "term" /\ code # "killed" /\ ~refused
    /\ ~live /\ (started => receipt)
    => dir # "material"

\* The runner ends, whatever its tools and the signals do.
RunnerEnds == <>Ended
=============================================================================
