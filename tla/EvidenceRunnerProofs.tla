------------------------ MODULE EvidenceRunnerProofs ------------------------
(***************************************************************************)
(* The safety properties of EvidenceRunner, for any number of tools and of *)
(* TERMs.                                                                  *)
(***************************************************************************)
EXTENDS EvidenceRunner, TLAPS

(***************************************************************************)
(* The inductive invariant.  The properties speak of the runner's receipt  *)
(* and of its end; they hold because of what is known at each command      *)
(* before, above all that SQ_EVIDENCE_ACTIVE_PROCESS_RECEIPT is set from    *)
(* before a helper is started until its receipt has been consumed.         *)
(***************************************************************************)

\* The main line; what follows the removal of the material; what follows the
\* runner's own receipt; and the finalizer up to that receipt.
Running == {"boot", "setup", "mktemp", "assign", "copy", "next", "launch",
            "helper", "status"}
Removed == {"write", "writing", "done", "untrap", "report"}
Finished == {"done", "untrap", "report"}
Finalizing == {"fin", "await", "confirm", "remove", "write", "writing"}

\* A receipt proves that the tool is gone, and it is consumed at most once;
\* a helper is at work only while the script waits for it.
RunInv ==
    /\ live => ~receipt
    /\ consumed => receipt
    /\ helper \in {"starting", "owning"} => pc = "helper" /\ result = "none"
    /\ helper \in {"none", "starting"} => ~live /\ ~receipt
    /\ pc = "helper" => helper # "none"

\* The receipt to be consumed is known by name wherever a tool may be left.
ActiveInv ==
    /\ live \/ helper \in {"starting", "owning"} => active
    /\ pc \in {"launch", "helper", "consume", "rm", "clear"} => active
    /\ pc \in {"boot", "setup", "mktemp", "assign", "copy", "next", "status",
               "remove"} \cup Removed => ~active
    /\ pc = "rm" => Proof
    /\ pc = "clear" => consumed

\* Which trap is running, and with which disposition of TERM.
TrapInv ==
    /\ pc \in Running => why = "run"
    /\ pc \in Finalizing => why # "run"
    /\ pc \in {"fin", "await"} => why \in {"err", "term"}
    /\ why = "main" => ~active /\ tools = MaxTools
    /\ traps = "default" => pc \in {"boot", "report", "exit"}
    /\ pc \in {"boot", "report"} => traps = "default"
    /\ traps = "ignored" => ~pending
    /\ pc = "launch" => tools < MaxTools
    /\ code = "none" <=> pc # "exit"

\* The directory has its material only under the name the script knows.
MaterialInv ==
    /\ pc \in {"boot", "setup", "mktemp"} => dir = "absent"
    /\ dir = "material" => work
    /\ pc \in {"copy", "next", "launch", "helper", "status"} => work
    /\ why = "run" /\ pc \in {"consume", "rm", "clear"} => work
    /\ why = "main" /\ pc \in {"confirm", "remove", "consume", "rm", "clear"} => work
    /\ pc \in Removed => dir # "material"
    /\ why = "main" /\ pc \in Removed => dir = "gone"

\* The runner's receipt is begun once, after the removal, and is left
\* unfinished only by a KILL or by a file system that refuses it.
ReceiptInv ==
    /\ runnerReceipt \in {"empty", "valid"} =>
          /\ ~active /\ dir # "material"
          /\ pc \in Finalizing \cup Finished \cup {"exit"}
    /\ pc = "writing" => runnerReceipt = "empty"
    /\ runnerReceipt = "empty" /\ pc # "writing" /\ code # "killed" => refused
    /\ pc \in Finished => why = "main" /\ Certified

\* What the properties say of the end.
EndInv ==
    /\ code = "0" =>
          Certified /\ dir = "gone" /\ tools = MaxTools /\ why = "main"
    /\ FinalizedUnlessUnproven

RunnerInv ==
    /\ TypeOK /\ RunInv /\ ActiveInv /\ TrapInv /\ MaterialInv /\ ReceiptInv
    /\ EndInv

-----------------------------------------------------------------------------
(***************************************************************************)
(* Type correctness.                                                       *)
(***************************************************************************)

\* The types by kind of variable: truth values, numbers and names.
FlagsOK ==
    /\ pending \in BOOLEAN /\ work \in BOOLEAN /\ active \in BOOLEAN
    /\ consumed \in BOOLEAN /\ refused \in BOOLEAN /\ started \in BOOLEAN
    /\ live \in BOOLEAN /\ receipt \in BOOLEAN
NumbersOK == terms \in 0..MaxTerms /\ tools \in 0..MaxTools
NamesOK ==
    /\ pc \in Commands /\ why \in {"run", "main", "exit", "err", "term"}
    /\ code \in {"none", "0", "nonzero", "terminated", "killed"}
    /\ traps \in {"default", "set", "ignored"}
    /\ dir \in {"absent", "empty", "material", "gone"}
    /\ runnerReceipt \in {"absent", "empty", "valid", "unasked"}
    /\ helper \in {"none", "starting", "owning", "gone"}
    /\ result \in {"none", "status", "failed"}

\* The three kinds are all the types.
LEMMA TypesByKind == TypeOK <=> FlagsOK /\ NumbersOK /\ NamesOK
  BY DEF TypeOK, FlagsOK, NumbersOK, NamesOK

\* Every step keeps the truth values.
LEMMA FlagsKept ==
  ASSUME RunnerInv, Next
  PROVE  FlagsOK'
<1> USE DEF RunnerInv, TypeOK, FlagsOK, Goto, Failed, End, At, scriptVars,
            shellVars, fileVars, runVars
<1>1. CASE TermArrives \/ KillArrives \/ HelperReady
  BY <1>1, Zenon DEF TermArrives, KillArrives, HelperReady
<1>2. CASE HelperRuns \/ HelperReports \/ ToolEnds
  BY <1>2, Zenon DEF HelperRuns, HelperReports, ToolEnds, Run!Start,
                     Run!Certify, Run!Report, Run!Die
<1>3. CASE Boot \/ Setup \/ MkTemp \/ Assign \/ Copy
  BY <1>3, Zenon DEF Boot, Setup, MkTemp, Assign, Copy, Outside
<1>4. CASE NextCommand \/ Launch \/ HelperDone
  BY <1>4, Zenon DEF NextCommand, Launch, HelperDone, Outside
<1>5. CASE Consume \/ Rm \/ Clear \/ Status
  BY <1>5, Zenon DEF Consume, Rm, Clear, Status, Proof, Outside
<1>6. CASE TakeTerm \/ Fin \/ Await \/ Confirm
  BY <1>6, Zenon DEF TakeTerm, Fin, Await, Confirm, Outside
<1>7. CASE Remove \/ Write \/ Writing
  BY <1>7, Zenon DEF Remove, Write, Writing, Finalized, Outside
<1>8. CASE Done \/ Untrap \/ Report
  BY <1>8, Zenon DEF Done, Untrap, Report, Outside
<1> QED BY <1>1, <1>2, <1>3, <1>4, <1>5, <1>6, <1>7, <1>8 DEF Next, Script

\* Every step keeps the counters within their bounds: a helper is only started
\* while there is a tool left.
LEMMA NumbersKept ==
  ASSUME RunnerInv, Next
  PROVE  NumbersOK'
<1> USE DEF RunnerInv, TypeOK, NumbersOK, TrapInv, Goto, Failed, End, At,
            scriptVars, shellVars, fileVars, runVars
<1>1. CASE TermArrives \/ KillArrives \/ HelperReady
  BY <1>1, BoundAssumption DEF TermArrives, KillArrives, HelperReady
<1>2. CASE HelperRuns \/ HelperReports \/ ToolEnds
  BY <1>2, BoundAssumption DEF HelperRuns, HelperReports, ToolEnds, Run!Start,
                               Run!Certify, Run!Report, Run!Die
<1>3. CASE Boot \/ Setup \/ MkTemp \/ Assign \/ Copy
  BY <1>3, BoundAssumption DEF Boot, Setup, MkTemp, Assign, Copy, Outside
<1>4. CASE NextCommand \/ Launch \/ HelperDone
  BY <1>4, BoundAssumption DEF NextCommand, Launch, HelperDone, Outside
<1>5. CASE Consume \/ Rm \/ Clear \/ Status
  BY <1>5, BoundAssumption DEF Consume, Rm, Clear, Status, Proof, Outside
<1>6. CASE TakeTerm \/ Fin \/ Await \/ Confirm
  BY <1>6, BoundAssumption DEF TakeTerm, Fin, Await, Confirm, Outside
<1>7. CASE Remove \/ Write \/ Writing
  BY <1>7, BoundAssumption DEF Remove, Write, Writing, Outside
<1>8. CASE Done \/ Untrap \/ Report
  BY <1>8, BoundAssumption DEF Done, Untrap, Report, Outside
<1> QED BY <1>1, <1>2, <1>3, <1>4, <1>5, <1>6, <1>7, <1>8 DEF Next, Script

\* Every step keeps the names.
LEMMA NamesKept ==
  ASSUME RunnerInv, Next
  PROVE  NamesOK'
<1> USE DEF RunnerInv, TypeOK, NamesOK, Commands, Goto, Failed, End, At,
            scriptVars, shellVars, fileVars, runVars
<1>1. CASE TermArrives \/ KillArrives \/ HelperReady
  BY <1>1 DEF TermArrives, KillArrives, HelperReady
<1>2. CASE HelperRuns \/ HelperReports \/ ToolEnds
  BY <1>2 DEF HelperRuns, HelperReports, ToolEnds, Run!Start, Run!Certify,
              Run!Report, Run!Die
<1>3. CASE Boot \/ Setup \/ MkTemp \/ Assign \/ Copy
  BY <1>3 DEF Boot, Setup, MkTemp, Assign, Copy, Outside
<1>4. CASE NextCommand \/ Launch \/ HelperDone
  BY <1>4 DEF NextCommand, Launch, HelperDone, Outside
<1>5. CASE Consume \/ Rm \/ Clear \/ Status
  BY <1>5 DEF Consume, Rm, Clear, Status, Proof, Outside
<1>6. CASE TakeTerm \/ Fin \/ Await \/ Confirm
  BY <1>6 DEF TakeTerm, Fin, Await, Confirm, Outside
<1>7. CASE Remove \/ Write \/ Writing
  BY <1>7 DEF Remove, Write, Writing, Finalized, Outside
<1>8. CASE Done \/ Untrap \/ Report
  BY <1>8 DEF Done, Untrap, Report, Outside
<1> QED BY <1>1, <1>2, <1>3, <1>4, <1>5, <1>6, <1>7, <1>8 DEF Next, Script

-----------------------------------------------------------------------------
(***************************************************************************)
(* Each part of the invariant is kept by every step.                       *)
(***************************************************************************)

\* The helper's run stays one that OwnedRun allows, also across TERM and KILL.
LEMMA RunKept ==
  ASSUME RunnerInv, Next
  PROVE  RunInv'
<1> USE DEF RunnerInv, RunInv, ActiveInv, Goto, Failed, End, At, scriptVars,
            shellVars, fileVars, runVars
<1>1. CASE TermArrives \/ KillArrives \/ HelperReady
  BY <1>1 DEF TermArrives, KillArrives, HelperReady
<1>2. CASE HelperRuns \/ HelperReports \/ ToolEnds
  BY <1>2 DEF HelperRuns, HelperReports, ToolEnds, Run!Start, Run!Certify,
              Run!Report, Run!Die
<1>3. CASE Boot \/ Setup \/ MkTemp \/ Assign \/ Copy
  BY <1>3 DEF Boot, Setup, MkTemp, Assign, Copy, Outside
<1>4. CASE NextCommand \/ Launch \/ HelperDone
  BY <1>4 DEF NextCommand, Launch, HelperDone, Outside
<1>5. CASE Consume \/ Rm \/ Clear \/ Status
  BY <1>5 DEF Consume, Rm, Clear, Status, Proof, Outside
<1>6. CASE TakeTerm \/ Fin \/ Await \/ Confirm
  BY <1>6 DEF TakeTerm, Fin, Await, Confirm, Outside
<1>7. CASE Remove \/ Write \/ Writing
  BY <1>7 DEF Remove, Write, Writing, Finalized, Outside
<1>8. CASE Done \/ Untrap \/ Report
  BY <1>8 DEF Done, Untrap, Report, Outside
<1> QED BY <1>1, <1>2, <1>3, <1>4, <1>5, <1>6, <1>7, <1>8 DEF Next, Script

\* The name of the receipt is only forgotten once the receipt is consumed.
LEMMA ActiveKept ==
  ASSUME RunnerInv, Next
  PROVE  ActiveInv'
<1> USE DEF RunnerInv, TypeOK, RunInv, ActiveInv, TrapInv, Proof, Removed,
            Running, Goto, Failed, End, At, scriptVars, shellVars, fileVars,
            runVars
<1>1. CASE TermArrives \/ KillArrives \/ HelperReady
  BY <1>1 DEF TermArrives, KillArrives, HelperReady
<1>2. CASE HelperRuns \/ HelperReports \/ ToolEnds
  BY <1>2 DEF HelperRuns, HelperReports, ToolEnds, Run!Start, Run!Certify,
              Run!Report, Run!Die
<1>3. CASE Boot \/ Setup \/ MkTemp \/ Assign \/ Copy
  BY <1>3 DEF Boot, Setup, MkTemp, Assign, Copy, Outside
<1>4. CASE NextCommand \/ Launch \/ HelperDone
  BY <1>4 DEF NextCommand, Launch, HelperDone, Outside
<1>5. CASE Consume \/ Rm \/ Clear \/ Status
  BY <1>5 DEF Consume, Rm, Clear, Status, Proof, Outside
<1>6. CASE TakeTerm \/ Fin \/ Await \/ Confirm
  BY <1>6 DEF TakeTerm, Fin, Await, Confirm, Outside
<1>7. CASE Remove \/ Write \/ Writing
  BY <1>7 DEF Remove, Write, Writing, Finalized, Outside
<1>8. CASE Done \/ Untrap \/ Report
  BY <1>8 DEF Done, Untrap, Report, Outside
<1> QED BY <1>1, <1>2, <1>3, <1>4, <1>5, <1>6, <1>7, <1>8 DEF Next, Script

\* Every command knows on whose behalf it runs.
LEMMA TrapKept ==
  ASSUME RunnerInv, Next
  PROVE  TrapInv'
<1> USE DEF RunnerInv, TypeOK, RunInv, ActiveInv, TrapInv, Proof, Removed,
            Running, Finalizing, Goto, Failed, End, At, scriptVars, shellVars,
            fileVars, runVars
<1>1. CASE TermArrives \/ KillArrives \/ HelperReady
  BY <1>1 DEF TermArrives, KillArrives, HelperReady
<1>2. CASE HelperRuns \/ HelperReports \/ ToolEnds
  BY <1>2 DEF HelperRuns, HelperReports, ToolEnds, Run!Start, Run!Certify,
              Run!Report, Run!Die
<1>3. CASE Boot \/ Setup \/ MkTemp \/ Assign \/ Copy
  BY <1>3 DEF Boot, Setup, MkTemp, Assign, Copy, Outside
<1>4. CASE NextCommand \/ Launch \/ HelperDone
  BY <1>4 DEF NextCommand, Launch, HelperDone, Outside
<1>5. CASE Consume \/ Rm \/ Clear \/ Status
  BY <1>5 DEF Consume, Rm, Clear, Status, Proof, Outside
<1>6. CASE TakeTerm \/ Fin \/ Await \/ Confirm
  BY <1>6 DEF TakeTerm, Fin, Await, Confirm, Outside
<1>7. CASE Remove \/ Write \/ Writing
  BY <1>7 DEF Remove, Write, Writing, Finalized, Outside
<1>8. CASE Done \/ Untrap \/ Report
  BY <1>8 DEF Done, Untrap, Report, Outside
<1> QED BY <1>1, <1>2, <1>3, <1>4, <1>5, <1>6, <1>7, <1>8 DEF Next, Script

\* Material is removed before the runner's receipt is begun.
LEMMA MaterialKept ==
  ASSUME RunnerInv, Next
  PROVE  MaterialInv'
<1> USE DEF RunnerInv, ActiveInv, TrapInv, MaterialInv, ReceiptInv, Removed,
            Running, Finalizing, Finished, Certified, Goto, Failed, End, At,
            scriptVars, shellVars, fileVars, runVars
<1>1. CASE TermArrives \/ KillArrives \/ HelperReady
  BY <1>1 DEF TermArrives, KillArrives, HelperReady
<1>2. CASE HelperRuns \/ HelperReports \/ ToolEnds
  BY <1>2 DEF HelperRuns, HelperReports, ToolEnds, Run!Start, Run!Certify,
              Run!Report, Run!Die
<1>3. CASE Boot \/ Setup \/ MkTemp \/ Assign \/ Copy
  BY <1>3 DEF Boot, Setup, MkTemp, Assign, Copy, Outside
<1>4. CASE NextCommand \/ Launch \/ HelperDone
  BY <1>4 DEF NextCommand, Launch, HelperDone, Outside
<1>5. CASE Consume \/ Rm \/ Clear \/ Status
  BY <1>5 DEF Consume, Rm, Clear, Status, Proof, Outside
<1>6. CASE TakeTerm \/ Fin \/ Await \/ Confirm
  BY <1>6 DEF TakeTerm, Fin, Await, Confirm, Outside
<1>7. CASE Remove \/ Write \/ Writing
  BY <1>7 DEF Remove, Write, Writing, Finalized, Outside
<1>8. CASE Done \/ Untrap \/ Report
  BY <1>8 DEF Done, Untrap, Report, Outside
<1> QED BY <1>1, <1>2, <1>3, <1>4, <1>5, <1>6, <1>7, <1>8 DEF Next, Script

\* The receipt, once begun, is not contradicted by what follows.
LEMMA ReceiptKept ==
  ASSUME RunnerInv, Next
  PROVE  ReceiptInv'
<1> USE DEF RunnerInv, ActiveInv, TrapInv, MaterialInv, ReceiptInv, Removed,
            Running, Finalizing, Finished, Certified, Goto, Failed, End, At,
            scriptVars, shellVars, fileVars, runVars
<1>1. CASE TermArrives \/ KillArrives \/ HelperReady
  BY <1>1 DEF TermArrives, KillArrives, HelperReady
<1>2. CASE HelperRuns \/ HelperReports \/ ToolEnds
  BY <1>2 DEF HelperRuns, HelperReports, ToolEnds, Run!Start, Run!Certify,
              Run!Report, Run!Die
<1>3. CASE Boot \/ Setup \/ MkTemp \/ Assign \/ Copy
  BY <1>3 DEF Boot, Setup, MkTemp, Assign, Copy, Outside
<1>4. CASE NextCommand \/ Launch \/ HelperDone
  BY <1>4 DEF NextCommand, Launch, HelperDone, Outside
<1>5. CASE Consume \/ Rm \/ Clear \/ Status
  BY <1>5 DEF Consume, Rm, Clear, Status, Proof, Outside
<1>6. CASE TakeTerm \/ Fin \/ Await \/ Confirm
  BY <1>6 DEF TakeTerm, Fin, Await, Confirm, Outside
<1>7. CASE Remove \/ Write \/ Writing
  BY <1>7 DEF Remove, Write, Writing, Finalized, Outside
<1>8. CASE Done \/ Untrap \/ Report
  BY <1>8 DEF Done, Untrap, Report, Outside
<1> QED BY <1>1, <1>2, <1>3, <1>4, <1>5, <1>6, <1>7, <1>8 DEF Next, Script

\* What is said of the end holds when it is reached, and stays.
LEMMA EndKept ==
  ASSUME RunnerInv, Next
  PROVE  EndInv'
<1> USE DEF RunnerInv, TypeOK, RunInv, ActiveInv, TrapInv, MaterialInv,
            ReceiptInv, EndInv, FinalizedUnlessUnproven, Proof, Ended,
            Removed, Running, Finalizing, Finished, Certified, Goto, Failed, End,
            At, scriptVars, shellVars, fileVars, runVars
<1>1. CASE TermArrives \/ KillArrives \/ HelperReady
  BY <1>1 DEF TermArrives, KillArrives, HelperReady
<1>2. CASE HelperRuns \/ HelperReports \/ ToolEnds
  BY <1>2 DEF HelperRuns, HelperReports, ToolEnds, Run!Start, Run!Certify,
              Run!Report, Run!Die
<1>3. CASE Boot \/ Setup \/ MkTemp \/ Assign \/ Copy
  BY <1>3 DEF Boot, Setup, MkTemp, Assign, Copy, Outside
<1>4. CASE NextCommand \/ Launch \/ HelperDone
  BY <1>4 DEF NextCommand, Launch, HelperDone, Outside
<1>5. CASE Consume \/ Rm \/ Clear \/ Status
  BY <1>5 DEF Consume, Rm, Clear, Status, Proof, Outside
<1>6. CASE TakeTerm \/ Fin \/ Await \/ Confirm
  BY <1>6 DEF TakeTerm, Fin, Await, Confirm, Outside
<1>7. CASE Remove \/ Write \/ Writing
  BY <1>7 DEF Remove, Write, Writing, Finalized, Outside
<1>8. CASE Done \/ Untrap \/ Report
  BY <1>8 DEF Done, Untrap, Report, Outside
<1> QED BY <1>1, <1>2, <1>3, <1>4, <1>5, <1>6, <1>7, <1>8 DEF Next, Script

-----------------------------------------------------------------------------
(***************************************************************************)
(* The theorems.                                                           *)
(***************************************************************************)

\* The invariant holds when the script is started.
LEMMA RunnerInit == Init => RunnerInv
<1> SUFFICES ASSUME Init PROVE RunnerInv
  OBVIOUS
<1> USE DEF Init, Run!Init
<1>1. FlagsOK
  BY Zenon DEF FlagsOK
<1>2. NumbersOK
  BY BoundAssumption DEF NumbersOK
<1>3. NamesOK
  BY DEF NamesOK, Commands
<1>4. RunInv /\ ActiveInv
  BY DEF RunInv, ActiveInv, Removed
<1>5. TrapInv /\ MaterialInv
  BY DEF TrapInv, MaterialInv, Running, Finalizing, Removed
<1>6. ReceiptInv /\ EndInv
  BY DEF ReceiptInv, EndInv, FinalizedUnlessUnproven, Ended, Finished
<1> QED BY <1>1, <1>2, <1>3, <1>4, <1>5, <1>6, TypesByKind DEF RunnerInv

\* Every step keeps it.
LEMMA RunnerStep == RunnerInv /\ [Next]_vars => RunnerInv'
<1> SUFFICES ASSUME RunnerInv, [Next]_vars PROVE RunnerInv'
  OBVIOUS
<1>1. CASE Next
  <2>1. TypeOK'
    BY <1>1, FlagsKept, NumbersKept, NamesKept
       DEF TypeOK, FlagsOK, NumbersOK, NamesOK
  <2> QED
    BY <1>1, <2>1, RunKept, ActiveKept, TrapKept, MaterialKept, ReceiptKept,
       EndKept
       DEF RunnerInv
<1>2. CASE UNCHANGED vars
  BY <1>2
     DEF vars, scriptVars, shellVars, fileVars, runVars, RunnerInv, TypeOK, RunInv,
         ActiveInv, TrapInv, MaterialInv, ReceiptInv, EndInv,
         FinalizedUnlessUnproven, Certified, Ended, Proof
<1> QED BY <1>1, <1>2

\* The invariant is one of the specification.
LEMMA RunnerInvariant == Spec => []RunnerInv
  BY RunnerInit, RunnerStep, PTL DEF Spec

\* sq-evidence-lib.sh, whatever TERM and KILL arrive and wherever: from the
\* first byte of the runner's receipt on, no tool runs or will be started, and
\* the disposable material is gone.
THEOREM ReceiptMeansCleanHolds == Spec => []ReceiptMeansClean
<1>1. RunnerInv => ReceiptMeansClean
  BY DEF RunnerInv, TypeOK, RunInv, ActiveInv, ReceiptInv, ReceiptMeansClean
<1> QED BY <1>1, RunnerInvariant, PTL

\* Status 0 is only left by a runner that went through its whole main line,
\* removed its directory and wrote its receipt.
THEOREM SuccessMeansFinalizedHolds == Spec => []SuccessMeansFinalized
<1>1. RunnerInv => SuccessMeansFinalized
  BY DEF RunnerInv, EndInv, SuccessMeansFinalized
<1> QED BY <1>1, RunnerInvariant, PTL

\* Short of KILL, every end of the runner has removed its material and left
\* its receipt, unless the proof of its tool's absence is missing or the file
\* system refused.
THEOREM FinalizedUnlessUnprovenHolds == Spec => []FinalizedUnlessUnproven
<1>1. RunnerInv => FinalizedUnlessUnproven
  BY DEF RunnerInv, EndInv
<1> QED BY <1>1, RunnerInvariant, PTL

\* No step that removes material happens while a helper or its tool may still
\* write into it.
LEMMA MaterialStep ==
  ASSUME RunnerInv, Next, dir = "material", dir' # "material"
  PROVE  ~live /\ helper \in {"none", "gone"}
<1>1. Remove
  BY DEF Next, Script, TermArrives, KillArrives, HelperReady, HelperRuns,
         HelperReports, ToolEnds, Boot, Setup, MkTemp, Assign, Copy,
         NextCommand, Launch, HelperDone, Consume, Rm, Clear, Status, TakeTerm,
         Fin, Await, Confirm, Write, Writing, Done, Untrap, Report, At,
         fileVars, RunnerInv, MaterialInv
<1> QED BY <1>1 DEF Remove, At, RunnerInv, TypeOK, RunInv, ActiveInv

\* The runner's directory never goes before its tool
\* (genesis-validation.md:235-236).
THEOREM MaterialOutlivesToolHolds == Spec => MaterialOutlivesTool
<1>1. RunnerInv /\ [Next]_vars
         => [dir = "material" /\ dir' # "material"
                => ~live /\ helper \in {"none", "gone"}]_vars
  BY MaterialStep
<1> QED BY <1>1, RunnerInvariant, PTL DEF Spec, MaterialOutlivesTool
=============================================================================
