------------------------ MODULE EvidenceProcessProofs ------------------------
(***************************************************************************)
(* The safety properties of EvidenceProcess, for any number of signals,    *)
(* with and without a keyboard or somebody else who reaps, and that its    *)
(* steps are those of OwnedRun.                                            *)
(***************************************************************************)
EXTENDS EvidenceProcess, TLAPS

(***************************************************************************)
(* The inductive invariant.  A place belongs to the clauses it can be      *)
(* reached in; what is known of the selected process, of the files and of  *)
(* the exceptions so far follows from the place and the clause.            *)
(***************************************************************************)

Claiming == {"main", "request", "environment", "trace", "outputs"}
Starting == {"start", "block", "spawn"}
Started == {"unmask", "unmasked"}
Capturing == {"loop", "check", "wait", "finish"}
Cleaning == {"clean", "cleanReap", "cleanAbsent", "cleanDone"}
Recording == {"record", "consume", "openReceipt", "writeReceipt"}
Reporting == {"openStatus", "writeStatus"}

\* Where the helper is, by the clause that catches an exception there.
PlaceInv ==
    /\ region = "before" => pc \in Claiming \cup {"exit"}
    /\ region = "try" =>
          pc \in Starting \cup Started \cup Capturing \cup Cleaning
                    \cup Recording \cup Reporting \cup {"exit"}
    /\ region = "except" =>
          pc \in {"handle", "drain", "exit"} \cup Cleaning \cup Recording
    /\ region = "finally" => pc \in {"finally", "leaving", "exit"}
    /\ outcome = "none" <=> pc # "exit"
    /\ outcome \in {"status", "raised"} => region = "finally"
    /\ outcome = "status" => error = "none"

\* Which exception is under way, and whether a signal is caught.
ErrorInv ==
    /\ error = "none" <=> first = "none"
    /\ region = "before" => error = "none"
    /\ region = "except" => error # "none"
    /\ region = "try" /\ error # "none" => pc \in Started /\ proc = "none"
    /\ first = "interrupted" => interrupted
    /\ blocked <=> pc \in {"spawn", "unmask"}
    /\ handler = "default" => proc = "none" \/ region = "finally"
    /\ pc \in {"spawn"} \cup Started => handler = "interrupt"
    /\ arrived = 0 => pending = {}

\* What is known of the selected process and of its cleanup.
SelectedInv ==
    /\ proc = "none" => ~live /\ ~complete /\ returncode = "none" /\ cleanup = "none"
    /\ pc \in Claiming \cup Starting => proc = "none"
    /\ region = "before" => proc = "none"
    /\ pc \in Capturing \cup Cleaning \cup Reporting => proc # "none"
    /\ pc \in Started /\ error = "none" => proc # "none"
    /\ pc = "exit" /\ region # "finally" => proc = "none"
    /\ proc = "running" => live
    /\ returncode # "none" => proc = "reaped" /\ (doomed \/ cleanup # "none")
    /\ complete => proc = "reaped" /\ ~live /\ returncode # "none" /\ cleanup = "ok"
    /\ cleanup = "ok" => returncode # "none"
    /\ pc \in Cleaning => ~complete
    /\ pc \in {"clean", "cleanReap", "cleanAbsent"} => cleanup # "ok"
    /\ pc \in {"cleanReap", "cleanAbsent"} => doomed
    /\ pc \in {"cleanAbsent", "cleanDone"} => returncode # "none"
    /\ pc = "cleanDone" => ~live /\ cleanup = "ok"
    /\ pc \in Recording \cup {"drain"} => proc = "none" \/ complete
    /\ region = "try" /\ pc \in Recording \cup Reporting \cup {"finish"} => complete

\* Whose paths the helper works on.
ClaimInv ==
    /\ region \in {"try", "except"} \/ pc \in {"trace", "outputs"} => environment = "made"
    /\ proc # "none" => environment = "made"
    /\ pc \in {"main", "request", "environment"} => environment # "made"
    /\ environment = "made" =>
          runner \notin {"old", "misused"} /\ receipt # "old" /\ statusFile # "old"
    /\ pc \in {"environment", "trace", "outputs"} => statusFile = "absent"
    /\ pc = "environment" /\ environment = "absent" =>
          runner = "absent" /\ receipt = "absent"
    /\ region = "before" =>
          /\ receipt \in {"absent", "old"} /\ runner \in {"absent", "old"}
          /\ statusFile \in {"absent", "old"}

\* A complete receipt is the proof it is taken for.
ReceiptInv ==
    /\ receipt = "valid" => complete \/ (proc = "none" /\ region = "finally")
    /\ pc \in Starting \cup Started \/ (proc # "none" /\ ~complete) =>
          receipt = "absent" /\ runner # "consumed"
    /\ pc = "consume" => mode = "probe" /\ returncode # "125"
    /\ pc = "writeReceipt" => receipt = "empty"
    /\ region = "try" /\ pc \in Capturing \cup {"record", "consume"} =>
          receipt = "absent" /\ runner # "consumed"
    /\ region = "try" /\ pc = "openReceipt" => receipt = "absent"
    /\ pc \in {"openReceipt", "writeReceipt"} \/ receipt = "valid" =>
          (mode = "probe" /\ proc # "none" /\ returncode # "125" => runner = "consumed")

\* A status was written after the receipt.
StatusInv ==
    /\ region = "try" /\ pc \in Recording \cup Reporting => returncode = "other"
    /\ pc \in Reporting => receipt = "valid"
    /\ statusFile \in {"empty", "written"} =>
          receipt = "valid" /\ returncode = "other" /\ complete
    /\ pc = "writeStatus" => statusFile = "empty"
    /\ region = "finally" /\ error = "none" =>
          statusFile = "written" /\ environment = "made"

\* Without signals, what follows a successful cleanup leads to the receipt.
RunnerProved ==
    mode = "probe" /\ returncode # "125" => runner \in {"valid", "consumed"}
CertifyInv ==
    arrived = 0 /\ cleanup = "ok" =>
        /\ complete \/ pc = "cleanDone"
        /\ complete /\ region = "except" /\ first # "io" /\ RunnerProved =>
              \/ receipt = "valid"
              \/ pc \in {"handle", "drain", "record", "consume"} /\ receipt = "absent"
                    /\ runner # "consumed"
              \/ pc = "openReceipt" /\ receipt = "absent"
              \/ pc = "writeReceipt"
        /\ region = "finally" /\ "io" \notin {first, error} /\ error # "overflow"
              /\ RunnerProved => receipt = "valid"

\* At least n signals have been handled: those that wait have arrived too.
Handled(n) ==
    /\ arrived >= n
    /\ pending # {} => arrived >= n + 1
    /\ {"TERM", "INT"} \subseteq pending => arrived >= n + 2

\* A signal that ended the body has been handled.
CountInv == Handled(0) /\ (first \in {"interrupted", "keyboard"} => Handled(1))

\* A helper that leaves somebody behind has killed them, or could not, or a
\* signal raised again before it did.
LeaveInv ==
    region = "finally" /\ live =>
        \/ doomed \/ cleanup # "none" \/ error = "lost"
        \/ error \in {"interrupted", "keyboard"} /\ error # first
        \/ error = "keyboard" /\ first = "keyboard" /\ Handled(2)

HelperInv ==
    /\ TypeOK /\ PlaceInv /\ ErrorInv /\ SelectedInv /\ ClaimInv /\ ReceiptInv
    /\ StatusInv /\ CertifyInv /\ CountInv /\ LeaveInv /\ NeverKilledOverGroup

-----------------------------------------------------------------------------
(***************************************************************************)
(* Type correctness.                                                       *)
(***************************************************************************)

\* The types by kind of variable: truth values, counted signals, and names.
HelperFlagsOK ==
    /\ marker \in BOOLEAN /\ blocked \in BOOLEAN /\ interrupted \in BOOLEAN
    /\ expired \in BOOLEAN
RunFlagsOK ==
    /\ live \in BOOLEAN /\ doomed \in BOOLEAN /\ complete \in BOOLEAN
    /\ open \in BOOLEAN
SignalsOK == pending \subseteq Signals /\ arrived \in 0..MaxSignals
ControlOK ==
    /\ pc \in Places /\ region \in {"before", "try", "except", "finally"}
    /\ error \in Errors \cup {"none"} /\ first \in Errors \cup {"none"}
    /\ outcome \in {"none", "status", "raised", "killed", "usage"}
    /\ handler \in {"default", "interrupt"}
RunOK ==
    /\ proc \in {"none", "running", "exited", "reaped"}
    /\ status \in {"other", "125"} /\ returncode \in {"none", "other", "125"}
    /\ cleanup \in {"none", "ok", "failed", "lost"}
FilesOK ==
    /\ mode \in {"tool", "probe", "other"}
    /\ environment \in {"absent", "made", "theirs"}
    /\ trace \in {"absent", "kept", "old"}
    /\ receipt \in {"absent", "empty", "valid", "old"}
    /\ runner \in {"absent", "invalid", "valid", "consumed", "misused", "old"}
    /\ statusFile \in {"absent", "empty", "written", "old"}

\* The kinds are all the types.
LEMMA TypesByKind ==
    TypeOK <=> /\ HelperFlagsOK /\ RunFlagsOK /\ SignalsOK /\ ControlOK /\ RunOK
               /\ FilesOK
  BY DEF TypeOK, HelperFlagsOK, RunFlagsOK, SignalsOK, ControlOK, RunOK, FilesOK

\* Every step keeps the types of the helper's own truth values.
LEMMA HelperFlagsKept ==
  ASSUME HelperFlagsOK, Next
  PROVE  HelperFlagsOK'
<1> USE DEF HelperFlagsOK, Goto, Raise, Refuse, Unchanged, controlVars,
            signalVars, selectedVars, progressVars, fileVars, claimVars
<1>1. ASSUME NEW s \in Signals, Arrive(s)
      PROVE  HelperFlagsOK'
  BY <1>1, Zenon DEF Arrive
<1>2. ASSUME NEW s \in Signals, TakeSignal(s)
      PROVE  HelperFlagsOK'
  BY <1>2, Zenon DEF TakeSignal
<1>3. CASE MarkerAppears \/ RunnerCertifies \/ SetupFails \/ LeaderExits
           \/ DescendantsEnd \/ ReapedElsewhere \/ RivalClaims
           \/ RivalCertifies \/ Expire
  BY <1>3, Zenon DEF MarkerAppears, RunnerCertifies, SetupFails, LeaderExits,
                     DescendantsEnd, ReapedElsewhere, RivalClaims,
                     RivalCertifies, Expire
<1>4. CASE Main \/ CheckRequest \/ MakeEnvironment \/ StartTrace
           \/ OpenOutputs
  BY <1>4, Zenon DEF Main, CheckRequest, MakeEnvironment, StartTrace,
                     OpenOutputs, Idle, Reserved
<1>5. CASE Start \/ Block \/ Spawn \/ SpawnFails \/ Unmask \/ Unmasked
  BY <1>5, Zenon DEF Start, Block, Spawn, SpawnFails, Unmask, Unmasked
<1>6. CASE Loop \/ Check \/ Wait
  BY <1>6, Zenon DEF Loop, Check, Wait, LeaderStatus, Capture
<1>7. CASE Kill \/ Reap \/ Absent \/ CleanFails \/ CleanDone
  BY <1>7, Zenon DEF Kill, Reap, Absent, CleanFails, CleanDone
<1>8. CASE Finish \/ Record \/ Consume
  BY <1>8, Zenon DEF Finish, Record, Consume, FileLimit
<1>9. CASE OpenReceipt \/ WriteReceipt \/ OpenStatus \/ WriteStatus
  BY <1>9, Zenon DEF OpenReceipt, WriteReceipt, OpenStatus, WriteStatus
<1>10. CASE Handle \/ Drain \/ Finally \/ Leave
  BY <1>10, Zenon DEF Handle, Drain, Finally, Leave, Capture
<1> QED BY <1>1, <1>2, <1>3, <1>4, <1>5, <1>6, <1>7, <1>8, <1>9, <1>10
        DEF Next, Helper

\* Every step keeps the types of the truth values of the selected process.
LEMMA RunFlagsKept ==
  ASSUME RunFlagsOK, Next
  PROVE  RunFlagsOK'
<1> USE DEF RunFlagsOK, Goto, Raise, Refuse, Unchanged, controlVars,
            signalVars, selectedVars, progressVars, fileVars, claimVars
<1>1. ASSUME NEW s \in Signals, Arrive(s)
      PROVE  RunFlagsOK'
  BY <1>1, Zenon DEF Arrive
<1>2. ASSUME NEW s \in Signals, TakeSignal(s)
      PROVE  RunFlagsOK'
  BY <1>2, Zenon DEF TakeSignal
<1>3. CASE MarkerAppears \/ RunnerCertifies \/ SetupFails \/ LeaderExits
           \/ DescendantsEnd \/ ReapedElsewhere \/ RivalClaims
           \/ RivalCertifies \/ Expire
  BY <1>3, Zenon DEF MarkerAppears, RunnerCertifies, SetupFails, LeaderExits,
                     DescendantsEnd, ReapedElsewhere, RivalClaims,
                     RivalCertifies, Expire
<1>4. CASE Main \/ CheckRequest \/ MakeEnvironment \/ StartTrace
           \/ OpenOutputs
  BY <1>4, Zenon DEF Main, CheckRequest, MakeEnvironment, StartTrace,
                     OpenOutputs, Idle, Reserved
<1>5. CASE Start \/ Block \/ Spawn \/ SpawnFails \/ Unmask \/ Unmasked
  BY <1>5, Zenon DEF Start, Block, Spawn, SpawnFails, Unmask, Unmasked
<1>6. CASE Loop \/ Check \/ Wait
  BY <1>6, Zenon DEF Loop, Check, Wait, LeaderStatus, Capture
<1>7. CASE Kill \/ Reap \/ Absent \/ CleanFails \/ CleanDone
  BY <1>7, Zenon DEF Kill, Reap, Absent, CleanFails, CleanDone
<1>8. CASE Finish \/ Record \/ Consume
  BY <1>8, Zenon DEF Finish, Record, Consume, FileLimit
<1>9. CASE OpenReceipt \/ WriteReceipt \/ OpenStatus \/ WriteStatus
  BY <1>9, Zenon DEF OpenReceipt, WriteReceipt, OpenStatus, WriteStatus
<1>10. CASE Handle \/ Drain \/ Finally \/ Leave
  BY <1>10, Zenon DEF Handle, Drain, Finally, Leave, Capture
<1> QED BY <1>1, <1>2, <1>3, <1>4, <1>5, <1>6, <1>7, <1>8, <1>9, <1>10
        DEF Next, Helper

\* Every step keeps the signals counted.
LEMMA SignalsKept ==
  ASSUME SignalsOK, Next
  PROVE  SignalsOK'
<1> USE DEF SignalsOK, Goto, Raise, Refuse, Unchanged, controlVars,
            signalVars, selectedVars, progressVars, fileVars, claimVars
<1>1. ASSUME NEW s \in Signals, Arrive(s)
      PROVE  SignalsOK'
  BY <1>1, BoundAssumption DEF Arrive
<1>2. ASSUME NEW s \in Signals, TakeSignal(s)
      PROVE  SignalsOK'
  BY <1>2, BoundAssumption DEF TakeSignal
<1>3. CASE MarkerAppears \/ RunnerCertifies \/ SetupFails \/ LeaderExits
           \/ DescendantsEnd \/ ReapedElsewhere \/ RivalClaims
           \/ RivalCertifies \/ Expire
  BY <1>3, BoundAssumption DEF MarkerAppears, RunnerCertifies, SetupFails,
                               LeaderExits, DescendantsEnd, ReapedElsewhere,
                               RivalClaims, RivalCertifies, Expire
<1>4. CASE Main \/ CheckRequest \/ MakeEnvironment \/ StartTrace
           \/ OpenOutputs
  BY <1>4, BoundAssumption DEF Main, CheckRequest, MakeEnvironment,
                               StartTrace, OpenOutputs, Idle, Reserved
<1>5. CASE Start \/ Block \/ Spawn \/ SpawnFails \/ Unmask \/ Unmasked
  BY <1>5, BoundAssumption DEF Start, Block, Spawn, SpawnFails, Unmask,
                               Unmasked
<1>6. CASE Loop
  BY <1>6, BoundAssumption DEF Loop
<1>7. CASE Check
  BY <1>7, BoundAssumption DEF Check, LeaderStatus
<1>8. CASE Wait
  BY <1>8, BoundAssumption DEF Wait, Capture
<1>9. CASE Kill \/ Reap \/ Absent \/ CleanFails \/ CleanDone
  BY <1>9, BoundAssumption DEF Kill, Reap, Absent, CleanFails, CleanDone
<1>10. CASE Finish \/ Record \/ Consume
  BY <1>10, BoundAssumption DEF Finish, Record, Consume, FileLimit
<1>11. CASE OpenReceipt \/ WriteReceipt \/ OpenStatus \/ WriteStatus
  BY <1>11, BoundAssumption DEF OpenReceipt, WriteReceipt, OpenStatus,
                                WriteStatus
<1>12. CASE Handle
  BY <1>12, BoundAssumption DEF Handle
<1>13. CASE Drain
  BY <1>13, BoundAssumption DEF Drain, Capture
<1>14. CASE Finally \/ Leave
  BY <1>14, BoundAssumption DEF Finally, Leave
<1> QED BY <1>1, <1>2, <1>3, <1>4, <1>5, <1>6, <1>7, <1>8, <1>9, <1>10, <1>11,
           <1>12, <1>13, <1>14
        DEF Next, Helper

\* Every step keeps the helper at one of its places.
LEMMA ControlKept ==
  ASSUME ControlOK, Next
  PROVE  ControlOK'
<1> USE DEF ControlOK, Places, Errors, Goto, Raise, Refuse, Unchanged,
            controlVars, signalVars, selectedVars, progressVars, fileVars,
            claimVars
<1>1. ASSUME NEW s \in Signals, Arrive(s)
      PROVE  ControlOK'
  BY <1>1 DEF Arrive
<1>2. ASSUME NEW s \in Signals, TakeSignal(s)
      PROVE  ControlOK'
  BY <1>2 DEF TakeSignal
<1>3. CASE MarkerAppears \/ RunnerCertifies \/ SetupFails \/ LeaderExits
           \/ DescendantsEnd \/ ReapedElsewhere \/ RivalClaims
           \/ RivalCertifies \/ Expire
  BY <1>3 DEF MarkerAppears, RunnerCertifies, SetupFails, LeaderExits,
              DescendantsEnd, ReapedElsewhere, RivalClaims, RivalCertifies,
              Expire
<1>4. CASE Main \/ CheckRequest \/ MakeEnvironment \/ StartTrace
           \/ OpenOutputs
  BY <1>4 DEF Main, CheckRequest, MakeEnvironment, StartTrace, OpenOutputs,
              Idle, Reserved
<1>5. CASE Start \/ Block \/ Spawn \/ SpawnFails \/ Unmask \/ Unmasked
  BY <1>5 DEF Start, Block, Spawn, SpawnFails, Unmask, Unmasked
<1>6. CASE Loop
  BY <1>6 DEF Loop
<1>7. CASE Check
  BY <1>7 DEF Check, LeaderStatus
<1>8. CASE Wait
  BY <1>8 DEF Wait, Capture
<1>9. CASE Kill \/ Reap \/ Absent \/ CleanFails \/ CleanDone
  BY <1>9 DEF Kill, Reap, Absent, CleanFails, CleanDone
<1>10. CASE Finish \/ Record \/ Consume
  BY <1>10 DEF Finish, Record, Consume, FileLimit
<1>11. CASE OpenReceipt \/ WriteReceipt \/ OpenStatus \/ WriteStatus
  BY <1>11 DEF OpenReceipt, WriteReceipt, OpenStatus, WriteStatus
<1>12. CASE Handle
  BY <1>12 DEF Handle
<1>13. CASE Drain
  BY <1>13 DEF Drain, Capture
<1>14. CASE Finally \/ Leave
  BY <1>14 DEF Finally, Leave
<1> QED BY <1>1, <1>2, <1>3, <1>4, <1>5, <1>6, <1>7, <1>8, <1>9, <1>10, <1>11,
           <1>12, <1>13, <1>14
        DEF Next, Helper

\* Every step keeps what is known of the selected process typed.
LEMMA RunKept ==
  ASSUME RunOK, Next
  PROVE  RunOK'
<1> USE DEF RunOK, Goto, Raise, Refuse, Unchanged, controlVars, signalVars,
            selectedVars, progressVars, fileVars, claimVars
<1>1. ASSUME NEW s \in Signals, Arrive(s)
      PROVE  RunOK'
  BY <1>1 DEF Arrive
<1>2. ASSUME NEW s \in Signals, TakeSignal(s)
      PROVE  RunOK'
  BY <1>2 DEF TakeSignal
<1>3. CASE MarkerAppears \/ RunnerCertifies \/ SetupFails \/ LeaderExits
           \/ DescendantsEnd \/ ReapedElsewhere \/ RivalClaims
           \/ RivalCertifies \/ Expire
  BY <1>3 DEF MarkerAppears, RunnerCertifies, SetupFails, LeaderExits,
              DescendantsEnd, ReapedElsewhere, RivalClaims, RivalCertifies,
              Expire
<1>4. CASE Main \/ CheckRequest \/ MakeEnvironment \/ StartTrace
           \/ OpenOutputs
  BY <1>4 DEF Main, CheckRequest, MakeEnvironment, StartTrace, OpenOutputs,
              Idle, Reserved
<1>5. CASE Start \/ Block \/ Spawn \/ SpawnFails \/ Unmask \/ Unmasked
  BY <1>5 DEF Start, Block, Spawn, SpawnFails, Unmask, Unmasked
<1>6. CASE Loop
  BY <1>6 DEF Loop
<1>7. CASE Check
  BY <1>7 DEF Check, LeaderStatus
<1>8. CASE Wait
  BY <1>8 DEF Wait, Capture
<1>9. CASE Kill \/ Reap \/ Absent \/ CleanFails \/ CleanDone
  BY <1>9 DEF Kill, Reap, Absent, CleanFails, CleanDone
<1>10. CASE Finish \/ Record \/ Consume
  BY <1>10 DEF Finish, Record, Consume, FileLimit
<1>11. CASE OpenReceipt \/ WriteReceipt \/ OpenStatus \/ WriteStatus
  BY <1>11 DEF OpenReceipt, WriteReceipt, OpenStatus, WriteStatus
<1>12. CASE Handle
  BY <1>12 DEF Handle
<1>13. CASE Drain
  BY <1>13 DEF Drain, Capture
<1>14. CASE Finally \/ Leave
  BY <1>14 DEF Finally, Leave
<1> QED BY <1>1, <1>2, <1>3, <1>4, <1>5, <1>6, <1>7, <1>8, <1>9, <1>10, <1>11,
           <1>12, <1>13, <1>14
        DEF Next, Helper

\* Every step keeps the files typed.
LEMMA FilesKept ==
  ASSUME FilesOK, Next
  PROVE  FilesOK'
<1> USE DEF FilesOK, Goto, Raise, Refuse, Unchanged, controlVars, signalVars,
            selectedVars, progressVars, fileVars, claimVars
<1>1. ASSUME NEW s \in Signals, Arrive(s)
      PROVE  FilesOK'
  BY <1>1 DEF Arrive
<1>2. ASSUME NEW s \in Signals, TakeSignal(s)
      PROVE  FilesOK'
  BY <1>2 DEF TakeSignal
<1>3. CASE MarkerAppears \/ RunnerCertifies \/ SetupFails \/ LeaderExits
           \/ DescendantsEnd \/ ReapedElsewhere \/ RivalClaims
           \/ RivalCertifies \/ Expire
  BY <1>3 DEF MarkerAppears, RunnerCertifies, SetupFails, LeaderExits,
              DescendantsEnd, ReapedElsewhere, RivalClaims, RivalCertifies,
              Expire
<1>4. CASE Main \/ CheckRequest \/ MakeEnvironment \/ StartTrace
           \/ OpenOutputs
  BY <1>4 DEF Main, CheckRequest, MakeEnvironment, StartTrace, OpenOutputs,
              Idle, Reserved
<1>5. CASE Start \/ Block \/ Spawn \/ SpawnFails \/ Unmask \/ Unmasked
  BY <1>5 DEF Start, Block, Spawn, SpawnFails, Unmask, Unmasked
<1>6. CASE Loop
  BY <1>6 DEF Loop
<1>7. CASE Check
  BY <1>7 DEF Check, LeaderStatus
<1>8. CASE Wait
  BY <1>8 DEF Wait, Capture
<1>9. CASE Kill \/ Reap \/ Absent \/ CleanFails \/ CleanDone
  BY <1>9 DEF Kill, Reap, Absent, CleanFails, CleanDone
<1>10. CASE Finish \/ Record \/ Consume
  BY <1>10 DEF Finish, Record, Consume, FileLimit
<1>11. CASE OpenReceipt \/ WriteReceipt \/ OpenStatus \/ WriteStatus
  BY <1>11 DEF OpenReceipt, WriteReceipt, OpenStatus, WriteStatus
<1>12. CASE Handle
  BY <1>12 DEF Handle
<1>13. CASE Drain
  BY <1>13 DEF Drain, Capture
<1>14. CASE Finally \/ Leave
  BY <1>14 DEF Finally, Leave
<1> QED BY <1>1, <1>2, <1>3, <1>4, <1>5, <1>6, <1>7, <1>8, <1>9, <1>10, <1>11,
           <1>12, <1>13, <1>14
        DEF Next, Helper

-----------------------------------------------------------------------------
(***************************************************************************)
(* Each part of the invariant is kept by every step.                       *)
(***************************************************************************)

\* A clause is left only as Python leaves it.
LEMMA PlaceKept ==
  ASSUME HelperInv, Next
  PROVE  PlaceInv'
<1> USE DEF HelperInv, TypeOK, PlaceInv, ErrorInv, Claiming, Starting,
            Started, Capturing, Cleaning, Recording, Reporting, Goto, Raise,
            Refuse, Unchanged, controlVars, signalVars, selectedVars,
            progressVars, fileVars, claimVars
<1>1. ASSUME NEW s \in Signals, Arrive(s)
      PROVE  PlaceInv'
  BY <1>1 DEF Arrive
<1>2. ASSUME NEW s \in Signals, TakeSignal(s)
      PROVE  PlaceInv'
  BY <1>2 DEF TakeSignal
<1>3. CASE MarkerAppears \/ RunnerCertifies \/ SetupFails \/ LeaderExits
           \/ DescendantsEnd \/ ReapedElsewhere \/ RivalClaims
           \/ RivalCertifies \/ Expire
  BY <1>3 DEF MarkerAppears, RunnerCertifies, SetupFails, LeaderExits,
              DescendantsEnd, ReapedElsewhere, RivalClaims, RivalCertifies,
              Expire
<1>4. CASE Main \/ CheckRequest \/ MakeEnvironment \/ StartTrace
           \/ OpenOutputs
  BY <1>4 DEF Main, CheckRequest, MakeEnvironment, StartTrace, OpenOutputs,
              Idle, Reserved
<1>5. CASE Start \/ Block \/ Spawn \/ SpawnFails \/ Unmask \/ Unmasked
  BY <1>5 DEF Start, Block, Spawn, SpawnFails, Unmask, Unmasked
<1>6. CASE Loop
  BY <1>6 DEF Loop
<1>7. CASE Check
  BY <1>7 DEF Check, LeaderStatus
<1>8. CASE Wait
  BY <1>8 DEF Wait, Capture
<1>9. CASE Kill \/ Reap \/ Absent \/ CleanFails \/ CleanDone
  BY <1>9 DEF Kill, Reap, Absent, CleanFails, CleanDone
<1>10. CASE Finish \/ Record \/ Consume
  BY <1>10 DEF Finish, Record, Consume, FileLimit
<1>11. CASE OpenReceipt \/ WriteReceipt \/ OpenStatus \/ WriteStatus
  BY <1>11 DEF OpenReceipt, WriteReceipt, OpenStatus, WriteStatus
<1>12. CASE Handle
  BY <1>12 DEF Handle
<1>13. CASE Drain
  BY <1>13 DEF Drain, Capture
<1>14. CASE Finally \/ Leave
  BY <1>14 DEF Finally, Leave
<1> QED BY <1>1, <1>2, <1>3, <1>4, <1>5, <1>6, <1>7, <1>8, <1>9, <1>10, <1>11,
           <1>12, <1>13, <1>14
        DEF Next, Helper

\* The exception under way, and the handler, fit the place.
LEMMA ErrorKept ==
  ASSUME HelperInv, Next
  PROVE  ErrorInv'
<1> USE DEF HelperInv, TypeOK, PlaceInv, ErrorInv, SelectedInv, Claiming,
            Starting, Started, Capturing, Cleaning, Recording, Reporting,
            Goto, Raise, Refuse, Unchanged, controlVars, signalVars,
            selectedVars, progressVars, fileVars, claimVars
<1>1. ASSUME NEW s \in Signals, Arrive(s)
      PROVE  ErrorInv'
  BY <1>1 DEF Arrive
<1>2. ASSUME NEW s \in Signals, TakeSignal(s)
      PROVE  ErrorInv'
  BY <1>2 DEF TakeSignal
<1>3. CASE MarkerAppears \/ RunnerCertifies \/ SetupFails \/ LeaderExits
           \/ DescendantsEnd \/ ReapedElsewhere \/ RivalClaims
           \/ RivalCertifies \/ Expire
  BY <1>3 DEF MarkerAppears, RunnerCertifies, SetupFails, LeaderExits,
              DescendantsEnd, ReapedElsewhere, RivalClaims, RivalCertifies,
              Expire
<1>4. CASE Main \/ CheckRequest \/ MakeEnvironment \/ StartTrace
           \/ OpenOutputs
  BY <1>4 DEF Main, CheckRequest, MakeEnvironment, StartTrace, OpenOutputs,
              Idle, Reserved
<1>5. CASE Start \/ Block \/ Spawn \/ SpawnFails \/ Unmask \/ Unmasked
  BY <1>5 DEF Start, Block, Spawn, SpawnFails, Unmask, Unmasked
<1>6. CASE Loop
  BY <1>6 DEF Loop
<1>7. CASE Check
  BY <1>7 DEF Check, LeaderStatus
<1>8. CASE Wait
  BY <1>8 DEF Wait, Capture
<1>9. CASE Kill \/ Reap \/ Absent \/ CleanFails \/ CleanDone
  BY <1>9 DEF Kill, Reap, Absent, CleanFails, CleanDone
<1>10. CASE Finish \/ Record \/ Consume
  BY <1>10 DEF Finish, Record, Consume, FileLimit
<1>11. CASE OpenReceipt \/ WriteReceipt \/ OpenStatus \/ WriteStatus
  BY <1>11 DEF OpenReceipt, WriteReceipt, OpenStatus, WriteStatus
<1>12. CASE Handle
  BY <1>12 DEF Handle
<1>13. CASE Drain
  BY <1>13 DEF Drain, Capture
<1>14. CASE Finally \/ Leave
  BY <1>14 DEF Finally, Leave
<1> QED BY <1>1, <1>2, <1>3, <1>4, <1>5, <1>6, <1>7, <1>8, <1>9, <1>10, <1>11,
           <1>12, <1>13, <1>14
        DEF Next, Helper

\* The cleanup is complete only over a group that is gone.
LEMMA SelectedKept ==
  ASSUME HelperInv, Next
  PROVE  SelectedInv'
<1> USE DEF HelperInv, TypeOK, PlaceInv, ErrorInv, SelectedInv, Claiming,
            Starting, Started, Capturing, Cleaning, Recording, Reporting,
            Goto, Raise, Refuse, Unchanged, controlVars, signalVars,
            selectedVars, progressVars, fileVars, claimVars
<1>1. ASSUME NEW s \in Signals, Arrive(s)
      PROVE  SelectedInv'
  BY <1>1 DEF Arrive
<1>2. ASSUME NEW s \in Signals, TakeSignal(s)
      PROVE  SelectedInv'
  BY <1>2 DEF TakeSignal
<1>3. CASE MarkerAppears \/ RunnerCertifies \/ SetupFails \/ LeaderExits
           \/ DescendantsEnd \/ ReapedElsewhere \/ RivalClaims
           \/ RivalCertifies \/ Expire
  BY <1>3 DEF MarkerAppears, RunnerCertifies, SetupFails, LeaderExits,
              DescendantsEnd, ReapedElsewhere, RivalClaims, RivalCertifies,
              Expire
<1>4. CASE Main \/ CheckRequest \/ MakeEnvironment \/ StartTrace
           \/ OpenOutputs
  BY <1>4 DEF Main, CheckRequest, MakeEnvironment, StartTrace, OpenOutputs,
              Idle, Reserved
<1>5. CASE Start \/ Block \/ Spawn \/ SpawnFails \/ Unmask \/ Unmasked
  BY <1>5 DEF Start, Block, Spawn, SpawnFails, Unmask, Unmasked
<1>6. CASE Loop
  BY <1>6 DEF Loop
<1>7. CASE Check
  BY <1>7 DEF Check, LeaderStatus
<1>8. CASE Wait
  BY <1>8 DEF Wait, Capture
<1>9. CASE Kill \/ Reap \/ Absent \/ CleanFails \/ CleanDone
  BY <1>9 DEF Kill, Reap, Absent, CleanFails, CleanDone
<1>10. CASE Finish \/ Record \/ Consume
  BY <1>10 DEF Finish, Record, Consume, FileLimit
<1>11. CASE OpenReceipt \/ WriteReceipt \/ OpenStatus \/ WriteStatus
  BY <1>11 DEF OpenReceipt, WriteReceipt, OpenStatus, WriteStatus
<1>12. CASE Handle
  BY <1>12 DEF Handle
<1>13. CASE Drain
  BY <1>13 DEF Drain, Capture
<1>14. CASE Finally \/ Leave
  BY <1>14 DEF Finally, Leave
<1> QED BY <1>1, <1>2, <1>3, <1>4, <1>5, <1>6, <1>7, <1>8, <1>9, <1>10, <1>11,
           <1>12, <1>13, <1>14
        DEF Next, Helper

\* Beyond the claim the paths are this helper's own.
LEMMA ClaimKept ==
  ASSUME HelperInv, Next
  PROVE  ClaimInv'
<1> USE DEF HelperInv, TypeOK, PlaceInv, SelectedInv, ClaimInv, Claiming,
            Starting, Started, Capturing, Cleaning, Recording, Reporting,
            Goto, Raise, Refuse, Unchanged, controlVars, signalVars,
            selectedVars, progressVars, fileVars, claimVars
<1>1. ASSUME NEW s \in Signals, Arrive(s)
      PROVE  ClaimInv'
  BY <1>1 DEF Arrive
<1>2. ASSUME NEW s \in Signals, TakeSignal(s)
      PROVE  ClaimInv'
  BY <1>2 DEF TakeSignal
<1>3. CASE MarkerAppears \/ RunnerCertifies \/ SetupFails \/ LeaderExits
           \/ DescendantsEnd \/ ReapedElsewhere \/ RivalClaims
           \/ RivalCertifies \/ Expire
  BY <1>3 DEF MarkerAppears, RunnerCertifies, SetupFails, LeaderExits,
              DescendantsEnd, ReapedElsewhere, RivalClaims, RivalCertifies,
              Expire
<1>4. CASE Main \/ CheckRequest \/ MakeEnvironment \/ StartTrace
           \/ OpenOutputs
  BY <1>4 DEF Main, CheckRequest, MakeEnvironment, StartTrace, OpenOutputs,
              Idle, Reserved
<1>5. CASE Start \/ Block \/ Spawn \/ SpawnFails \/ Unmask \/ Unmasked
  BY <1>5 DEF Start, Block, Spawn, SpawnFails, Unmask, Unmasked
<1>6. CASE Loop
  BY <1>6 DEF Loop
<1>7. CASE Check
  BY <1>7 DEF Check, LeaderStatus
<1>8. CASE Wait
  BY <1>8 DEF Wait, Capture
<1>9. CASE Kill \/ Reap \/ Absent \/ CleanFails \/ CleanDone
  BY <1>9 DEF Kill, Reap, Absent, CleanFails, CleanDone
<1>10. CASE Finish \/ Record \/ Consume
  BY <1>10 DEF Finish, Record, Consume, FileLimit
<1>11. CASE OpenReceipt \/ WriteReceipt \/ OpenStatus \/ WriteStatus
  BY <1>11 DEF OpenReceipt, WriteReceipt, OpenStatus, WriteStatus
<1>12. CASE Handle
  BY <1>12 DEF Handle
<1>13. CASE Drain
  BY <1>13 DEF Drain, Capture
<1>14. CASE Finally \/ Leave
  BY <1>14 DEF Finally, Leave
<1> QED BY <1>1, <1>2, <1>3, <1>4, <1>5, <1>6, <1>7, <1>8, <1>9, <1>10, <1>11,
           <1>12, <1>13, <1>14
        DEF Next, Helper

\* No receipt is completed before its proof.
LEMMA ReceiptKept ==
  ASSUME HelperInv, Next
  PROVE  ReceiptInv'
<1> USE DEF HelperInv, TypeOK, PlaceInv, ErrorInv, SelectedInv, ClaimInv,
            ReceiptInv, Claiming, Starting, Started, Capturing, Cleaning,
            Recording, Reporting, Goto, Raise, Refuse, Unchanged, controlVars,
            signalVars, selectedVars, progressVars, fileVars, claimVars
<1>1. ASSUME NEW s \in Signals, Arrive(s)
      PROVE  ReceiptInv'
  BY <1>1 DEF Arrive
<1>2. ASSUME NEW s \in Signals, TakeSignal(s)
      PROVE  ReceiptInv'
  BY <1>2 DEF TakeSignal
<1>3. CASE MarkerAppears \/ RunnerCertifies \/ SetupFails \/ LeaderExits
           \/ DescendantsEnd \/ ReapedElsewhere \/ RivalClaims
           \/ RivalCertifies \/ Expire
  BY <1>3 DEF MarkerAppears, RunnerCertifies, SetupFails, LeaderExits,
              DescendantsEnd, ReapedElsewhere, RivalClaims, RivalCertifies,
              Expire
<1>4. CASE Main \/ CheckRequest \/ MakeEnvironment \/ StartTrace
           \/ OpenOutputs
  BY <1>4 DEF Main, CheckRequest, MakeEnvironment, StartTrace, OpenOutputs,
              Idle, Reserved
<1>5. CASE Start \/ Block \/ Spawn \/ SpawnFails \/ Unmask \/ Unmasked
  BY <1>5 DEF Start, Block, Spawn, SpawnFails, Unmask, Unmasked
<1>6. CASE Loop
  BY <1>6 DEF Loop
<1>7. CASE Check
  BY <1>7 DEF Check, LeaderStatus
<1>8. CASE Wait
  BY <1>8 DEF Wait, Capture
<1>9. CASE Kill \/ Reap \/ Absent \/ CleanFails \/ CleanDone
  BY <1>9 DEF Kill, Reap, Absent, CleanFails, CleanDone
<1>10. CASE Finish \/ Record \/ Consume
  BY <1>10 DEF Finish, Record, Consume, FileLimit
<1>11. CASE OpenReceipt \/ WriteReceipt \/ OpenStatus \/ WriteStatus
  BY <1>11 DEF OpenReceipt, WriteReceipt, OpenStatus, WriteStatus
<1>12. CASE Handle
  BY <1>12 DEF Handle
<1>13. CASE Drain
  BY <1>13 DEF Drain, Capture
<1>14. CASE Finally \/ Leave
  BY <1>14 DEF Finally, Leave
<1> QED BY <1>1, <1>2, <1>3, <1>4, <1>5, <1>6, <1>7, <1>8, <1>9, <1>10, <1>11,
           <1>12, <1>13, <1>14
        DEF Next, Helper

\* No status is written before the receipt.
LEMMA StatusKept ==
  ASSUME HelperInv, Next
  PROVE  StatusInv'
<1> USE DEF HelperInv, TypeOK, PlaceInv, ErrorInv, SelectedInv, ClaimInv,
            ReceiptInv, StatusInv, Claiming, Starting, Started, Capturing,
            Cleaning, Recording, Reporting, Goto, Raise, Refuse, Unchanged,
            controlVars, signalVars, selectedVars, progressVars, fileVars,
            claimVars
<1>1. ASSUME NEW s \in Signals, Arrive(s)
      PROVE  StatusInv'
  BY <1>1 DEF Arrive
<1>2. ASSUME NEW s \in Signals, TakeSignal(s)
      PROVE  StatusInv'
  BY <1>2 DEF TakeSignal
<1>3. CASE MarkerAppears \/ RunnerCertifies \/ SetupFails \/ LeaderExits
           \/ DescendantsEnd \/ ReapedElsewhere \/ RivalClaims
           \/ RivalCertifies \/ Expire
  BY <1>3 DEF MarkerAppears, RunnerCertifies, SetupFails, LeaderExits,
              DescendantsEnd, ReapedElsewhere, RivalClaims, RivalCertifies,
              Expire
<1>4. CASE Main \/ CheckRequest \/ MakeEnvironment \/ StartTrace
           \/ OpenOutputs
  BY <1>4 DEF Main, CheckRequest, MakeEnvironment, StartTrace, OpenOutputs,
              Idle, Reserved
<1>5. CASE Start \/ Block \/ Spawn \/ SpawnFails \/ Unmask \/ Unmasked
  BY <1>5 DEF Start, Block, Spawn, SpawnFails, Unmask, Unmasked
<1>6. CASE Loop
  BY <1>6 DEF Loop
<1>7. CASE Check
  BY <1>7 DEF Check, LeaderStatus
<1>8. CASE Wait
  BY <1>8 DEF Wait, Capture
<1>9. CASE Kill \/ Reap \/ Absent \/ CleanFails \/ CleanDone
  BY <1>9 DEF Kill, Reap, Absent, CleanFails, CleanDone
<1>10. CASE Finish \/ Record \/ Consume
  BY <1>10 DEF Finish, Record, Consume, FileLimit
<1>11. CASE OpenReceipt \/ WriteReceipt \/ OpenStatus \/ WriteStatus
  BY <1>11 DEF OpenReceipt, WriteReceipt, OpenStatus, WriteStatus
<1>12. CASE Handle
  BY <1>12 DEF Handle
<1>13. CASE Drain
  BY <1>13 DEF Drain, Capture
<1>14. CASE Finally \/ Leave
  BY <1>14 DEF Finally, Leave
<1> QED BY <1>1, <1>2, <1>3, <1>4, <1>5, <1>6, <1>7, <1>8, <1>9, <1>10, <1>11,
           <1>12, <1>13, <1>14
        DEF Next, Helper

\* Without signals nothing but an output error keeps a cleanup from its receipt.
LEMMA CertifyKept ==
  ASSUME HelperInv, Next
  PROVE  CertifyInv'
<1> USE DEF HelperInv, TypeOK, PlaceInv, ErrorInv, SelectedInv, ClaimInv,
            ReceiptInv, StatusInv, CertifyInv, RunnerProved, Claiming,
            Starting, Started, Capturing, Cleaning, Recording, Reporting,
            Goto, Raise, Refuse, Unchanged, controlVars, signalVars,
            selectedVars, progressVars, fileVars, claimVars
<1>1. ASSUME NEW s \in Signals, Arrive(s)
      PROVE  CertifyInv'
  BY <1>1 DEF Arrive
<1>2. ASSUME NEW s \in Signals, TakeSignal(s)
      PROVE  CertifyInv'
  BY <1>2 DEF TakeSignal
<1>3. CASE MarkerAppears \/ RunnerCertifies \/ SetupFails \/ LeaderExits
           \/ DescendantsEnd \/ ReapedElsewhere \/ RivalClaims
           \/ RivalCertifies \/ Expire
  BY <1>3 DEF MarkerAppears, RunnerCertifies, SetupFails, LeaderExits,
              DescendantsEnd, ReapedElsewhere, RivalClaims, RivalCertifies,
              Expire
<1>4. CASE Main \/ CheckRequest \/ MakeEnvironment \/ StartTrace
           \/ OpenOutputs
  BY <1>4 DEF Main, CheckRequest, MakeEnvironment, StartTrace, OpenOutputs,
              Idle, Reserved
<1>5. CASE Start \/ Block \/ Spawn \/ SpawnFails \/ Unmask \/ Unmasked
  BY <1>5 DEF Start, Block, Spawn, SpawnFails, Unmask, Unmasked
<1>6. CASE Loop
  BY <1>6 DEF Loop
<1>7. CASE Check
  BY <1>7 DEF Check, LeaderStatus
<1>8. CASE Wait
  BY <1>8 DEF Wait, Capture
<1>9. CASE Kill \/ Reap \/ Absent \/ CleanFails \/ CleanDone
  BY <1>9 DEF Kill, Reap, Absent, CleanFails, CleanDone
<1>10. CASE Finish \/ Record \/ Consume
  BY <1>10 DEF Finish, Record, Consume, FileLimit
<1>11. CASE OpenReceipt \/ WriteReceipt \/ OpenStatus \/ WriteStatus
  BY <1>11 DEF OpenReceipt, WriteReceipt, OpenStatus, WriteStatus
<1>12. CASE Handle
  BY <1>12 DEF Handle
<1>13. CASE Drain
  BY <1>13 DEF Drain, Capture
<1>14. CASE Finally \/ Leave
  BY <1>14 DEF Finally, Leave
<1> QED BY <1>1, <1>2, <1>3, <1>4, <1>5, <1>6, <1>7, <1>8, <1>9, <1>10, <1>11,
           <1>12, <1>13, <1>14
        DEF Next, Helper

\* A signal that arrives changes nothing for those handled; one more is handled
\* when it is taken.
LEMMA SignalsCount ==
  ASSUME HelperInv, NEW s \in Signals, NEW n \in {0, 1, 2}, Handled(n)
  PROVE  /\ Arrive(s) => Handled(n)'
         /\ TakeSignal(s) => Handled(n)' /\ Handled(n + 1)'
<1>1. s \in {"TERM", "INT"} /\ arrived \in Nat
  BY BoundAssumption DEF Signals, HelperInv, TypeOK
<1>2. ASSUME Arrive(s)
      PROVE  Handled(n)'
  <2>1. s \notin pending /\ pending' = pending \cup {s} /\ arrived' = arrived + 1
    BY <1>2 DEF Arrive
  <2>2. {"TERM", "INT"} \subseteq pending' => pending # {}
    BY <1>1, <2>1
  <2> QED BY <1>1, <2>1, <2>2 DEF Handled
<1>3. ASSUME TakeSignal(s)
      PROVE  Handled(n)' /\ Handled(n + 1)'
  <2>1. s \in pending /\ pending' = pending \ {s} /\ arrived' = arrived
    BY <1>3 DEF TakeSignal
  <2>2. pending' # {} => {"TERM", "INT"} \subseteq pending
    BY <1>1, <2>1 DEF HelperInv, TypeOK, Signals
  <2>3. ~({"TERM", "INT"} \subseteq pending')
    BY <1>1, <2>1
  <2> QED BY <1>1, <2>1, <2>2, <2>3 DEF Handled
<1> QED BY <1>2, <1>3

\* Every step but a signal's leaves the count alone, and is no signal's error.
LEMMA CountUntouched ==
  ASSUME Next, \A s \in Signals : ~Arrive(s) /\ ~TakeSignal(s)
  PROVE  /\ UNCHANGED <<pending, arrived>>
         /\ first' \in {first, "cancelled", "timeout", "overflow", "io", "lost", "boundary"}
         /\ outcome' # outcome => outcome' # "killed"
         /\ pc = "exit" => UNCHANGED controlVars
<1> USE DEF Goto, Raise, Refuse, Unchanged, Idle, controlVars, signalVars
<1>1. CASE MarkerAppears \/ RunnerCertifies \/ SetupFails \/ LeaderExits
           \/ DescendantsEnd \/ ReapedElsewhere \/ RivalClaims
           \/ RivalCertifies \/ Expire
  BY <1>1 DEF MarkerAppears, RunnerCertifies, SetupFails, LeaderExits,
              DescendantsEnd, ReapedElsewhere, RivalClaims, RivalCertifies,
              Expire
<1>2. CASE Main \/ CheckRequest \/ MakeEnvironment \/ StartTrace \/ OpenOutputs
  BY <1>2 DEF Main, CheckRequest, MakeEnvironment, StartTrace, OpenOutputs
<1>3. CASE Start \/ Block \/ Spawn \/ SpawnFails \/ Unmask \/ Unmasked
  BY <1>3 DEF Start, Block, Spawn, SpawnFails, Unmask, Unmasked
<1>4. CASE Loop \/ Check \/ Wait
  BY <1>4 DEF Loop, Check, Wait, Capture
<1>5. CASE Kill \/ Reap \/ Absent \/ CleanFails \/ CleanDone
  BY <1>5 DEF Kill, Reap, Absent, CleanFails, CleanDone
<1>6. CASE Finish \/ Record \/ Consume
  BY <1>6 DEF Finish, Record, Consume
<1>7. CASE OpenReceipt \/ WriteReceipt \/ OpenStatus \/ WriteStatus
  BY <1>7 DEF OpenReceipt, WriteReceipt, OpenStatus, WriteStatus
<1>8. CASE Handle \/ Drain \/ Finally \/ Leave
  BY <1>8 DEF Handle, Drain, Capture, Finally, Leave
<1> QED BY <1>1, <1>2, <1>3, <1>4, <1>5, <1>6, <1>7, <1>8 DEF Next, Helper

\* The signals are counted by every step.
LEMMA CountKept ==
  ASSUME HelperInv, Next
  PROVE  CountInv'
<1>0. Handled(0) /\ (first \in {"interrupted", "keyboard"} => Handled(1))
  BY DEF HelperInv, CountInv
<1>1. ASSUME NEW s \in Signals, Arrive(s)
      PROVE  CountInv'
  <2>1. first' = first
    BY <1>1 DEF Arrive, controlVars
  <2> QED BY <1>0, <1>1, <2>1, SignalsCount DEF CountInv
<1>2. ASSUME NEW s \in Signals, TakeSignal(s)
      PROVE  CountInv'
  <2>1. Handled(0)' /\ Handled(0 + 1)'
    BY <1>0, <1>2, SignalsCount
  <2> QED BY <2>1 DEF CountInv
<1>3. CASE \A s \in Signals : ~Arrive(s) /\ ~TakeSignal(s)
  BY <1>0, <1>3, CountUntouched DEF CountInv, Handled
<1> QED BY <1>1, <1>2, <1>3

\* Nobody is left behind but for a reason.
LEMMA LeaveKept ==
  ASSUME HelperInv, Next
  PROVE  LeaveInv'
<1>still. UNCHANGED <<pending, arrived>> => UNCHANGED Handled(2)
  BY DEF Handled
<1>taken. \A s \in Signals :
            /\ Arrive(s) => (Handled(2) => Handled(2)')
            /\ TakeSignal(s) => (Handled(2) => Handled(2)')
                                /\ (first = "keyboard" => Handled(2)')
  <2>1. first = "keyboard" => Handled(1)
    BY DEF HelperInv, CountInv
  <2>2. \A s \in Signals : TakeSignal(s) => (Handled(1) => Handled(1 + 1)')
    BY SignalsCount
  <2>3. 1 + 1 = 2
    OBVIOUS
  <2>4. \A s \in Signals :
          (Arrive(s) \/ TakeSignal(s)) => (Handled(2) => Handled(2)')
    BY SignalsCount
  <2> QED BY <2>1, <2>2, <2>3, <2>4
<1> USE DEF HelperInv, TypeOK, PlaceInv, ErrorInv, SelectedInv, StatusInv,
            LeaveInv, Claiming, Starting, Started, Capturing, Cleaning,
            Recording, Reporting, Goto, Raise, Refuse, Unchanged, controlVars,
            signalVars, selectedVars, progressVars, fileVars, claimVars
<1>1. ASSUME NEW s \in Signals, Arrive(s)
      PROVE  LeaveInv'
  BY <1>1, <1>taken DEF Arrive
<1>2. ASSUME NEW s \in Signals, TakeSignal(s)
      PROVE  LeaveInv'
  <2>1. /\ Handled(2) => Handled(2)'
        /\ first = "keyboard" => Handled(2)'
    BY <1>2, <1>taken
  <2>2. UNCHANGED <<live, doomed, cleanup>> /\ pc # "exit"
    BY <1>2 DEF TakeSignal
  <2>3. CASE UNCHANGED <<region, error, first>>
    BY <2>1, <2>2, <2>3
  <2>4. CASE Raise("interrupted") /\ ~interrupted
    BY <2>2, <2>4
  <2>5. CASE Raise("keyboard")
    BY <2>1, <2>2, <2>5
  <2> QED BY <1>2, <2>3, <2>4, <2>5 DEF TakeSignal
<1>3. CASE MarkerAppears
  BY <1>3, <1>still DEF MarkerAppears
<1>4. CASE RunnerCertifies
  BY <1>4, <1>still DEF RunnerCertifies
<1>5. CASE SetupFails \/ LeaderExits
  BY <1>5, <1>still DEF SetupFails, LeaderExits
<1>6. CASE DescendantsEnd
  BY <1>6, <1>still DEF DescendantsEnd
<1>7. CASE ReapedElsewhere
  BY <1>7, <1>still DEF ReapedElsewhere
<1>8. CASE RivalClaims
  BY <1>8, <1>still DEF RivalClaims
<1>9. CASE RivalCertifies
  BY <1>9, <1>still DEF RivalCertifies
<1>10. CASE Expire
  BY <1>10, <1>still DEF Expire
<1>11. CASE Main
  BY <1>11, <1>still DEF Main, Idle
<1>12. CASE CheckRequest
  BY <1>12, <1>still DEF CheckRequest, Idle, Reserved
<1>13. CASE MakeEnvironment
  BY <1>13, <1>still DEF MakeEnvironment, Idle
<1>14. CASE StartTrace
  BY <1>14, <1>still DEF StartTrace, Idle
<1>15. CASE OpenOutputs
  BY <1>15, <1>still DEF OpenOutputs, Idle
<1>16. CASE Start
  BY <1>16, <1>still DEF Start
<1>17. CASE Block
  BY <1>17, <1>still DEF Block
<1>18. CASE Spawn
  BY <1>18, <1>still DEF Spawn
<1>19. CASE SpawnFails
  BY <1>19, <1>still DEF SpawnFails
<1>20. CASE Unmask
  BY <1>20, <1>still DEF Unmask
<1>21. CASE Unmasked
  BY <1>21, <1>still DEF Unmasked
<1>22. CASE Loop
  BY <1>22, <1>still DEF Loop
<1>23. CASE Check
  BY <1>23, <1>still DEF Check, LeaderStatus
<1>24. CASE Wait
  BY <1>24, <1>still DEF Wait, Capture
<1>25. CASE Kill
  BY <1>25, <1>still DEF Kill
<1>26. CASE Reap
  BY <1>26, <1>still DEF Reap
<1>27. CASE Absent
  BY <1>27, <1>still DEF Absent
<1>28. CASE CleanFails
  BY <1>28, <1>still DEF CleanFails
<1>29. CASE CleanDone
  BY <1>29, <1>still DEF CleanDone
<1>30. CASE Finish
  BY <1>30, <1>still DEF Finish, FileLimit
<1>31. CASE Record
  BY <1>31, <1>still DEF Record
<1>32. CASE Consume
  BY <1>32, <1>still DEF Consume
<1>33. CASE OpenReceipt
  BY <1>33, <1>still DEF OpenReceipt
<1>34. CASE WriteReceipt
  BY <1>34, <1>still DEF WriteReceipt
<1>35. CASE OpenStatus
  BY <1>35, <1>still DEF OpenStatus
<1>36. CASE WriteStatus
  BY <1>36, <1>still DEF WriteStatus
<1>37. CASE Handle
  BY <1>37, <1>still DEF Handle
<1>38. CASE Drain
  BY <1>38, <1>still DEF Drain, Capture
<1>39. CASE Finally
  BY <1>39, <1>still DEF Finally
<1>40. CASE Leave
  BY <1>40, <1>still DEF Leave
<1> QED BY <1>1, <1>2, <1>3, <1>4, <1>5, <1>6, <1>7, <1>8, <1>9, <1>10, <1>11,
           <1>12, <1>13, <1>14, <1>15, <1>16, <1>17, <1>18, <1>19, <1>20,
           <1>21, <1>22, <1>23, <1>24, <1>25, <1>26, <1>27, <1>28, <1>29,
           <1>30, <1>31, <1>32, <1>33, <1>34, <1>35, <1>36, <1>37, <1>38,
           <1>39, <1>40
        DEF Next, Helper

\* Where a SIGTERM kills, whoever is left was left for a reason.
LEMMA KilledKept ==
  ASSUME HelperInv, Next
  PROVE  NeverKilledOverGroup'
<1>1. ASSUME NEW s \in Signals, Arrive(s)
      PROVE  NeverKilledOverGroup'
  BY <1>1 DEF Arrive, HelperInv, PlaceInv, NeverKilledOverGroup, controlVars
<1>2. ASSUME NEW s \in Signals, TakeSignal(s)
      PROVE  NeverKilledOverGroup'
  <2>1. CASE outcome' # "killed"
    BY <2>1 DEF NeverKilledOverGroup
  <2>2. CASE outcome' = "killed"
    <3>1. /\ handler = "default" /\ arrived' = arrived
          /\ UNCHANGED <<region, error, first, proc, live, doomed, cleanup>>
      BY <1>2, <2>2
         DEF TakeSignal, Raise, controlVars, selectedVars, progressVars,
             HelperInv, PlaceInv
    <3>2. proc # "none" => region = "finally"
      BY <3>1 DEF HelperInv, ErrorInv
    <3>3. Handled(2) => arrived > 2
      <4>1. pending # {} /\ arrived \in Nat
        BY <1>2, BoundAssumption DEF TakeSignal, HelperInv, TypeOK
      <4> QED BY <4>1 DEF Handled
    <3>4. LeaveInv
      BY DEF HelperInv
    <3> QED
      BY <3>1, <3>2, <3>3, <3>4 DEF NeverKilledOverGroup, RaisedAgain, LeaveInv
  <2> QED BY <2>1, <2>2
<1>3. CASE \A s \in Signals : ~Arrive(s) /\ ~TakeSignal(s)
  <2>1. CASE outcome' # "killed"
    BY <2>1 DEF NeverKilledOverGroup
  <2>2. CASE outcome = "killed" /\ outcome' = "killed"
    <3>1. pc = "exit" /\ UNCHANGED <<arrived, region, error, first>>
      BY <1>3, <2>2, CountUntouched DEF HelperInv, PlaceInv, controlVars
    <3>2. /\ UNCHANGED <<doomed, cleanup>>
          /\ proc' # "none" => proc # "none"
          /\ live' => live
      BY <1>3, <3>1
         DEF Next, Helper, MarkerAppears, RunnerCertifies, SetupFails,
             LeaderExits, DescendantsEnd, ReapedElsewhere, RivalClaims,
             RivalCertifies, Expire, Main, CheckRequest, MakeEnvironment,
             StartTrace, OpenOutputs, Start, Block, Spawn, SpawnFails, Unmask,
             Unmasked, Loop, Check, Wait, Kill, Reap, Absent, CleanFails,
             CleanDone, Finish, Record, Consume, OpenReceipt, WriteReceipt,
             OpenStatus, WriteStatus, Handle, Drain, Finally, Leave,
             selectedVars, progressVars, HelperInv, SelectedInv
    <3> QED BY <2>2, <3>1, <3>2 DEF HelperInv, NeverKilledOverGroup, RaisedAgain
  <2> QED BY <1>3, <2>1, <2>2, CountUntouched
<1> QED BY <1>1, <1>2, <1>3

-----------------------------------------------------------------------------
(***************************************************************************)
(* The theorems.                                                           *)
(***************************************************************************)

\* The invariant holds when the helper is started.
LEMMA HelperInit == Init => HelperInv
<1> SUFFICES ASSUME Init PROVE HelperInv
  OBVIOUS
<1> USE DEF Init
<1>1. HelperFlagsOK /\ RunFlagsOK
  BY Zenon DEF HelperFlagsOK, RunFlagsOK
<1>2. SignalsOK
  <2>1. pending \subseteq Signals
    BY Zenon
  <2>2. arrived = 0
    BY Zenon
  <2>3. arrived \in 0..MaxSignals
    BY ONLY <2>2, BoundAssumption
  <2> QED BY <2>1, <2>3 DEF SignalsOK
<1>3. ControlOK /\ RunOK /\ FilesOK
  BY DEF ControlOK, RunOK, FilesOK, Places
<1>4. PlaceInv /\ ErrorInv
  BY DEF PlaceInv, ErrorInv, Claiming, Started
<1>5. SelectedInv /\ ClaimInv
  BY DEF SelectedInv, ClaimInv, Claiming, Starting, Started, Capturing,
         Cleaning, Recording, Reporting
<1>6. ReceiptInv /\ StatusInv
  BY DEF ReceiptInv, StatusInv, Starting, Started, Capturing, Recording,
         Reporting
<1>7. CertifyInv /\ LeaveInv /\ NeverKilledOverGroup
  BY DEF CertifyInv, LeaveInv, NeverKilledOverGroup
<1>8. CountInv
  <2>1. pending = {} /\ arrived = 0 /\ first = "none"
    BY Zenon
  <2> QED BY ONLY <2>1 DEF CountInv, Handled
<1> QED BY <1>1, <1>2, <1>3, <1>4, <1>5, <1>6, <1>7, <1>8, TypesByKind DEF HelperInv

\* Every step keeps it.
LEMMA HelperStep == HelperInv /\ [Next]_vars => HelperInv'
<1> SUFFICES ASSUME HelperInv, [Next]_vars PROVE HelperInv'
  OBVIOUS
<1>1. CASE Next
  <2>1. HelperFlagsOK /\ RunFlagsOK /\ SignalsOK /\ ControlOK /\ RunOK /\ FilesOK
    BY TypesByKind DEF HelperInv
  <2>2. TypeOK'
    BY <1>1, <2>1, HelperFlagsKept, RunFlagsKept, SignalsKept, ControlKept,
       RunKept, FilesKept
       DEF TypeOK, HelperFlagsOK, RunFlagsOK, SignalsOK, ControlOK, RunOK,
           FilesOK
  <2> QED
    BY <1>1, <2>2, PlaceKept, ErrorKept, SelectedKept, ClaimKept, ReceiptKept,
       StatusKept, CertifyKept, CountKept, LeaveKept, KilledKept
       DEF HelperInv
<1>2. CASE UNCHANGED vars
  BY <1>2
     DEF vars, controlVars, signalVars, selectedVars, progressVars, fileVars,
         claimVars, HelperInv, TypeOK, PlaceInv, ErrorInv, SelectedInv,
         ClaimInv, ReceiptInv, StatusInv, CertifyInv, RunnerProved,
         CountInv, Handled, LeaveInv, NeverKilledOverGroup, RaisedAgain
<1> QED BY <1>1, <1>2

\* The invariant is one of the specification.
LEMMA HelperInvariant == Spec => []HelperInv
  BY HelperInit, HelperStep, PTL DEF Spec

\* A complete receipt is never found beside a live group or an unproven runner,
\* whatever interrupts the run, and wherever (line 66).
THEOREM ReceiptMeansAbsentHolds == Spec => []ReceiptMeansAbsent
<1>1. HelperInv => ReceiptMeansAbsent
  BY DEF HelperInv, SelectedInv, ReceiptInv, ReceiptMeansAbsent
<1> QED BY <1>1, HelperInvariant, PTL

\* A status follows the receipt, and success means that the run was neither
\* interrupted nor on another helper's paths (lines 509-524).
THEOREM StatusMeansReceiptHolds == Spec => []StatusMeansReceipt
<1>1. HelperInv => StatusMeansReceipt
  <2> SUFFICES ASSUME HelperInv PROVE StatusMeansReceipt
    OBVIOUS
  <2>1. ExitCode = 0 => outcome = "status"
    BY DEF ExitCode
  <2> QED
    BY <2>1 DEF HelperInv, PlaceInv, ErrorInv, StatusInv, StatusMeansReceipt
<1> QED BY <1>1, HelperInvariant, PTL

\* Further SIGTERMs do not keep an interrupted run from cleaning up
\* (lines 446-451, 525-538).
THEOREM InterruptedRunCleansUpHolds == Spec => []InterruptedRunCleansUp
<1>1. HelperInv => InterruptedRunCleansUp
  BY DEF HelperInv, SelectedInv, LeaveInv, InterruptedRunCleansUp, Ended
<1> QED BY <1>1, HelperInvariant, PTL

\* Where SIGTERM kills the helper, no process was started, or nobody is left of
\* its group whom the helper has not killed, but where the cleanup failed, its
\* ownership was lost, or a signal had raised within the failure path
\* (lines 442-478, 525-538, 557-558).
THEOREM NeverKilledOverGroupHolds == Spec => []NeverKilledOverGroup
<1>1. HelperInv => NeverKilledOverGroup
  BY DEF HelperInv
<1> QED BY <1>1, HelperInvariant, PTL

\* A run without signals whose cleanup succeeded, and whose runner certified,
\* ends with a receipt, unless it exceeded an output limit.
THEOREM CleanupIsCertifiedHolds == Spec => []CleanupIsCertifiedWithinLimits
<1>1. HelperInv => CleanupIsCertifiedWithinLimits
  BY DEF HelperInv, SelectedInv, CertifyInv, RunnerProved,
         CleanupIsCertifiedWithinLimits, CleanupIsCertified, Ended
<1> QED BY <1>1, HelperInvariant, PTL

-----------------------------------------------------------------------------
(***************************************************************************)
(* The refinement of OwnedRun, step by step.                               *)
(***************************************************************************)

\* What OwnedRun sees of the outcome.
Result == CASE outcome = "none" -> "none"
            [] outcome = "status" -> "status"
            [] OTHER -> "failed"

\* The helper starts with nothing started.
LEMMA PromiseInit == Init => Promise!Init
  BY DEF Init, Promise!Init

\* A step that changes none of what OwnedRun sees is a stutter of it.
LEMMA PromiseStutter ==
  ASSUME UNCHANGED <<live, outcome>>, (proc = "none") <=> (proc' = "none"),
         (receipt = "valid") <=> (receipt' = "valid")
  PROVE  UNCHANGED Promise!vars
  BY DEF Promise!vars
\* Each step of the environment or of the helper is a step of OwnedRun, or a
\* stutter: the start is Start, the end of the last member Die, the completed
\* receipt Certify, and the helper's own end Report.
LEMMA PromiseStep ==
  ASSUME HelperInv, Next
  PROVE  [Promise!Next]_Promise!vars
<1>1. ASSUME NEW s \in Signals, Arrive(s)
      PROVE  UNCHANGED Promise!vars
  BY <1>1, PromiseStutter
     DEF Arrive, controlVars, selectedVars, fileVars
<1>2. ASSUME NEW s \in Signals, TakeSignal(s)
      PROVE  Promise!Report \/ UNCHANGED Promise!vars
  <2>1. UNCHANGED <<proc, live, receipt>>
    BY <1>2 DEF TakeSignal, selectedVars, fileVars
  <2>2. CASE outcome' = outcome
    BY <2>1, <2>2, PromiseStutter
  <2>3. CASE outcome' = "killed" /\ outcome = "none"
    BY <2>1, <2>3 DEF Promise!Report
  <2> QED
    BY <1>2, <2>2, <2>3 DEF TakeSignal, Raise, controlVars, HelperInv, PlaceInv
<1>3. CASE MarkerAppears \/ RunnerCertifies \/ ReapedElsewhere \/ RivalClaims
           \/ RivalCertifies \/ Expire
  BY <1>3, PromiseStutter
     DEF MarkerAppears, RunnerCertifies, ReapedElsewhere, RivalClaims,
         RivalCertifies, Expire, controlVars, selectedVars, fileVars
<1>4. CASE SetupFails \/ LeaderExits \/ DescendantsEnd
  <2>1. live /\ proc # "none" /\ proc' # "none" /\ UNCHANGED <<receipt, outcome>>
    BY <1>4
       DEF SetupFails, LeaderExits, DescendantsEnd, controlVars, fileVars,
           HelperInv, SelectedInv
  <2>2. live = TRUE
    BY <2>1, Zenon DEF HelperInv, TypeOK
  <2>3. live' = TRUE \/ live' = FALSE
    BY <1>4, Zenon DEF SetupFails, LeaderExits, DescendantsEnd
  <2>4. CASE live' = FALSE
    <3>1. UNCHANGED <<(proc # "none"), (receipt = "valid"), Result>>
      BY <2>1 DEF Result
    <3>2. Promise!Die
      BY <2>1, <2>4, <3>1, Zenon DEF Promise!Die, Result
    <3> QED BY <3>2 DEF Promise!Next
  <2>5. CASE live' = TRUE
    BY <2>1, <2>2, <2>5, PromiseStutter
  <2> QED BY <2>3, <2>4, <2>5 DEF Promise!Next
<1>5. CASE Main
  <2>1. UNCHANGED <<proc, live, receipt>>
    BY <1>5 DEF Main, Idle, selectedVars, fileVars
  <2>2. CASE outcome' = outcome
    BY <2>1, <2>2, PromiseStutter
  <2>3. CASE outcome' = "usage" /\ outcome = "none"
    BY <2>1, <2>3 DEF Promise!Next, Promise!Report
  <2> QED BY <1>5, <2>2, <2>3 DEF Main, Goto, HelperInv, PlaceInv
<1>6. CASE Spawn
  <2>1. /\ proc = "none" /\ receipt # "valid" /\ outcome = "none"
        /\ proc' # "none" /\ live' = TRUE /\ UNCHANGED <<receipt, outcome>>
    BY <1>6
       DEF Spawn, Goto, fileVars, HelperInv, PlaceInv, SelectedInv, ReceiptInv,
           Starting
  <2>2. Promise!Start
    <3>1. UNCHANGED <<(receipt = "valid"), Result>>
      BY <2>1 DEF Result
    <3> QED BY <2>1, <3>1 DEF Promise!Start, Result
  <2> QED BY <2>2 DEF Promise!Next
<1>7. CASE WriteReceipt
  <2>1. /\ receipt # "valid" /\ outcome = "none" /\ ~live
        /\ UNCHANGED <<proc, live, outcome>>
    BY <1>7
       DEF WriteReceipt, Goto, Raise, selectedVars, HelperInv, PlaceInv,
           SelectedInv, ReceiptInv, Recording
  <2>2. CASE receipt' = receipt
    BY <2>1, <2>2, PromiseStutter
  <2>3. CASE receipt' = "valid"
    <3>1. UNCHANGED <<(proc # "none"), Result>>
      BY <2>1 DEF Result
    <3>2. Promise!Certify
      BY <2>1, <2>3, <3>1 DEF Promise!Certify, Result
    <3> QED BY <3>2 DEF Promise!Next
  <2> QED BY <1>7, <2>2, <2>3 DEF WriteReceipt
<1>8. CASE Leave
  <2>1. outcome = "none" /\ UNCHANGED <<proc, live, receipt>>
    BY <1>8 DEF Leave, selectedVars, fileVars, HelperInv, PlaceInv
  <2>2. CASE outcome' = "status"
    <3>1. proc # "none" /\ receipt = "valid"
      BY <1>8, <2>2
         DEF Leave, HelperInv, TypeOK, PlaceInv, SelectedInv, StatusInv,
             Claiming, Starting, Started, Capturing, Cleaning, Recording,
             Reporting
    <3> QED BY <2>1, <2>2, <3>1 DEF Promise!Next, Promise!Report
  <2>3. CASE outcome' = "raised"
    BY <2>1, <2>3 DEF Promise!Next, Promise!Report
  <2> QED BY <1>8, <2>2, <2>3 DEF Leave
<1>9. CASE Helper /\ ~(Main \/ Spawn \/ WriteReceipt \/ Leave)
  <2>1. UNCHANGED <<live, outcome>> /\ (proc = "none" <=> proc' = "none")
    BY <1>9
       DEF Helper, CheckRequest, MakeEnvironment, StartTrace, OpenOutputs, Start,
           Block, SpawnFails, Unmask, Unmasked, Loop, Check, Wait, Kill, Reap,
           Absent, CleanFails, CleanDone, Finish, Record, Consume, OpenReceipt,
           OpenStatus, WriteStatus, Handle, Drain, Finally, Goto, Raise, Refuse,
           Idle, Unchanged, Capture, selectedVars
  <2>2. receipt = "valid" <=> receipt' = "valid"
    BY <1>9
       DEF Helper, CheckRequest, MakeEnvironment, StartTrace, OpenOutputs, Start,
           Block, SpawnFails, Unmask, Unmasked, Loop, Check, Wait, Kill, Reap,
           Absent, CleanFails, CleanDone, Finish, Record, Consume, OpenReceipt,
           OpenStatus, WriteStatus, Handle, Drain, Finally, Goto, Raise, Refuse,
           Idle, Unchanged, Capture, fileVars
  <2> QED BY <2>1, <2>2, PromiseStutter
<1> QED BY <1>1, <1>2, <1>3, <1>4, <1>5, <1>6, <1>7, <1>8, <1>9
        DEF Next, Promise!Next

\* The helper implements OwnedRun, up to the promise that it ends: every step of
\* it is a step that the runners' models allow, or a stutter.
THEOREM HelperImplementsOwnedRun ==
  Spec => Promise!Init /\ [][Promise!Next]_Promise!vars
<1>1. HelperInv /\ [Next]_vars => [Promise!Next]_Promise!vars
  <2> SUFFICES ASSUME HelperInv, [Next]_vars
               PROVE  [Promise!Next]_Promise!vars
    OBVIOUS
  <2>1. CASE UNCHANGED vars
    BY <2>1, PromiseStutter
       DEF vars, controlVars, selectedVars, fileVars
  <2> QED BY <2>1, PromiseStep
<1> QED BY <1>1, PromiseInit, HelperInvariant, PTL DEF Spec
=============================================================================
