------------------------------ MODULE OwnedRun ------------------------------
(***************************************************************************)
(* What one evidence helper promises whoever started it, by files alone:   *)
(* a receipt is the proof that the processes it selected are gone for      *)
(* good, a status is only reported after the receipt, and some end is      *)
(* always reached.  EvidenceProcess implements this module.                *)
(***************************************************************************)

VARIABLES
    started,  \* the selected process has been started
    live,     \* a process of its group is running
    receipt,  \* the cleanup receipt is complete
    result    \* "none", "status", or "failed" for every other end

vars == <<started, live, receipt, result>>

Init == started = FALSE /\ live = FALSE /\ receipt = FALSE /\ result = "none"

\* Nothing is started a second time, or after the receipt.
Start ==
    /\ ~started /\ ~receipt /\ result = "none"
    /\ started' = TRUE /\ live' = TRUE
    /\ UNCHANGED <<receipt, result>>

\* Also after the helper's own end, when it had to leave somebody behind.
Die ==
    /\ live /\ live' = FALSE
    /\ UNCHANGED <<started, receipt, result>>

Certify ==
    /\ ~live /\ ~receipt /\ result = "none"
    /\ receipt' = TRUE
    /\ UNCHANGED <<started, live, result>>

Report ==
    /\ result = "none"
    /\ \/ result' = "status" /\ started /\ receipt
       \/ result' = "failed"
    /\ UNCHANGED <<started, live, receipt>>

Next == Start \/ Die \/ Certify \/ Report

Spec == Init /\ [][Next]_vars /\ WF_vars(Report)
=============================================================================
