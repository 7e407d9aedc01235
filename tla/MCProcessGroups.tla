-------------------------- MODULE MCProcessGroups --------------------------
(***************************************************************************)
(* Values for ProcessGroups: a leader and two descendants, one of which    *)
(* the caller may not be allowed to signal, and the two callers' steps.    *)
(***************************************************************************)
EXTENDS ProcessGroups

CONSTANTS leader, child, setuid

AllProcs == {leader, child, setuid}

\* sq_evidence_process.py:224-227, fido_custody.py:145
EvidenceSteps == <<[sig |-> "TERM", grace |-> TRUE],
                   [sig |-> "KILL", grace |-> FALSE]>>
CustodySteps == <<[sig |-> "KILL", grace |-> FALSE]>>
=============================================================================
