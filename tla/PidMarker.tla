------------------------------ MODULE PidMarker -----------------------------
(***************************************************************************)
(* conformance/check-fido-custody.py: how the check learns the number of a *)
(* process it did not start.  A producer writes it to a marker file while  *)
(* wait_for_markers reads that file.  In the mode "stepwise" (check_pid_   *)
(* marker_readiness) the producer stops after each of four records until   *)
(* the reader has seen it.  In the mode "free" (the marker of the worker   *)
(* that is interrupted) it writes whenever it likes; the caller, whose     *)
(* exit ends the wait, and its worker are one process here.                *)
(***************************************************************************)
EXTENDS Naturals, Sequences

VARIABLES mode,
          marker,         \* what the file holds: <<text, newline>>
          producer,       \* [at, does, status]
          plus,           \* the bytes in the producer's stdin
          labels,         \* the lines in its stdout
          checker,        \* the next step of the check, see Places
          seen,           \* the record of the last read
          reads,          \* records_read, for the probe at most 4
          late            \* the deadline of the present wait has passed

markerVars == <<mode, marker, producer, plus, labels, checker, seen, reads, late>>

\* There is no file (an OSError when it is read).
Absent == <<"absent", FALSE>>

\* PID_MARKER_PRODUCER's records, which are named by their labels, and the only
\* record of the worker.
Stepwise == <<<<"", FALSE>>, <<"not-a-pid", TRUE>>, <<"pid", FALSE>>, <<"pid", TRUE>>>>
Records == IF mode = "stepwise" THEN Stepwise ELSE <<<<"pid", TRUE>>>>

MarkerInit ==
    /\ mode \in {"stepwise", "free"}
    /\ marker = Absent /\ seen = Absent
    /\ producer = [at |-> 1, does |-> "truncate", status |-> "none"]
    /\ plus = 0 /\ labels = <<>> /\ reads = 0 /\ late = FALSE
    /\ checker = IF mode = "stepwise" THEN "barrier" ELSE "read"

-----------------------------------------------------------------------------
\* The producer.

Doing(step) == producer.does = step
Then(step) == producer' = [producer EXCEPT !.does = step]

\* Opening and truncating come before the write: the file is empty in between.
Truncate ==
    /\ Doing("truncate") /\ Then("write")
    /\ marker' = <<"", FALSE>> /\ UNCHANGED <<plus, labels>>

Record ==
    /\ Doing("write") /\ Then(IF mode = "stepwise" THEN "announce" ELSE "sleep")
    /\ marker' = Records[producer.at] /\ UNCHANGED <<plus, labels>>

Announce ==
    /\ Doing("announce") /\ Then("await")
    /\ labels' = Append(labels, producer.at) /\ UNCHANGED <<marker, plus>>

\* A byte for each record; after the last one the producer ends.
Resume ==
    /\ Doing("await") /\ plus > 0 /\ plus' = plus - 1
    /\ producer' = IF producer.at = Len(Records) THEN [producer EXCEPT !.does = "exited", !.status = "zero"]
                   ELSE [producer EXCEPT !.at = @ + 1, !.does = "truncate"]
    /\ UNCHANGED <<marker, labels>>

\* It may die at any moment, of a full disk for one.
Die ==
    /\ ~Doing("exited") /\ producer' = [producer EXCEPT !.does = "exited", !.status = "nonzero"]
    /\ UNCHANGED <<marker, plus, labels>>

Producer ==
    /\ Truncate \/ Record \/ Announce \/ Resume \/ Die
    /\ UNCHANGED <<mode, checker, seen, reads, late>>

-----------------------------------------------------------------------------
\* The check.

Places == {"barrier", "read", "judge", "poll", "ready", "collect", "finally", "abort", "passed", "failed"}
At(place) == checker = place
Fail == checker' = "abort" /\ UNCHANGED late
Proceed(place) == checker' = place /\ UNCHANGED late

\* A record without its newline, even one with the whole number, is not complete.
WrongComplete(record) == record[1] = "pid"
Complete(record) == record[1] = "pid" /\ record[2]

\* require_pid_marker_producer_state: the producer's line within two seconds,
\* for the first record and for each that a read has released.
Barrier ==
    /\ At("barrier")
    /\ \/ labels # <<>> /\ labels' = Tail(labels)
          /\ IF Head(labels) = reads + 1 THEN Proceed(IF reads = 0 THEN "read" ELSE "judge") ELSE Fail
       \/ labels = <<>> /\ (late \/ Doing("exited")) /\ Fail /\ UNCHANGED labels
    /\ UNCHANGED <<producer, plus, seen, reads>>

\* read_bytes of the file, or of ReadinessMarkerProbe, which checks the first
\* three records and then releases the producer.
Reread ==
    /\ At("read") /\ seen' = marker
    /\ IF mode = "stepwise" /\ reads < 3
       THEN /\ reads' = reads + 1
            /\ IF marker = Records[reads + 1] THEN Proceed("barrier") /\ plus' = plus + 1
               ELSE Fail /\ UNCHANGED plus
       ELSE reads' = (IF mode = "stepwise" THEN 4 ELSE 0) /\ Proceed("judge") /\ UNCHANGED plus
    /\ UNCHANGED <<producer, labels>>

\* read_complete_pid_marker's verdict on what was read.
Judge ==
    /\ At("judge") /\ Proceed(IF Complete(seen) THEN "ready" ELSE "poll")
    /\ UNCHANGED <<producer, plus, labels, seen, reads>>

\* The deadline is forgotten in the loop.
WrongPoll ==
    /\ At("poll")
    /\ IF Doing("exited") THEN Fail ELSE Proceed("read")
    /\ UNCHANGED <<producer, plus, labels, seen, reads>>
\* A producer that has exited or a deadline that has passed ends the wait.
Poll ==
    /\ At("poll")
    /\ IF Doing("exited") \/ late THEN Fail ELSE Proceed("read")
    /\ UNCHANGED <<producer, plus, labels, seen, reads>>

\* complete_record_read: the number must not come from an earlier record.
Accept ==
    /\ At("ready")
    /\ IF mode = "free" THEN Proceed("finally") /\ UNCHANGED plus
       ELSE IF reads = 4 THEN checker' = "collect" /\ late' = FALSE /\ plus' = plus + 1
       ELSE Fail /\ UNCHANGED plus
    /\ UNCHANGED <<producer, labels, seen, reads>>

CollectProducer ==
    /\ At("collect")
    /\ \/ Doing("exited") /\ IF producer.status = "zero" THEN Proceed("finally") ELSE Fail
       \/ ~Doing("exited") /\ late /\ Fail
    /\ UNCHANGED <<producer, plus, labels, seen, reads>>

\* Whatever happened, the producer is killed if it runs, and waited for. (The
\* interrupted worker's end is the subject of CustodyAdapter.)
Finally ==
    /\ At("finally") \/ At("abort")
    /\ Proceed(IF At("finally") THEN "passed" ELSE "failed")
    /\ producer' = IF Doing("exited") THEN producer ELSE [producer EXCEPT !.does = "exited", !.status = "nonzero"]
    /\ UNCHANGED <<plus, labels, seen, reads>>

Checker ==
    /\ Barrier \/ Reread \/ Judge \/ Poll \/ Accept \/ CollectProducer \/ Finally
    /\ UNCHANGED <<mode, marker>>

\* The deadline of wait_for_markers, of the select and of communicate.
Late ==
    /\ checker \in {"barrier", "read", "judge", "poll", "collect"} /\ ~late /\ late' = TRUE
    /\ UNCHANGED <<mode, marker, producer, plus, labels, checker, seen, reads>>
=============================================================================
