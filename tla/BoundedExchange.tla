--------------------------- MODULE BoundedExchange --------------------------
(***************************************************************************)
(* adapters/fido_custody.py: what passes between the adapter and its       *)
(* worker.  The constructor's checks, the launcher, _bounded_communicate   *)
(* over pipes that fill up, and the admission of the answer; the worker    *)
(* runs the programs of conformance/check-fido-custody.py.  Signals, masks *)
(* and the steps of the cleanup are CustodyAdapter's; data is in units.    *)
(***************************************************************************)
EXTENDS JsonValues, FiniteSetsExt

CONSTANTS Calls,          \* [timeout, maxIn, maxOut, environment, command, masked, case, size, reply]
          PipeSize,       \* what a pipe holds
          Chunk,          \* what one read or write moves at most
          Request,        \* [profile_revision, plugin_digest, age_digest]
          Hex, Sha256,    \* bytes.fromhex and the digest of its results
          DecodeStrictJson(_),   \* decode_strict_json, which is StrictJson's Decode
          ReadingsOf(_)          \* the values a lenient reader could make of a text

ASSUME ExchangeAssumption == PipeSize \in Nat \ {0} /\ Chunk \in Nat \ {0}
ASSUME CallsAssumption == \A c \in Calls : c.size \in Nat /\ c.maxOut[2] \in Int
ASSUME RequestAssumption == DOMAIN Request = {"profile_revision", "plugin_digest", "age_digest"}

\* Of the decoder: bytes that are no JSON are refused, and what it decodes has
\* no other reading.
ASSUME DecoderAssumption ==
    /\ ~IsOk(DecodeStrictJson(<<"bad", "syntax">>))
    /\ \A c \in Calls : IsOk(DecodeStrictJson(c.reply)) => ReadingsOf(c.reply) = {DecodeStrictJson(c.reply)[2]}

VARIABLES call,
          pc, registered, ready, offset, buffer, expired, outcome,
          pipe,           \* what each pipe holds
          worker, child,
          written         \* all that was ever written to an output

adapter == <<pc, registered, ready, offset, buffer, outcome>>
vars == <<call, pc, registered, ready, offset, buffer, expired, outcome, pipe, worker, child, written>>

Outputs == {"stdout", "stderr"}
Empty == [s \in Outputs |-> <<>>]
Envelope == [i \in 1 .. call.size |-> i]

Init ==
    /\ call \in Calls
    /\ pc = "construct" /\ registered = {} /\ ready = {} /\ offset = 0 /\ buffer = Empty
    /\ expired = FALSE /\ outcome = "none"
    /\ pipe = [s \in Outputs \union {"stdin"} |-> <<>>] /\ written = Empty
    /\ worker = [state |-> "none", environment |-> {}, at |-> 1, got |-> <<>>, eof |-> FALSE, closed |-> FALSE, status |-> 0]
    /\ child = "none"

-----------------------------------------------------------------------------
\* The worker: one instruction of its program after the other.

\* Which program the first line of the envelope asks for.
Program ==
    LET c == call.case
        only(names, steps) == IF c \in names THEN steps ELSE <<>>
    IN  <<<<"line">>>>
        \o (IF "SACRYSTY_TEST_NAME" \in worker.environment THEN <<<<"exit", 17>>>> ELSE <<>>)
        \o only({"duplex"}, <<<<"write", "stdout", "pad">>, <<"write", "stdout", "pad">>, <<"write", "stdout", "pad">>>>)
        \o (IF c = "early-close" THEN <<<<"close">>>> ELSE <<<<"rest">>>>)
        \o only({"complete-input"}, <<<<"expect", call.size>>>>)
        \o only({"interrupt"}, <<<<"spawn", "holding">>, <<"sleep">>>>)
        \o only({"oversized-stdout"}, <<<<"write", "stdout", "junk">>, <<"write", "stdout", "junk">>, <<"sleep">>, <<"exit", 0>>>>)
        \o only({"oversized-stderr"}, <<<<"write", "stderr", "junk">>, <<"write", "stderr", "junk">>, <<"sleep">>, <<"exit", 0>>>>)
        \o only({"timeout"}, <<<<"sleep">>, <<"exit", 0>>>>)
        \o only({"lingering-child"}, <<<<"spawn", "holding">>>>)
        \o only({"redirected-child", "cleanup-denied"}, <<<<"spawn", "apart">>>>)
        \o only({"cleanup-denied"}, <<<<"marker">>>>)
        \o only({"crash"}, <<<<"exit", 9>>>>)
        \o only({"bad-uv"}, <<<<"sleep">>>>)
        \o <<<<"write", "stdout", "reply">>, <<"exit", 0>>>>

Running == worker.state = "running"
Step == Program[worker.at]
Does(op) == Running /\ Step[1] = op
Onward == [worker EXCEPT !.at = @ + 1]
Quiet == UNCHANGED <<call, expired>> /\ UNCHANGED adapter

\* _UNBLOCK_CANCELLATION_AND_EXEC: the launcher ends with 125 when it cannot exec.
Launch ==
    /\ worker.state = "launching"
    /\ IF call.command = "found" THEN worker' = [worker EXCEPT !.state = "running"] /\ UNCHANGED <<pipe, written>>
       ELSE /\ worker' = [worker EXCEPT !.state = "exited", !.status = 125]
            /\ pipe' = [pipe EXCEPT !.stderr = Append(@, "junk")] /\ written' = [written EXCEPT !.stderr = Append(@, "junk")]
    /\ UNCHANGED child /\ Quiet

\* One unit from stdin, or its end once the adapter has closed it.
Read ==
    /\ Does("line") \/ Does("rest")
    /\ IF pipe.stdin # <<>>
       THEN /\ worker' = [(IF Does("line") THEN Onward ELSE worker) EXCEPT !.got = Append(@, Head(pipe.stdin))]
            /\ pipe' = [pipe EXCEPT !.stdin = Tail(@)]
       ELSE /\ "stdin" \notin registered
            /\ worker' = [Onward EXCEPT !.eof = TRUE] /\ UNCHANGED pipe
    /\ UNCHANGED <<child, written>> /\ Quiet

\* One unit to an output; once the adapter has closed the pipes, an error that
\* ends the worker.
Write ==
    /\ Does("write") /\ UNCHANGED child /\ Quiet
    /\ IF pc = "done" THEN worker' = [worker EXCEPT !.state = "exited", !.status = 1] /\ UNCHANGED <<pipe, written>>
       ELSE /\ Len(pipe[Step[2]]) < PipeSize /\ worker' = Onward
            /\ pipe' = [pipe EXCEPT ![Step[2]] = Append(@, Step[3])]
            /\ written' = [written EXCEPT ![Step[2]] = Append(@, Step[3])]

\* It closes stdin, starts a child, waits for the child's marker, checks what it
\* got, sleeps, or exits.
Work ==
    /\ \/ Does("close") /\ worker' = [Onward EXCEPT !.closed = TRUE] /\ UNCHANGED child
       \/ Does("spawn") /\ worker' = Onward /\ child' = Step[2]
       \/ Does("sleep") /\ worker' = Onward /\ UNCHANGED child
       \/ Does("marker") /\ worker' \in {Onward, [worker EXCEPT !.state = "exited", !.status = 20]} /\ UNCHANGED child
       \/ /\ Does("expect") /\ UNCHANGED child
          /\ worker' = IF Len(worker.got) = Step[2] THEN Onward ELSE [worker EXCEPT !.state = "exited", !.status = 19]
       \/ Does("exit") /\ worker' = [worker EXCEPT !.state = "exited", !.status = Step[2]] /\ UNCHANGED child
    /\ UNCHANGED <<pipe, written>> /\ Quiet

ChildEnds ==
    /\ child \in {"holding", "apart"} /\ child' = "gone"
    /\ UNCHANGED <<pipe, worker, written>> /\ Quiet

Worker == Launch \/ Read \/ Write \/ Work \/ ChildEnds

\* Who holds the worker's ends of the pipes; a child started with its
\* parent's descriptors holds them too.
Alive == worker.state \in {"launching", "running"}
Readable == (Alive /\ ~worker.closed) \/ child = "holding"
Writable == Alive \/ child = "holding"

-----------------------------------------------------------------------------
\* The adapter.

Here(p) == pc = p
Own == UNCHANGED <<call, expired>>
Keep == UNCHANGED <<registered, ready, offset, buffer>>
World == UNCHANGED <<pipe, worker, child, written>>
Refuse(why) == pc' = "done" /\ outcome' = why
Abandon(why) == pc' = "clean" /\ outcome' = why
GoOn(p) == pc' = p /\ UNCHANGED outcome

\* _normalize_timeout_seconds and the checks of the two limits.
WrongTimely(t) == t.type \in {"int", "float", "Fraction"} /\ t.value \notin {"zero", "negative", "underflow", "overflow"}
Timely(t) == t.type \in {"int", "float", "Fraction"} /\ t.value = "positive"
IsLimit(l) == l[1] = "int" /\ l[2] > 0
Forbidden == {"AGEDEBUG", "RUST_LOG"}
Allowed == {"PATH", "HOME", "LANG", "LC_ALL", "TMPDIR"}

Construct ==
    /\ Here("construct")
    /\ IF ~Timely(call.timeout) \/ ~IsLimit(call.maxIn) \/ ~IsLimit(call.maxOut) THEN Refuse("invalid limits")
       ELSE IF call.environment \cap Forbidden # {} THEN Refuse("debugging environment")
       ELSE GoOn("unwrap")
    /\ Keep /\ World /\ Own

\* A caller that blocks both signals gets no launcher, and a missing command
\* is then an error of Popen.
Unwrap ==
    /\ Here("unwrap")
    /\ IF call.size = 0 THEN Refuse("empty envelope") /\ UNCHANGED <<worker, registered>>
       ELSE IF call.size > call.maxIn[2] THEN Refuse("envelope too large") /\ UNCHANGED <<worker, registered>>
       ELSE IF call.masked /\ call.command = "missing" THEN Refuse("worker unavailable") /\ UNCHANGED <<worker, registered>>
       ELSE /\ GoOn("select")
            /\ registered' = Outputs \union {"stdin"}
            /\ worker' = [state |-> IF call.masked THEN "running" ELSE "launching", environment |-> call.environment \cap Allowed,
                          at |-> 1, got |-> <<>>, eof |-> FALSE, closed |-> FALSE, status |-> 0]
    /\ UNCHANGED <<ready, offset, buffer, pipe, child, written>> /\ Own

\* What select reports: stdin also when nobody reads it any more.
Reported(s) == s \in registered /\ IF s = "stdin" THEN Len(pipe[s]) < PipeSize \/ ~Readable
                                   ELSE pipe[s] # <<>> \/ ~Writable
WrongReady == {s \in {"stdin"} : Reported(s)} \union {s \in Outputs : Reported(s) /\ "stdin" \notin registered}
Ready == {s \in Outputs \union {"stdin"} : Reported(s)}

\* One round: the deadline, then a select whose timeout only leads to another.
WrongSelect ==
    /\ Here("select")
    /\ IF registered = {} \/ worker.state = "exited" THEN GoOn("await") /\ UNCHANGED ready
       ELSE IF expired THEN Abandon("worker timeout") /\ UNCHANGED ready
       ELSE Ready # {} /\ ready' = Ready /\ GoOn("events")
    /\ UNCHANGED <<registered, offset, buffer>> /\ World /\ Own
Select ==
    /\ Here("select")
    /\ IF registered = {} THEN GoOn("await") /\ UNCHANGED ready
       ELSE IF expired THEN Abandon("worker timeout") /\ UNCHANGED ready
       ELSE Ready # {} /\ ready' = Ready /\ GoOn("events")
    /\ UNCHANGED <<registered, offset, buffer>> /\ World /\ Own

NextRound == GoOn(IF ready' = {} THEN "select" ELSE "events")

\* A broken pipe is an OSError, a full one a BlockingIOError.
FeedStdin ==
    /\ Here("events") /\ "stdin" \in ready /\ ready' = ready \ {"stdin"}
    /\ LET k == Min({Chunk, call.size - offset, PipeSize - Len(pipe.stdin)}) IN
       IF ~Readable THEN Abandon("worker I/O failure") /\ UNCHANGED <<offset, registered, pipe>>
       ELSE /\ offset' = offset + k
            /\ pipe' = [pipe EXCEPT !.stdin = @ \o SubSeq(Envelope, offset + 1, offset + k)]
            /\ registered' = IF k > 0 /\ offset + k = call.size THEN registered \ {"stdin"} ELSE registered
            /\ NextRound
    /\ UNCHANGED <<buffer, worker, child, written>> /\ Own

\* One read, at most one unit beyond the limit.
Drain(s) ==
    /\ Here("events") /\ s \in ready /\ ready' = ready \ {s}
    /\ LET k == Min({Chunk, call.maxOut[2] - Len(buffer[s]) + 1, Len(pipe[s])}) IN
       IF pipe[s] = <<>>
       THEN /\ registered' = IF Writable THEN registered ELSE registered \ {s}
            /\ NextRound /\ UNCHANGED <<buffer, pipe>>
       ELSE /\ buffer' = [buffer EXCEPT ![s] = @ \o SubSeq(pipe[s], 1, k)]
            /\ pipe' = [pipe EXCEPT ![s] = SubSeq(@, k + 1, Len(@))]
            /\ UNCHANGED registered
            /\ IF Len(buffer[s]) + k > call.maxOut[2] THEN Abandon(IF s = "stdout" THEN "worker output too large" ELSE "worker stderr too large") ELSE NextRound
    /\ UNCHANGED <<offset, worker, child, written>> /\ Own

\* All pipes are closed; a worker may live on without them.
AwaitExit ==
    /\ Here("await")
    /\ IF ~Alive THEN GoOn("clean") ELSE expired /\ Abandon("worker timeout")
    /\ Keep /\ World /\ Own

Deadline ==
    /\ pc \in {"select", "events", "await"} /\ call.timeout.value = "positive"
    /\ ~expired /\ expired' = TRUE
    /\ UNCHANGED call /\ UNCHANGED adapter /\ World

\* _terminate_and_reap: the group is killed, then the pipes are closed; when
\* the kill fails the worker lives on with closed pipes.
Killed == IF Alive THEN [worker EXCEPT !.state = "killed", !.status = 137] ELSE worker
Cleanup ==
    /\ Here("clean") /\ registered' = {}
    /\ \/ /\ worker' = Killed /\ child' = "gone"
          /\ IF outcome = "none" THEN GoOn("admit") ELSE Refuse(outcome)
       \/ Refuse("worker cleanup failure") /\ UNCHANGED <<worker, child>>
    /\ UNCHANGED <<ready, offset, buffer, pipe, written>> /\ Own

\* The bytes of stdout as JSON: blanks, and exactly one reply.
ReplyIn(bytes) ==
    IF \E i \in DOMAIN bytes : bytes[i] = "reply" /\ \A j \in DOMAIN bytes \ {i} : bytes[j] = "pad"
    THEN call.reply ELSE <<"bad", "syntax">>

Members == {"status", "plaintext", "plaintext_sha256", "profile_revision", "plugin_digest", "age_digest", "uv_mode", "timing_class"}
\* What is wrong with a decoded answer: the first of the checks that fails.
Differs(m, k) == Get(m, k) # Str(Request[k])
Diagnosis(m) ==
    IF ~IsObj(m) \/ ~Has(m, "status") \/ Get(m, "status") # Str("ok") THEN "worker rejected envelope"
    ELSE IF Keys(m) # Members THEN "incomplete worker output"
    ELSE IF ~IsStr(Get(m, "plaintext")) \/ Get(m, "plaintext")[2] \notin DOMAIN Hex THEN "malformed plaintext"
    ELSE IF Get(m, "plaintext_sha256") # Str(Sha256[Hex[Get(m, "plaintext")[2]]]) THEN "plaintext digest mismatch"
    ELSE IF Differs(m, "profile_revision") THEN "profile_revision mismatch"
    ELSE IF Differs(m, "plugin_digest") THEN "plugin_digest mismatch"
    ELSE IF Differs(m, "age_digest") THEN "age_digest mismatch"
    ELSE IF Get(m, "uv_mode") \notin {Str("built-in"), Str("pin")} THEN "unknown UV mode"
    ELSE IF Get(m, "timing_class") \notin {Str("interactive"), Str("bounded")} THEN "unknown timing class"
    ELSE "result"

\* The rest of unwrap; only StrictJsonErrors become CustodyErrors.
Admit ==
    /\ Here("admit")
    /\ LET d == DecodeStrictJson(ReplyIn(buffer.stdout)) IN
       Refuse(IF worker.status # 0 THEN "worker failure"
              ELSE IF ~IsOk(d) THEN (IF d[2] \in StrictErrors THEN "malformed worker output" ELSE "raised")
              ELSE Diagnosis(d[2]))
    /\ Keep /\ World /\ Own

Adapter == Construct \/ Unwrap \/ Select \/ FeedStdin \/ (\E s \in Outputs : Drain(s)) \/ AwaitExit \/ Cleanup \/ Admit

-----------------------------------------------------------------------------
TypeOK ==
    /\ registered \subseteq Outputs \union {"stdin"} /\ (Here("events") => ready # {} /\ ready \subseteq registered)
    /\ offset \in 0 .. call.size
    /\ \A s \in DOMAIN pipe : Len(pipe[s]) <= PipeSize
    /\ worker.environment \subseteq Allowed
    /\ \A s \in Outputs : Len(buffer[s]) <= Max({0, call.maxOut[2] + 1})

\* The outcomes that do not wait for the whole answer.
Hasty == {"none", "invalid limits", "debugging environment", "empty envelope", "envelope too large", "worker unavailable",
          "worker timeout", "worker I/O failure", "worker output too large", "worker stderr too large", "worker cleanup failure"}

\* A worker that comes to the end of its input has read the whole envelope, in
\* order: it never takes a cut envelope for a whole one, unless it survives a
\* cleanup that failed, which closes the pipes all the same.  The answer is
\* judged on everything that was written, not on what had arrived when the
\* worker ended; and a result is what the reply says in its only reading, for
\* this very request.
DeliversFaithfully ==
    /\ TypeOK
    /\ worker.got = SubSeq(Envelope, 1, Len(worker.got)) /\ (worker.eof => worker.got = Envelope \/ outcome = "worker cleanup failure")
    /\ outcome \notin Hasty => buffer.stdout = written.stdout
    /\ outcome = "result" => \E v \in ReadingsOf(call.reply) :
          /\ ReadingsOf(call.reply) = {v} /\ worker.status = 0
          /\ Str(Sha256[Hex[Get(v, "plaintext")[2]]]) = Get(v, "plaintext_sha256")
          /\ \A k \in DOMAIN Request : Get(v, k) = Str(Request[k])

\* Adapter and worker never wait for each other: when the worker is stopped by
\* a full or an empty pipe, select has something to report.
Stopped ==
    \/ Does("write") /\ Len(pipe[Step[2]]) = PipeSize
    \/ (Does("line") \/ Does("rest")) /\ pipe.stdin = <<>> /\ "stdin" \in registered
ExchangeNeverJams == Here("select") /\ registered # {} /\ Stopped => Ready # {}
=============================================================================
