----------------------------- MODULE CustodyCheck ---------------------------
(***************************************************************************)
(* main of conformance/check-fido-custody.py: the readiness of markers,    *)
(* the resource limits, and then one of the unwraps it expects a certain   *)
(* answer of.  (It makes them one after the other, each with a new adapter *)
(* and worker, so that one stands for all.)  While "timed" holds, time     *)
(* passes as the numbers in the check say, a prompt step before a second   *)
(* has passed and a sleeping worker after a shorter deadline; otherwise    *)
(* any deadline, death or failure may come at any moment.                  *)
(***************************************************************************)
EXTENDS BoundedExchange, PidMarker

VARIABLES stage, timed

checkVars == <<vars, markerVars, stage, timed>>

-----------------------------------------------------------------------------
\* What the worker answers in which case: a message of eight members.
Fields == <<"status", "plaintext", "plaintext_sha256", "profile_revision", "plugin_digest", "age_digest", "uv_mode", "timing_class">>
Message(m) == [i \in DOMAIN Fields |-> <<Fields[i], m[Fields[i]]>>]
Usual == [status |-> Str("ok"), plaintext |-> Str("6869"), plaintext_sha256 |-> Str("digest"), profile_revision |-> Str("profile-v1"),
          plugin_digest |-> Str("plugin"), age_digest |-> Str("age"), uv_mode |-> Str("built-in"), timing_class |-> Str("bounded")]
Answer(case) ==
    <<"obj", CASE case = "pin" -> Message([Usual EXCEPT !.uv_mode = Str("pin")])
               [] case = "partial" -> <<<<"status", Str("ok")>>>>
               [] case = "mismatch" ->
                    Message([Usual EXCEPT !.plaintext = Str("6868"), !.plaintext_sha256 = Str("other"), !.plugin_digest = Str("x")])
               [] case = "bad-uv" -> Message([Usual EXCEPT !.uv_mode = <<"arr", <<>>>>])
               [] case = "non-finite" -> Message([Usual EXCEPT !.timing_class = <<"bad", "nonfinite">>])
               [] case = "duplicate" -> <<<<"status", Str("rejected")>>>> \o Message(Usual)
               [] OTHER -> Message(Usual)>>

\* The unwraps of main: three envelopes that no pipe holds, two small limits,
\* and a debugging variable.
Large == 2 * PipeSize + 1
MainCall(case) ==
    LET size == IF case \in {"duplex", "complete-input", "early-close"} THEN Large ELSE IF case = "small-limit" THEN 2 ELSE 1
        limit == CASE case \in {"oversized-stdout", "oversized-stderr", "small-limit"} -> 1 [] OTHER -> Large
    IN  [timeout |-> [type |-> "float", value |-> "positive"], maxIn |-> <<"int", limit>>, maxOut |-> <<"int", limit>>,
         environment |-> IF case = "debugging" THEN {"AGEDEBUG"} ELSE {"PATH", "SACRYSTY_TEST_NAME"},
         command |-> "found", masked |-> FALSE, case |-> case, size |-> size, reply |-> Answer(case)]
LastCases == {"small-limit", "debugging"}
CheckedCases ==
    {"success", "pin", "duplex", "complete-input", "early-close", "crash", "timeout", "partial", "mismatch", "bad-uv", "duplicate",
     "non-finite", "oversized-stdout", "oversized-stderr", "lingering-child", "redirected-child", "cleanup-denied"} \union LastCases
CheckedCalls == {MainCall(c) : c \in CheckedCases}

\* What the check takes for granted.  A pipe holds the pads and part of the
\* envelope; the request is the one the answers are for, and the digests are
\* those of the two plaintexts.
ASSUME CheckAssumption ==
    /\ PipeSize > 1
    /\ Request = [profile_revision |-> "profile-v1", plugin_digest |-> "plugin", age_digest |-> "age"]
    /\ {<<"6869">>, <<"6868">>} \subseteq DOMAIN Hex
    /\ Sha256[Hex[<<"6869">>]] = "digest" /\ Sha256[Hex[<<"6868">>]] = "other"

\* Of the decoder: a repeated name and a number that is none are refused, and of
\* every other answer come its members.
Says(v, members) ==
    /\ IsObj(v) /\ Keys(v) = {members[i][1] : i \in DOMAIN members}
    /\ \A i \in DOMAIN members : Get(v, members[i][1]) = members[i][2]
ASSUME AnswersAssumption ==
    \A c \in CheckedCases :
       LET d == DecodeStrictJson(Answer(c))
       IN  IF c \in {"duplicate", "non-finite"} THEN ~IsOk(d) /\ d[2] \in StrictErrors
           ELSE IsOk(d) /\ Says(d[2], Answer(c)[2])

CheckInit ==
    /\ Init /\ MarkerInit
    /\ stage = "markers"
    /\ timed \in {b \in BOOLEAN : b => call \in CheckedCalls}

-----------------------------------------------------------------------------
\* Which answer main requires of which case.  The two calls that it only
\* requires to fail are the last ones.
Success == {"success", "pin", "duplex", "complete-input", "redirected-child"}
Required(case) ==
    CASE case \in Success -> {"result"}
      [] case = "early-close" -> {"worker I/O failure", "worker cleanup failure"}
      [] case = "crash" -> {"worker failure"}
      [] case \in {"timeout", "lingering-child"} -> {"worker timeout"}
      [] case = "partial" -> {"incomplete worker output"}
      [] case = "mismatch" -> {"plugin_digest mismatch"}
      [] case = "bad-uv" -> {"unknown UV mode"}
      [] case \in {"duplicate", "non-finite"} -> {"malformed worker output"}
      [] case = "oversized-stdout" -> {"worker output too large"}
      [] case = "oversized-stderr" -> {"worker stderr too large"}
      [] case = "cleanup-denied" -> {"worker cleanup failure"}
      [] OTHER -> {"envelope too large", "debugging environment"}

\* check_resource_limit_validation: the arguments that are taken and those
\* that are refused, a bool among the latter although Python counts with it.
TakenTimeouts == {<<"int", "positive">>, <<"float", "positive">>, <<"Fraction", "positive">>}
RefusedTimeouts ==
    {<<"int", v>> : v \in {"zero", "negative", "overflow"}} \union {<<"float", v>> : v \in {"infinite", "nan"}}
    \union {<<t, "positive">> : t \in {"bool", "str", "NoneType", "complex"}} \union {<<"bool", "zero">>}
RefusedLimits ==
    {<<t, 1>> : t \in {"bool", "float", "Fraction", "str", "NoneType", "complex"}} \union {<<"int", 0>>, <<"int", -1>>, <<"bool", 0>>}
LimitsAreChecked ==
    /\ \A t \in TakenTimeouts \union RefusedTimeouts : Timely([type |-> t[1], value |-> t[2]]) <=> t \in TakenTimeouts
    /\ IsLimit(<<"int", 1000000>>) /\ \A l \in RefusedLimits : ~IsLimit(l)

\* What the numbers of the check mean: 2 s of sleep against a deadline of
\* 0.1 s or a byte limit, 0.4 s of a child's life against the cleanup, and
\* everything else long before the deadline.  killpg is denied in one case only.
Denied == call.case = "cleanup-denied"
Sleepers == {"timeout", "oversized-stdout", "oversized-stderr"}
OnTime ==
    /\ expired' # expired => call.case \in {"timeout", "lingering-child"}
    /\ Does("sleep") /\ worker'.at > worker.at /\ call.case \in Sleepers => expired
    /\ child \in {"holding", "apart"} /\ child' = "gone" => Here("clean") /\ ~Here("clean")'
    /\ worker'.status # 20
    /\ Here("clean") /\ ~Here("clean")' => (outcome' = "worker cleanup failure" <=> Denied)

\* A child that outlives the cleanup is found by its marker, 0.4 s later; only
\* where killpg is denied must one be left.
ChildAsRequired == call.case \in {"lingering-child", "redirected-child", "cleanup-denied"} => (child # "gone" <=> Denied)

-----------------------------------------------------------------------------
Enter(s) == stage' = s /\ UNCHANGED <<vars, markerVars, timed>>

MarkerStep(A) == stage = "markers" /\ A /\ UNCHANGED <<vars, stage, timed>>
ExchangeStep(A) == stage = "exchange" /\ A /\ (timed => OnTime) /\ UNCHANGED <<markerVars, stage, timed>>

ProducerRuns == MarkerStep(Producer /\ (timed => producer'.status # "nonzero"))
CheckerRuns == MarkerStep(Checker)
MarkersLate == MarkerStep(Late /\ ~timed)

MarkersChecked == stage = "markers" /\ (At("passed") \/ At("failed")) /\ Enter(IF At("passed") THEN "limits" ELSE "failed")
LimitsChecked == stage = "limits" /\ Enter(IF LimitsAreChecked THEN "exchange" ELSE "failed")

WorkerRuns == ExchangeStep(Worker)
AdapterRuns == ExchangeStep(Adapter)
DeadlinePasses == ExchangeStep(Deadline)
AnswerChecked ==
    /\ stage = "exchange" /\ Here("done")
    /\ Enter(IF outcome \in Required(call.case) /\ ChildAsRequired THEN "passed" ELSE "failed")

Main == CheckerRuns \/ MarkersChecked \/ LimitsChecked \/ AdapterRuns \/ AnswerChecked
CheckNext == Main \/ ProducerRuns \/ MarkersLate \/ WorkerRuns \/ DeadlinePasses

\* The check's own thread runs and time passes; only while the check is timed
\* do the processes that it started owe it anything.
CheckSpec ==
    /\ CheckInit /\ [][CheckNext]_checkVars
    /\ WF_checkVars(Main) /\ WF_checkVars(MarkersLate) /\ WF_checkVars(DeadlinePasses)
    /\ WF_checkVars(timed /\ ProducerRuns) /\ WF_checkVars(timed /\ WorkerRuns)

-----------------------------------------------------------------------------
\* On a machine that keeps the times of the check, no order of reads, writes,
\* exits and deadlines makes it fail: each case gets an answer that main
\* requires, no child survives, and a marker is taken only when it is complete.
CheckPasses == timed => stage # "failed"

\* main ends, whatever its producers and workers do.
CheckEnds == <>(stage \in {"passed", "failed"})
=============================================================================
