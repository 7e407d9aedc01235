--------------------------- MODULE MCCustodyCheck ----------------------------
(***************************************************************************)
(* The unwraps of the check, and every program of the worker with          *)
(* envelopes of one to five units, every kind of argument, and sound or    *)
(* singly damaged replies.                                                 *)
(***************************************************************************)
EXTENDS CustodyCheck, StrictJson, TLC

\* A text with all of its parts; replies are flat objects.
WithParts(t) == {t} \union Parts(t)
MCDepth(t) == IF Parts(t) = {} THEN 0 ELSE 1

Real(v) == [type |-> "float", value |-> v]
Plain == [timeout |-> Real("positive"), maxIn |-> <<"int", 5>>, maxOut |-> <<"int", 4>>,
          environment |-> {"PATH", "SACRYSTY_TEST_NAME"}, command |-> "found", masked |-> FALSE,
          case |-> "success", size |-> 1, reply |-> <<"null">>]

Reply(pairs) == <<"obj", pairs>>
Sound == <<<<"status", Str("ok")>>, <<"plaintext", Str("6869")>>, <<"plaintext_sha256", Str("digest")>>,
           <<"profile_revision", Str("profile-v1")>>, <<"plugin_digest", Str("plugin")>>, <<"age_digest", Str("age")>>,
           <<"uv_mode", Str("pin")>>, <<"timing_class", Str("bounded")>>>>
Junk == {Str("x"), Str("6868"), Str("age"), <<"arr", <<>>>>, <<"int", 1>>, <<"bad", "nonfinite">>, <<"bad", "digits">>}
Damaged ==
    {Reply([Sound EXCEPT ![i][2] = x]) : i \in DOMAIN Sound, x \in Junk}
    \union {Reply(<<<<Sound[i][1], x>>>> \o Sound) : i \in DOMAIN Sound, x \in {Str("x"), Str("rejected")}}
    \union {Reply(SubSeq(Sound, 1, i - 1) \o SubSeq(Sound, i + 1, Len(Sound))) : i \in DOMAIN Sound}
    \union {Reply(Append(Sound, <<"more", Str("x")>>)), Reply(<<<<"status", Str("ok")>>>>), <<"bad", "syntax">>}

Cases == {"success", "duplex", "early-close", "complete-input", "interrupt", "oversized-stdout", "oversized-stderr", "timeout",
          "lingering-child", "redirected-child", "cleanup-denied", "crash", "bad-uv"}
Timeouts == [type : {"int", "float", "Fraction", "bool", "str", "NoneType", "complex"},
             value : {"positive", "zero", "negative", "underflow", "overflow", "infinite", "nan"}]
Limits == {<<"int", 0>>, <<"int", 1>>, <<"int", 2>>, <<"float", 1>>, <<"bool", 1>>}
MCCalls ==
    CheckedCalls
    \union {[Plain EXCEPT !.case = c, !.size = n, !.reply = Reply(Sound), !.maxOut[2] = m] : c \in Cases, n \in {1, 2, 5}, m \in {1, 4}}
    \union {[Plain EXCEPT !.reply = r] : r \in Damaged}
    \union {[Plain EXCEPT !.timeout = t, !.case = "timeout"] : t \in Timeouts}
    \union {[Plain EXCEPT !.maxIn = l, !.maxOut = k, !.reply = Reply(Sound), !.size = 2] : l, k \in Limits}
    \union {[Plain EXCEPT !.environment = e, !.masked = b, !.command = c] :
              e \in {{}, {"PATH", "RUST_LOG"}, {"AGEDEBUG"}}, b \in BOOLEAN, c \in {"found", "missing"}}
    \union {[Plain EXCEPT !.size = n] : n \in {0, 6}}

\* (TLC computes once what another definition names.)
TextsOfCalls == {<<"bad", "syntax">>} \union UNION {WithParts(c.reply) : c \in MCCalls}
MCTexts == TextsOfCalls
MCDecode(t) == Decode[t]
MCReadings(t) == Readings[t]

MCRequest == [profile_revision |-> "profile-v1", plugin_digest |-> "plugin", age_digest |-> "age"]
MCHex == <<"6869">> :> "hi" @@ <<"6868">> :> "hh"
MCSha256 == "hi" :> "digest" @@ "hh" :> "other"
=============================================================================
