------------------------- MODULE CustodyCheckProofs -------------------------
(***************************************************************************)
(* What the exchange between adapter and worker promises, for every size   *)
(* of pipe, chunk and envelope, every worker program and every decoder     *)
(* that keeps DecoderAssumption; and, with CheckAssumption and             *)
(* AnswersAssumption, that the conformance check of the adapter passes on  *)
(* every machine that keeps its times, whatever the size of pipes and reads. *)
(***************************************************************************)
EXTENDS CustodyCheck, SequenceTheorems, TLAPS

-----------------------------------------------------------------------------
\* Types.

Units == {"pad", "junk", "reply"}
Pipes == Outputs \union {"stdin"}
Busy == {"select", "events", "await"}
Instructions ==
    {<<"line">>, <<"rest">>, <<"close">>, <<"sleep">>, <<"marker">>}
    \union ({"write"} \X Outputs \X Units)
    \union ({"spawn"} \X {"holding", "apart"})
    \union ({"expect", "exit"} \X Nat)

AdapterOK ==
    /\ call \in Calls
    /\ pc \in {"construct", "unwrap", "clean", "admit", "done"} \union Busy
    /\ registered \subseteq Pipes /\ ready \subseteq Pipes
    /\ pc = "events" => ready # {} /\ ready \subseteq registered
    /\ offset \in 0 .. call.size
    /\ buffer \in [Outputs -> Seq(Units)]

PipesOK ==
    /\ pipe \in [Pipes -> Seq(Nat \union Units)]
    /\ pipe["stdin"] \in Seq(Nat)
    /\ \A s \in Outputs : pipe[s] \in Seq(Units)
    /\ \A s \in Pipes : Len(pipe[s]) <= PipeSize
    /\ written \in [Outputs -> Seq(Units)]

WorkerOK ==
    /\ DOMAIN worker = {"state", "environment", "at", "got", "eof", "closed", "status"}
    /\ worker.state \in {"none", "launching", "running", "exited", "killed"}
    /\ worker.environment \subseteq Allowed
    /\ worker.at \in Nat \ {0} /\ worker.got \in Seq(Nat) /\ worker.status \in Nat
    /\ child \in {"none", "holding", "apart", "gone"}

-----------------------------------------------------------------------------
\* The inductive invariant.

\* Before the worker is started nothing has passed; one that is being started
\* has done nothing.
StartInv ==
    /\ pc \in {"construct", "unwrap"} =>
          worker.state = "none" /\ registered = {} /\ offset = 0
    /\ pc \in Busy \union {"clean", "admit"} => worker.state # "none"
    /\ worker.state \in {"none", "launching"} =>
          /\ worker.at = 1 /\ worker.got = <<>> /\ ~worker.eof
          /\ \A s \in Outputs : pipe[s] = <<>> /\ written[s] = <<>> /\ buffer[s] = <<>>
          /\ child = "none"

\* A running worker is at an instruction of its program.
ProgramInv == worker.state = "running" => worker.at \in 1 .. Len(Program)

\* Only a worker that survived its cleanup outlives the exchange, and nobody
\* that holds the pipes outlives a successful one.
SurvivorInv ==
    /\ pc = "admit" => ~Writable
    /\ pc = "done" /\ Alive => outcome = "worker cleanup failure"
    /\ pc = "done" /\ outcome \notin Hasty => ~Writable

\* What the adapter has written is what the worker has read and what is in the
\* pipe, and stdin is closed only behind the whole envelope.
InputInv ==
    /\ worker.got \o pipe["stdin"] = SubSeq(Envelope, 1, offset)
    /\ pc \in Busy \union {"clean"} /\ "stdin" \notin registered => offset = call.size
    /\ worker.eof => worker.got = Envelope \/ outcome = "worker cleanup failure"

\* What was written to an output is in the buffer or in the pipe, and an output
\* is closed only when nobody can write to it any more.
OutputInv ==
    /\ \A s \in Outputs : written[s] = buffer[s] \o pipe[s]
    /\ pc \in Busy => \A s \in Outputs \ registered : pipe[s] = <<>> /\ ~Writable
    /\ pc = "await" => registered = {}
    /\ pc = "clean" /\ outcome = "none" => pipe["stdout"] = <<>> /\ ~Writable
    /\ pc = "admit" => pipe["stdout"] = <<>>
    /\ outcome \notin Hasty => pipe["stdout"] = <<>>

\* No buffer holds more than one unit beyond the limit, and less than that while
\* the exchange goes on.
LimitInv ==
    /\ pc \notin {"construct", "done"} => call.maxOut[2] > 0
    /\ \A s \in Outputs : buffer[s] = <<>> \/ Len(buffer[s]) <= call.maxOut[2] + 1
    /\ pc \in Busy => \A s \in Outputs : Len(buffer[s]) <= call.maxOut[2]

\* What has been decided so far, and what a result means.
Faithful ==
    \E v \in ReadingsOf(call.reply) :
        /\ ReadingsOf(call.reply) = {v} /\ worker.status = 0
        /\ Str(Sha256[Hex[Get(v, "plaintext")[2]]]) = Get(v, "plaintext_sha256")
        /\ \A k \in DOMAIN Request : Get(v, k) = Str(Request[k])
OutcomeInv ==
    /\ pc \in {"construct", "unwrap", "admit"} \union Busy => outcome = "none"
    /\ pc # "done" => outcome \in Hasty \ {"worker cleanup failure"}
    /\ outcome = "result" => Faithful

ExchangeInv ==
    /\ AdapterOK /\ PipesOK /\ WorkerOK
    /\ StartInv /\ ProgramInv /\ SurvivorInv
    /\ InputInv /\ OutputInv /\ LimitInv /\ OutcomeInv

-----------------------------------------------------------------------------
\* Lemmas about sequences.

\* A unit that is taken from a pipe and added to what was read leaves their
\* concatenation as it is.
LEMMA TakeHead ==
  ASSUME NEW S, NEW a \in Seq(S), NEW b \in Seq(S), b # <<>>
  PROVE  /\ Append(a, Head(b)) \o Tail(b) = a \o b
         /\ Append(a, Head(b)) \in Seq(S) /\ Tail(b) \in Seq(S)
         /\ Len(Tail(b)) < Len(b)
<1>1. Append(a, Head(b)) \in Seq(S) /\ Tail(b) \in Seq(S) /\ Len(Tail(b)) < Len(b)
  BY HeadTailProperties, LenProperties
<1>2. Append(a, Head(b)) \o Tail(b) \in Seq(S) /\ a \o b \in Seq(S)
  BY <1>1, ConcatProperties
<1>3. Append(a, Head(b)) \o Tail(b) = a \o b
  BY <1>1, HeadTailProperties, LenProperties, ConcatProperties, AppendProperties, SeqEqual
<1>. QED  BY <1>1, <1>3

\* Two sequences that make up a third one.
LEMMA JoinedIs ==
  ASSUME NEW S, NEW q \in Seq(S), NEW a \in Seq(S), NEW b \in Seq(S),
         Len(a) + Len(b) = Len(q),
         \A i \in 1 .. Len(a) : a[i] = q[i],
         \A i \in 1 .. Len(b) : b[i] = q[Len(a) + i]
  PROVE  a \o b = q
<1>1. a \o b \in Seq(S) /\ Len(a \o b) = Len(q)
  BY ConcatProperties
<1>2. ASSUME NEW i \in 1 .. Len(q) PROVE (a \o b)[i] = q[i]
  <2>1. Len(a) \in Nat /\ Len(b) \in Nat  BY LenProperties
  <2>2. CASE i <= Len(a)  BY <2>1, <2>2, ConcatProperties
  <2>3. CASE i > Len(a)
    <3>1. i - Len(a) \in 1 .. Len(b) /\ i = Len(a) + (i - Len(a))  BY <2>1, <2>3
    <3>. QED  BY <2>1, <2>3, <3>1, ConcatProperties
  <2>. QED  BY <2>1, <2>2, <2>3
<1>. QED  BY <1>1, <1>2, SeqEqual

\* Concatenation is associative.
LEMMA Associative ==
  ASSUME NEW S, NEW a \in Seq(S), NEW b \in Seq(S), NEW c \in Seq(S)
  PROVE  (a \o b) \o c = a \o (b \o c)
<1>1. a \o b \in Seq(S) /\ b \o c \in Seq(S) /\ Len(a \o b) = Len(a) + Len(b) /\ Len(b \o c) = Len(b) + Len(c)
  BY ConcatProperties
<1>2. /\ (a \o b) \o c \in Seq(S) /\ Len((a \o b) \o c) = Len(a) + Len(b) + Len(c)
      /\ a \o (b \o c) \in Seq(S) /\ Len(a \o (b \o c)) = Len(a) + Len(b) + Len(c)
  BY <1>1, ConcatProperties, LenProperties
<1>. QED  BY <1>1, <1>2, ConcatProperties, SeqEqual, LenProperties

LEMMA AssociativeInput ==
  \A a \in Seq(Nat) : \A b \in Seq(Nat) : \A c \in Seq(Nat) : (a \o b) \o c = a \o (b \o c)
BY Associative

LEMMA AssociativeOutput ==
  \A a \in Seq(Units) : \A b \in Seq(Units) : \A c \in Seq(Units) : (a \o b) \o c = a \o (b \o c)
BY Associative

\* The first k elements and the rest make up the sequence.
LEMMA SplitAt ==
  ASSUME NEW S, NEW q \in Seq(S), NEW k \in 0 .. Len(q)
  PROVE  /\ SubSeq(q, 1, k) \in Seq(S) /\ SubSeq(q, k + 1, Len(q)) \in Seq(S)
         /\ SubSeq(q, 1, k) \o SubSeq(q, k + 1, Len(q)) = q
         /\ Len(SubSeq(q, 1, k)) = k /\ Len(SubSeq(q, k + 1, Len(q))) = Len(q) - k
<1>1. /\ SubSeq(q, 1, k) \in Seq(S) /\ Len(SubSeq(q, 1, k)) = k
      /\ \A i \in 1 .. k : SubSeq(q, 1, k)[i] = q[i]
  BY SubSeqProperties, LenProperties, ElementOfSeq
<1>2. /\ SubSeq(q, k + 1, Len(q)) \in Seq(S) /\ Len(SubSeq(q, k + 1, Len(q))) = Len(q) - k
      /\ \A i \in 1 .. Len(q) - k : SubSeq(q, k + 1, Len(q))[i] = q[k + i]
  BY SubSeqProperties, LenProperties, ElementOfSeq
<1>3. SubSeq(q, 1, k) \o SubSeq(q, k + 1, Len(q)) = q
  <2> DEFINE front == SubSeq(q, 1, k)
             back == SubSeq(q, k + 1, Len(q))
  <2>1. front \in Seq(S) /\ Len(front) = k /\ \A i \in 1 .. Len(front) : front[i] = q[i]
    BY <1>1
  <2>2. back \in Seq(S) /\ Len(back) = Len(q) - k /\ \A i \in 1 .. Len(back) : back[i] = q[Len(front) + i]
    BY <1>1, <1>2
  <2> HIDE DEF front, back
  <2>3. Len(front) + Len(back) = Len(q)
    <3>1. Len(q) \in Nat  BY LenProperties
    <3>. QED  BY <2>1, <2>2, <3>1
  <2>4. front \o back = q
    BY <2>1, <2>2, <2>3, JoinedIs
  <2>. QED  BY <2>4 DEF front, back
<1>. QED  BY <1>1, <1>2, <1>3

\* What is a prefix of a prefix, is one of the whole.
LEMMA PrefixOfPrefix ==
  ASSUME NEW S, NEW q \in Seq(S), NEW n \in 0 .. Len(q),
         NEW a \in Seq(S), NEW b \in Seq(S), a \o b = SubSeq(q, 1, n)
  PROVE  /\ a = SubSeq(q, 1, Len(a)) /\ Len(a) + Len(b) = n
         /\ n = Len(q) /\ b = <<>> => a = q
<1>1. /\ SubSeq(q, 1, n) \in Seq(S) /\ Len(SubSeq(q, 1, n)) = n
      /\ \A i \in 1 .. n : SubSeq(q, 1, n)[i] = q[i]
  BY SubSeqProperties, LenProperties, ElementOfSeq
<1>2. Len(a) \in Nat /\ Len(b) \in Nat /\ Len(q) \in Nat /\ Len(a) + Len(b) = n
  BY <1>1, ConcatProperties, LenProperties
<1>3. /\ SubSeq(q, 1, Len(a)) \in Seq(S) /\ Len(SubSeq(q, 1, Len(a))) = Len(a)
      /\ \A i \in 1 .. Len(a) : SubSeq(q, 1, Len(a))[i] = q[i]
  BY <1>2, SubSeqProperties, LenProperties, ElementOfSeq
<1>4. a = SubSeq(q, 1, Len(a))
  BY <1>1, <1>2, <1>3, ConcatProperties, SeqEqual
<1>5. n = Len(q) /\ b = <<>> => a = q
  BY <1>2, <1>4, SubSeqFull, EmptySeq
<1>. QED  BY <1>2, <1>4, <1>5

\* The next k elements behind a prefix make it a longer prefix.
LEMMA NextPrefix ==
  ASSUME NEW S, NEW q \in Seq(S), NEW n \in 0 .. Len(q), NEW k \in 0 .. Len(q) - n
  PROVE  /\ SubSeq(q, n + 1, n + k) \in Seq(S) /\ Len(SubSeq(q, n + 1, n + k)) = k
         /\ SubSeq(q, 1, n) \o SubSeq(q, n + 1, n + k) = SubSeq(q, 1, n + k)
<1>1. /\ SubSeq(q, 1, n) \in Seq(S) /\ Len(SubSeq(q, 1, n)) = n
      /\ \A i \in 1 .. n : SubSeq(q, 1, n)[i] = q[i]
  BY SubSeqProperties, LenProperties, ElementOfSeq
<1>2. /\ SubSeq(q, n + 1, n + k) \in Seq(S) /\ Len(SubSeq(q, n + 1, n + k)) = k
      /\ \A i \in 1 .. k : SubSeq(q, n + 1, n + k)[i] = q[n + i]
  BY SubSeqProperties, LenProperties, ElementOfSeq
<1>3. /\ SubSeq(q, 1, n + k) \in Seq(S) /\ Len(SubSeq(q, 1, n + k)) = n + k
      /\ \A i \in 1 .. n + k : SubSeq(q, 1, n + k)[i] = q[i]
  BY SubSeqProperties, LenProperties, ElementOfSeq
<1>4. SubSeq(q, 1, n) \o SubSeq(q, n + 1, n + k) = SubSeq(q, 1, n + k)
  BY <1>1, <1>2, <1>3, LenProperties, ConcatProperties, SeqEqual
<1>. QED  BY <1>2, <1>4

\* A unit that is written behind what is in the pipe.
LEMMA AppendBehind ==
  ASSUME NEW a \in Seq(Units), NEW b \in Seq(Units), NEW u \in Units
  PROVE  Append(a \o b, u) = a \o Append(b, u)
<1> DEFINE S == Units
<1>1. a \in Seq(S) /\ b \in Seq(S) /\ u \in S
  OBVIOUS
<1> HIDE DEF S
<1>2. /\ Append(b, u) \in Seq(S) /\ a \o b \in Seq(S)
      /\ a \o Append(b, u) \in Seq(S) /\ Append(a \o b, u) \in Seq(S)
  BY <1>1, AppendProperties, ConcatProperties
<1>3. Append(a \o b, u) = (a \o b) \o <<u>> /\ Append(b, u) = b \o <<u>> /\ <<u>> \in Seq(S)
  BY <1>1, <1>2, AppendIsConcat
<1>4. (a \o b) \o <<u>> = a \o (b \o <<u>>)
  BY <1>1, <1>3, ConcatAssociative
<1>. QED  BY <1>3, <1>4

\* The least of three numbers.
LEMMA MinOfThree ==
  ASSUME NEW a \in Int, NEW b \in Int, NEW c \in Int
  PROVE  /\ Min({a, b, c}) \in {a, b, c}
         /\ Min({a, b, c}) <= a /\ Min({a, b, c}) <= b /\ Min({a, b, c}) <= c
<1>1. \E x \in {a, b, c} : \A y \in {a, b, c} : x <= y
  <2>1. CASE a <= b /\ a <= c  BY <2>1
  <2>2. CASE b <= a /\ b <= c  BY <2>2
  <2>3. CASE c <= a /\ c <= b  BY <2>3
  <2>. QED  BY <2>1, <2>2, <2>3
<1>. QED  BY <1>1 DEF Min

-----------------------------------------------------------------------------
\* The worker's programs: sequences of instructions of which the last is an exit.
ProgramOK ==
    call.size \in Nat =>
        /\ Program \in Seq(Instructions) /\ 1 \in 1 .. Len(Program)
        /\ Program[Len(Program)] = <<"exit", 0>>

LEMMA ProgramTyped == ProgramOK
<1> SUFFICES ASSUME call.size \in Nat
             PROVE  /\ Program \in Seq(Instructions) /\ 1 \in 1 .. Len(Program)
                    /\ Program[Len(Program)] = <<"exit", 0>>
  BY DEF ProgramOK
<1> DEFINE c == call.case
           only(names, steps) == IF c \in names THEN steps ELSE <<>>
           p0 == <<<<"line">>>>
           p1 == IF "SACRYSTY_TEST_NAME" \in worker.environment THEN <<<<"exit", 17>>>> ELSE <<>>
           p2 == only({"duplex"}, <<<<"write", "stdout", "pad">>, <<"write", "stdout", "pad">>, <<"write", "stdout", "pad">>>>)
           p3 == (IF c = "early-close" THEN <<<<"close">>>> ELSE <<<<"rest">>>>)
           p4 == only({"complete-input"}, <<<<"expect", call.size>>>>)
           p5 == only({"interrupt"}, <<<<"spawn", "holding">>, <<"sleep">>>>)
           p6 == only({"oversized-stdout"}, <<<<"write", "stdout", "junk">>, <<"write", "stdout", "junk">>, <<"sleep">>, <<"exit", 0>>>>)
           p7 == only({"oversized-stderr"}, <<<<"write", "stderr", "junk">>, <<"write", "stderr", "junk">>, <<"sleep">>, <<"exit", 0>>>>)
           p8 == only({"timeout"}, <<<<"sleep">>, <<"exit", 0>>>>)
           p9 == only({"lingering-child"}, <<<<"spawn", "holding">>>>)
           p10 == only({"redirected-child", "cleanup-denied"}, <<<<"spawn", "apart">>>>)
           p11 == only({"cleanup-denied"}, <<<<"marker">>>>)
           p12 == only({"crash"}, <<<<"exit", 9>>>>)
           p13 == only({"bad-uv"}, <<<<"sleep">>>>)
           last == <<<<"write", "stdout", "reply">>, <<"exit", 0>>>>
           body == p0 \o p1 \o p2 \o p3 \o p4 \o p5 \o p6 \o p7 \o p8 \o p9 \o p10 \o p11 \o p12 \o p13
<1>0. Program = body \o last
  BY DEF Program
<1>a. /\ <<"line">> \in Instructions /\ <<"rest">> \in Instructions /\ <<"close">> \in Instructions
      /\ <<"sleep">> \in Instructions /\ <<"marker">> \in Instructions
  BY DEF Instructions
<1>b. /\ <<"spawn", "holding">> \in Instructions /\ <<"spawn", "apart">> \in Instructions
      /\ <<"expect", call.size>> \in Instructions
      /\ \A n \in Nat : <<"exit", n>> \in Instructions
  BY DEF Instructions
<1>c. /\ <<"write", "stdout", "pad">> \in Instructions /\ <<"write", "stdout", "junk">> \in Instructions
      /\ <<"write", "stderr", "junk">> \in Instructions /\ <<"write", "stdout", "reply">> \in Instructions
  BY DEF Instructions, Outputs, Units
<1>d. <<>> \in Seq(Instructions)
  OBVIOUS
<1>p0. p0 \in Seq(Instructions)  BY <1>a
<1>p1. p1 \in Seq(Instructions)
  <2>1. <<<<"exit", 17>>>> \in Seq(Instructions)  BY <1>a, <1>b, <1>c
  <2>. QED  BY <1>d, <2>1
<1>p2. p2 \in Seq(Instructions)
  <2>1. <<<<"write", "stdout", "pad">>, <<"write", "stdout", "pad">>, <<"write", "stdout", "pad">>>> \in Seq(Instructions)  BY <1>a, <1>b, <1>c
  <2>. QED  BY <1>d, <2>1
<1>p3. p3 \in Seq(Instructions)
  <2>1. <<<<"close">>>> \in Seq(Instructions)  BY <1>a, <1>b, <1>c
  <2>2. <<<<"rest">>>> \in Seq(Instructions)  BY <1>a, <1>b, <1>c
  <2>. QED  BY <1>d, <2>1, <2>2
<1>p4. p4 \in Seq(Instructions)
  <2>1. <<<<"expect", call.size>>>> \in Seq(Instructions)  BY <1>a, <1>b, <1>c
  <2>. QED  BY <1>d, <2>1
<1>p5. p5 \in Seq(Instructions)
  <2>1. <<<<"spawn", "holding">>, <<"sleep">>>> \in Seq(Instructions)  BY <1>a, <1>b, <1>c
  <2>. QED  BY <1>d, <2>1
<1>p6. p6 \in Seq(Instructions)
  <2>1. <<<<"write", "stdout", "junk">>, <<"write", "stdout", "junk">>, <<"sleep">>, <<"exit", 0>>>> \in Seq(Instructions)  BY <1>a, <1>b, <1>c
  <2>. QED  BY <1>d, <2>1
<1>p7. p7 \in Seq(Instructions)
  <2>1. <<<<"write", "stderr", "junk">>, <<"write", "stderr", "junk">>, <<"sleep">>, <<"exit", 0>>>> \in Seq(Instructions)  BY <1>a, <1>b, <1>c
  <2>. QED  BY <1>d, <2>1
<1>p8. p8 \in Seq(Instructions)
  <2>1. <<<<"sleep">>, <<"exit", 0>>>> \in Seq(Instructions)  BY <1>a, <1>b, <1>c
  <2>. QED  BY <1>d, <2>1
<1>p9. p9 \in Seq(Instructions)
  <2>1. <<<<"spawn", "holding">>>> \in Seq(Instructions)  BY <1>a, <1>b, <1>c
  <2>. QED  BY <1>d, <2>1
<1>p10. p10 \in Seq(Instructions)
  <2>1. <<<<"spawn", "apart">>>> \in Seq(Instructions)  BY <1>a, <1>b, <1>c
  <2>. QED  BY <1>d, <2>1
<1>p11. p11 \in Seq(Instructions)
  <2>1. <<<<"marker">>>> \in Seq(Instructions)  BY <1>a, <1>b, <1>c
  <2>. QED  BY <1>d, <2>1
<1>p12. p12 \in Seq(Instructions)
  <2>1. <<<<"exit", 9>>>> \in Seq(Instructions)  BY <1>a, <1>b, <1>c
  <2>. QED  BY <1>d, <2>1
<1>p13. p13 \in Seq(Instructions)
  <2>1. <<<<"sleep">>>> \in Seq(Instructions)  BY <1>a, <1>b, <1>c
  <2>. QED  BY <1>d, <2>1
<1>pl. last \in Seq(Instructions) /\ Len(last) = 2 /\ last[2] = <<"exit", 0>>  BY <1>b, <1>c
<1> HIDE DEF p0, p1, p2, p3, p4, p5, p6, p7, p8, p9, p10, p11, p12, p13, last
<1>1. body \in Seq(Instructions)
  BY <1>p0, <1>p1, <1>p2, <1>p3, <1>p4, <1>p5, <1>p6, <1>p7, <1>p8, <1>p9, <1>p10, <1>p11, <1>p12, <1>p13, ConcatProperties
<1> HIDE DEF body
<1>2. /\ Len(body) \in Nat /\ body \o last \in Seq(Instructions)
      /\ Len(body \o last) = Len(body) + 2 /\ (body \o last)[Len(body) + 2] = last[2]
  <2>1. Len(body) \in Nat /\ body \o last \in Seq(Instructions) /\ Len(body \o last) = Len(body) + 2
    <3>1. Len(body) \in Nat  BY <1>1, LenProperties
    <3>2. body \o last \in Seq(Instructions) /\ Len(body \o last) = Len(body) + Len(last)
      BY <1>1, <1>pl, ConcatProperties
    <3>. QED  BY <3>1, <3>2, <1>pl
  <2>2. Len(body) + 2 \in 1 .. Len(body) + Len(last) /\ ~(Len(body) + 2 <= Len(body)) /\ Len(body) + 2 - Len(body) = 2
    BY <2>1, <1>pl
  <2>3. (body \o last)[Len(body) + 2] = last[Len(body) + 2 - Len(body)]
    BY <1>1, <1>pl, <2>1, <2>2, ConcatProperties
  <2>. QED  BY <2>1, <2>2, <2>3
<1>. QED  BY <1>0, <1>2, <1>pl

-----------------------------------------------------------------------------
\* The steps of the check that belong to the exchange; no other step touches it.
ExchangeNext ==
    \/ Launch \/ Read \/ Write \/ Work \/ ChildEnds
    \/ Construct \/ Unwrap \/ Select \/ FeedStdin \/ (\E s \in Outputs : Drain(s))
    \/ AwaitExit \/ Deadline \/ Cleanup \/ Admit

LEMMA StepOfTheExchange ==
  ASSUME [CheckNext]_checkVars
  PROVE  ExchangeNext \/ UNCHANGED vars
<1>1. CASE CheckerRuns \/ MarkersChecked \/ LimitsChecked \/ AnswerChecked \/ ProducerRuns \/ MarkersLate
  BY <1>1 DEF CheckerRuns, MarkersChecked, LimitsChecked, AnswerChecked, ProducerRuns, MarkersLate, MarkerStep, Enter
<1>2. CASE WorkerRuns  BY <1>2 DEF WorkerRuns, ExchangeStep, Worker, ExchangeNext
<1>3. CASE AdapterRuns  BY <1>3 DEF AdapterRuns, ExchangeStep, Adapter, ExchangeNext
<1>4. CASE DeadlinePasses  BY <1>4 DEF DeadlinePasses, ExchangeStep, ExchangeNext
<1>5. CASE UNCHANGED checkVars  BY <1>5 DEF checkVars
<1>. QED  BY <1>1, <1>2, <1>3, <1>4, <1>5 DEF CheckNext, Main

\* What a running worker is about to do.
LEMMA InstructionFacts ==
  ASSUME AdapterOK, WorkerOK, ProgramInv, Running
  PROVE  /\ Step \in Instructions
         /\ Step[1] # "exit" => worker.at + 1 \in 1 .. Len(Program)
         /\ Step[1] = "write" => Step[2] \in Outputs /\ Step[3] \in Units
         /\ Step[1] = "spawn" => Step[2] \in {"holding", "apart"}
         /\ Step[1] = "exit" => Step[2] \in Nat
<1>1. /\ Program \in Seq(Instructions) /\ Len(Program) \in Nat
      /\ Program[Len(Program)] = <<"exit", 0>> /\ worker.at \in 1 .. Len(Program)
  BY ProgramTyped, CallsAssumption, LenProperties DEF ProgramOK, AdapterOK, ProgramInv, Running
<1>2. Step \in Instructions
  BY <1>1, ElementOfSeq DEF Step
<1>3. Step[1] # "exit" => worker.at + 1 \in 1 .. Len(Program)
  <2>1. worker.at = Len(Program) => Step[1] = "exit"
    BY <1>1 DEF Step
  <2>. QED  BY <1>1, <2>1
<1>4. /\ Step[1] = "write" => Step[2] \in Outputs /\ Step[3] \in Units
      /\ Step[1] = "spawn" => Step[2] \in {"holding", "apart"}
      /\ Step[1] = "exit" => Step[2] \in Nat
  BY <1>2 DEF Instructions
<1>. QED  BY <1>2, <1>3, <1>4

\* The program is the same as long as call and environment are.
LEMMA SameProgram ==
  ASSUME call' = call, worker'.environment = worker.environment
  PROVE  Program' = Program
BY DEF Program


\* The worker and its child stay well typed.
LEMMA WorkerStaysTyped ==
  ASSUME AdapterOK, PipesOK, WorkerOK, ProgramInv, ExchangeNext
  PROVE  WorkerOK'
<1> USE DEF Own, Keep, World, Quiet, adapter, Refuse, Abandon, GoOn, Here, NextRound, Running, Onward, Alive, Readable, Writable
<1>a. PipeSize \in Nat \ {0} /\ Chunk \in Nat \ {0}  BY ExchangeAssumption
<1>b. call.size \in Nat /\ call.maxOut[2] \in Int  BY CallsAssumption DEF AdapterOK
<1>1. CASE Launch
  <2>1. /\ DOMAIN worker' = DOMAIN worker /\ worker'.environment = worker.environment
        /\ worker'.at = worker.at
        /\ worker'.state \in {"running", "exited"}
        /\ worker'.got = worker.got
        /\ worker'.status \in {125, worker.status}
        /\ child' = child
    <3>1. CASE worker' = [worker EXCEPT !.state = "running"]
      BY <1>1, <3>1 DEF Launch, WorkerOK
    <3>2. CASE worker' = [worker EXCEPT !.state = "exited", !.status = 125]
      BY <1>1, <3>2 DEF Launch, WorkerOK
    <3>. QED  BY <1>1, <3>1, <3>2 DEF Launch
  <2>. QED  BY <2>1, <1>b DEF WorkerOK
<1>2. CASE Read
  <2>1. /\ DOMAIN worker' = DOMAIN worker /\ worker'.environment = worker.environment
        /\ worker'.at \in {worker.at, worker.at + 1}
        /\ worker'.state = worker.state
        /\ worker'.got \in {worker.got, Append(worker.got, Head(pipe["stdin"]))} /\ (pipe["stdin"] = <<>> => worker'.got = worker.got)
        /\ worker'.status = worker.status
        /\ child' = child
    BY <1>2 DEF Read, WorkerOK
  <2>2. worker.at + 1 \in Nat \ {0}  BY DEF WorkerOK
  <2>3. pipe["stdin"] # <<>> => Append(worker.got, Head(pipe["stdin"])) \in Seq(Nat)
    BY TakeHead DEF WorkerOK, PipesOK
  <2>. QED  BY <2>1, <2>2, <2>3 DEF WorkerOK
<1>3. CASE Write
  <2>1. /\ DOMAIN worker' = DOMAIN worker /\ worker'.environment = worker.environment
        /\ worker'.at \in {worker.at, worker.at + 1}
        /\ worker'.state \in {"running", "exited"}
        /\ worker'.got = worker.got
        /\ worker'.status \in {1, worker.status}
        /\ child' = child
    BY <1>3 DEF Does, Write, WorkerOK
  <2>. QED  BY <2>1, <1>b DEF WorkerOK
<1>4. CASE Work
  <2>1. Running  BY <1>4 DEF Work, Does
  <2>2. /\ Step[1] = "spawn" => Step[2] \in {"holding", "apart"}
        /\ Step[1] = "exit" => Step[2] \in Nat
    BY <2>1, InstructionFacts
  <2> HIDE DEF Running
  <2>3. /\ DOMAIN worker' = DOMAIN worker /\ worker'.environment = worker.environment
        /\ worker'.at \in {worker.at, worker.at + 1}
        /\ worker'.state \in {"running", "exited"}
        /\ worker'.got = worker.got
        /\ worker'.status \in {19, 20, worker.status} \union Nat
        /\ child' \in {child, "holding", "apart"}
    BY <1>4, <2>1, <2>2 DEF Does, Running, Work, WorkerOK
  <2>. QED  BY <2>3, <1>b DEF WorkerOK
<1>5. CASE ChildEnds  BY <1>5 DEF ChildEnds, WorkerOK
<1>6. CASE Construct  BY <1>6 DEF Construct, WorkerOK
<1>7. CASE Unwrap
  <2>1. /\ \/ worker' = worker
           \/ \E st \in {"running", "launching"} :
                 worker' = [state |-> st, environment |-> call.environment \cap Allowed, at |-> 1, got |-> <<>>,
                            eof |-> FALSE, closed |-> FALSE, status |-> 0]
        /\ child' = child
    BY <1>7 DEF Unwrap
  <2>2. CASE worker' = worker  BY <2>1, <2>2 DEF WorkerOK
  <2>3. CASE worker' # worker
    <3>1. /\ DOMAIN worker' = {"state", "environment", "at", "got", "eof", "closed", "status"}
          /\ worker'.state \in {"running", "launching"} /\ worker'.environment = call.environment \cap Allowed
          /\ worker'.at = 1 /\ worker'.got = <<>> /\ worker'.status = 0
      BY <2>1, <2>3
    <3>. QED  BY <2>1, <3>1 DEF WorkerOK
  <2>. QED  BY <2>2, <2>3
<1>8. CASE Select  BY <1>8 DEF Select, WorkerOK
<1>9. CASE FeedStdin  BY <1>9 DEF FeedStdin, WorkerOK
<1>10. ASSUME NEW s \in Outputs, Drain(s) PROVE WorkerOK'  BY <1>10 DEF Drain, WorkerOK
<1>11. CASE AwaitExit  BY <1>11 DEF AwaitExit, WorkerOK
<1>12. CASE Deadline  BY <1>12 DEF Deadline, WorkerOK
<1>13. CASE Cleanup
  <2>1. /\ DOMAIN worker' = DOMAIN worker /\ worker'.environment = worker.environment
        /\ worker'.at = worker.at
        /\ worker'.state \in {"killed", worker.state}
        /\ worker'.got = worker.got
        /\ worker'.status \in {137, worker.status}
        /\ child' \in {child, "gone"}
    BY <1>13 DEF Killed, Cleanup, WorkerOK
  <2>. QED  BY <2>1, <1>b DEF WorkerOK
<1>14. CASE Admit  BY <1>14 DEF Admit, WorkerOK
<1>. QED  BY <1>1, <1>2, <1>3, <1>4, <1>5, <1>6, <1>7, <1>8, <1>9, <1>10, <1>11, <1>12, <1>13, <1>14 DEF ExchangeNext

\* A running worker stays inside its program.
LEMMA ProgramKept ==
  ASSUME AdapterOK, WorkerOK, StartInv, ProgramInv, ExchangeNext
  PROVE  ProgramInv'
<1> USE DEF Own, Keep, World, Quiet, adapter, Refuse, Abandon, GoOn, Here, NextRound, Running, Onward, Alive, Readable, Writable, ProgramInv, WorkerOK, StartInv
<1>a. PipeSize \in Nat \ {0} /\ Chunk \in Nat \ {0}  BY ExchangeAssumption
<1>b. call.size \in Nat /\ call.maxOut[2] \in Int  BY CallsAssumption DEF AdapterOK
<1>1. CASE Launch
  <2>1. call' = call /\ worker'.environment = worker.environment /\ worker'.at = 1
    BY <1>1 DEF Launch
  <2>2. 1 \in 1 .. Len(Program)  BY <1>b, ProgramTyped DEF ProgramOK
  <2>. QED  BY <2>1, <2>2, SameProgram
<1>2. CASE Read
  <2>1. /\ call' = call /\ worker'.environment = worker.environment /\ worker.state = "running"
        /\ worker'.at \in {worker.at, worker.at + 1} /\ Step[1] # "exit"
    BY <1>2 DEF Read, Does
  <2>. QED  BY <2>1, SameProgram, InstructionFacts
<1>3. CASE Write
  <2>1. /\ call' = call /\ worker'.environment = worker.environment /\ worker.state = "running"
        /\ worker'.at \in {worker.at, worker.at + 1} /\ Step[1] # "exit"
    BY <1>3 DEF Write, Does
  <2>. QED  BY <2>1, SameProgram, InstructionFacts
<1>4. CASE Work
  <2>1. /\ call' = call /\ worker'.environment = worker.environment /\ worker.state = "running"
        /\ worker'.at \in {worker.at, worker.at + 1}
        /\ worker'.state = "running" => Step[1] # "exit"
    BY <1>4 DEF Work, Does
  <2>. QED  BY <2>1, SameProgram, InstructionFacts
<1>5. CASE ChildEnds  BY <1>5, SameProgram DEF ChildEnds
<1>6. CASE Construct  BY <1>6, SameProgram DEF Construct
<1>7. CASE Unwrap
  <2>1. call' = call /\ (worker'.at = 1 \/ worker' = worker)
    <3>1. CASE worker' = worker  BY <1>7, <3>1 DEF Unwrap
    <3>2. CASE worker' # worker
      <4>1. \E st \in {"running", "launching"} :
                 worker' = [state |-> st, environment |-> call.environment \cap Allowed, at |-> 1, got |-> <<>>,
                            eof |-> FALSE, closed |-> FALSE, status |-> 0]
        BY <1>7, <3>2 DEF Unwrap
      <4>2. call' = call  BY <1>7 DEF Unwrap
      <4>. QED  BY <4>1, <4>2
    <3>. QED  BY <3>1, <3>2
  <2>2. (1 \in 1 .. Len(Program))'
    <3>1. (call.size \in Nat)'  BY <2>1, <1>b
    <3>2. ProgramOK'  BY ProgramTyped, PTL
    <3>. QED  BY <3>1, <3>2 DEF ProgramOK
  <2>3. worker' = worker => worker'.state # "running"
    BY <1>7 DEF Unwrap
  <2>. QED  BY <2>1, <2>2, <2>3
<1>8. CASE Select  BY <1>8, SameProgram DEF Select
<1>9. CASE FeedStdin  BY <1>9, SameProgram DEF FeedStdin
<1>10. ASSUME NEW s \in Outputs, Drain(s) PROVE ProgramInv'  BY <1>10, SameProgram DEF Drain
<1>11. CASE AwaitExit  BY <1>11, SameProgram DEF AwaitExit
<1>12. CASE Deadline  BY <1>12, SameProgram DEF Deadline
<1>13. CASE Cleanup
  <2>1. call' = call /\ worker'.environment = worker.environment /\ worker'.at = worker.at
        /\ (worker'.state = "running" => worker.state = "running")
    BY <1>13 DEF Cleanup, Killed
  <2>. QED  BY <2>1, SameProgram
<1>14. CASE Admit  BY <1>14, SameProgram DEF Admit
<1>. QED  BY <1>1, <1>2, <1>3, <1>4, <1>5, <1>6, <1>7, <1>8, <1>9, <1>10, <1>11, <1>12, <1>13, <1>14 DEF ExchangeNext

\* What a round of the exchange does to stdin: it gives up, or it moves the next
\* k units of the envelope into the pipe, and closes it behind the last one.
LEMMA FeedMoves ==
  ASSUME AdapterOK, PipesOK, FeedStdin
  PROVE  /\ pc = "events" /\ "stdin" \in ready /\ ready' = ready \ {"stdin"}
         /\ UNCHANGED <<call, expired, buffer, worker, child, written>>
         /\ \/ /\ UNCHANGED <<offset, registered, pipe>>
               /\ pc' = "clean" /\ outcome' = "worker I/O failure"
            \/ \E k \in 0 .. call.size - offset :
                 /\ k <= PipeSize - Len(pipe["stdin"])
                 /\ offset' = offset + k
                 /\ pipe' = [pipe EXCEPT !["stdin"] = @ \o SubSeq(Envelope, offset + 1, offset + k)]
                 /\ \/ registered' = registered
                    \/ registered' = registered \ {"stdin"} /\ offset' = call.size
                 /\ outcome' = outcome
                 /\ pc' = IF ready' = {} THEN "select" ELSE "events"
<1> DEFINE k == Min({Chunk, call.size - offset, PipeSize - Len(pipe["stdin"])})
<1>1. /\ pc = "events" /\ "stdin" \in ready /\ ready' = ready \ {"stdin"}
      /\ UNCHANGED <<call, expired, buffer, worker, child, written>>
  BY DEF FeedStdin, Here, Own
<1>2. /\ k \in 0 .. call.size - offset /\ k <= PipeSize - Len(pipe["stdin"])
  <2>1. /\ Chunk \in Nat /\ call.size - offset \in Nat /\ PipeSize - Len(pipe["stdin"]) \in Nat
    <3>1. call.size \in Nat /\ PipeSize \in Nat /\ Chunk \in Nat
      BY CallsAssumption, ExchangeAssumption DEF AdapterOK
    <3>2. Len(pipe["stdin"]) \in Nat /\ Len(pipe["stdin"]) <= PipeSize /\ offset \in 0 .. call.size
      BY LenProperties DEF AdapterOK, PipesOK, Pipes
    <3>. QED  BY <3>1, <3>2
  <2> DEFINE a == call.size - offset
             b == PipeSize - Len(pipe["stdin"])
  <2> HIDE DEF a, b
  <2>2. a \in Nat /\ b \in Nat  BY <2>1 DEF a, b
  <2> DEFINE m == Min({Chunk, a, b})
  <2>3. m \in {Chunk, a, b} /\ m <= a /\ m <= b
    <3>1. Chunk \in Int /\ a \in Int /\ b \in Int  BY <2>1, <2>2
    <3>. QED  BY <3>1, MinOfThree, Zenon
  <2> HIDE DEF m
  <2>4. m \in 0 .. a /\ m <= b
    BY <2>1, <2>2, <2>3
  <2>. QED  BY <2>4 DEF a, b, m
<1>3. \/ /\ UNCHANGED <<offset, registered, pipe>>
         /\ pc' = "clean" /\ outcome' = "worker I/O failure"
      \/ /\ offset' = offset + k
         /\ pipe' = [pipe EXCEPT !["stdin"] = @ \o SubSeq(Envelope, offset + 1, offset + k)]
         /\ \/ registered' = registered
            \/ registered' = registered \ {"stdin"} /\ offset + k = call.size
         /\ outcome' = outcome
         /\ pc' = IF ready' = {} THEN "select" ELSE "events"
  <2> HIDE DEF k
  <2>. QED  BY DEF FeedStdin, k, Abandon, NextRound, GoOn
<1> HIDE DEF k
<1>. QED  BY <1>1, <1>2, <1>3

\* And to an output: it finds it empty, and closes it if nobody can write any
\* more; or it moves k units into the buffer, and gives up beyond the limit.
LEMMA DrainMoves ==
  ASSUME AdapterOK, PipesOK, LimitInv, NEW s \in Outputs, Drain(s)
  PROVE  /\ pc = "events" /\ s \in ready /\ ready' = ready \ {s}
         /\ UNCHANGED <<call, expired, offset, worker, child, written>>
         /\ \/ /\ pipe[s] = <<>> /\ UNCHANGED <<buffer, pipe>>
               /\ registered' = registered \/ (registered' = registered \ {s} /\ ~Writable)
               /\ outcome' = outcome
               /\ pc' = IF ready' = {} THEN "select" ELSE "events"
            \/ \E k \in 0 .. Len(pipe[s]) :
                 /\ buffer' = [buffer EXCEPT ![s] = @ \o SubSeq(pipe[s], 1, k)]
                 /\ pipe' = [pipe EXCEPT ![s] = SubSeq(pipe[s], k + 1, Len(pipe[s]))]
                 /\ registered' = registered
                 /\ Len(buffer[s]) + k <= call.maxOut[2] + 1
                 /\ \/ /\ Len(buffer[s]) + k <= call.maxOut[2] /\ outcome' = outcome
                       /\ pc' = IF ready' = {} THEN "select" ELSE "events"
                    \/ pc' = "clean" /\ outcome' \in {"worker output too large", "worker stderr too large"}
<1> DEFINE k == Min({Chunk, call.maxOut[2] - Len(buffer[s]) + 1, Len(pipe[s])})
<1>1. /\ pc = "events" /\ s \in ready /\ ready' = ready \ {s}
      /\ UNCHANGED <<call, expired, offset, worker, child, written>>
  BY DEF Drain, Here, Own
<1>0. /\ Chunk \in Nat /\ Len(pipe[s]) \in Nat /\ call.maxOut[2] \in Int /\ Len(buffer[s]) \in Nat
      /\ Len(buffer[s]) <= call.maxOut[2]
  <2>1. Chunk \in Nat /\ call.maxOut[2] \in Int
    BY CallsAssumption, ExchangeAssumption DEF AdapterOK
  <2>2. Len(pipe[s]) \in Nat /\ Len(buffer[s]) \in Nat
    BY LenProperties DEF AdapterOK, PipesOK
  <2>3. Len(buffer[s]) <= call.maxOut[2]
    BY <1>1 DEF LimitInv, Busy
  <2>. QED  BY <2>1, <2>2, <2>3
<1>2. k \in 0 .. Len(pipe[s]) /\ Len(buffer[s]) + k <= call.maxOut[2] + 1
  <2> DEFINE a == call.maxOut[2] - Len(buffer[s]) + 1
             b == Len(pipe[s])
  <2>1. Chunk \in Nat /\ a \in Nat /\ b \in Nat  BY <1>0
  <2>2. a = call.maxOut[2] - Len(buffer[s]) + 1  OBVIOUS
  <2> HIDE DEF a, b
  <2> DEFINE m == Min({Chunk, a, b})
  <2>3. m \in {Chunk, a, b} /\ m <= a /\ m <= b
    <3>1. Chunk \in Int /\ a \in Int /\ b \in Int  BY <2>1
    <3>. QED  BY <3>1, MinOfThree, Zenon
  <2> HIDE DEF m
  <2>4. m \in 0 .. b /\ Len(buffer[s]) + m <= call.maxOut[2] + 1
    <3>1. m \in Nat  BY <2>1, <2>3
    <3> DEFINE has == Len(buffer[s])
               may == call.maxOut[2]
    <3>2. has \in Nat /\ may \in Int /\ a = may - has + 1  BY <1>0, <2>2
    <3> HIDE DEF has, may
    <3>3. has + m <= may + 1  BY <2>1, <2>3, <3>1, <3>2
    <3>. QED  BY <2>1, <2>3, <3>1, <3>3 DEF has, may
  <2>. QED  BY <2>4 DEF a, b, m
<1>3. \/ /\ pipe[s] = <<>> /\ UNCHANGED <<buffer, pipe>>
         /\ registered' = registered \/ (registered' = registered \ {s} /\ ~Writable)
         /\ outcome' = outcome
         /\ pc' = IF ready' = {} THEN "select" ELSE "events"
      \/ /\ buffer' = [buffer EXCEPT ![s] = @ \o SubSeq(pipe[s], 1, k)]
         /\ pipe' = [pipe EXCEPT ![s] = SubSeq(@, k + 1, Len(@))]
         /\ registered' = registered
         /\ \/ /\ ~(Len(buffer[s]) + k > call.maxOut[2]) /\ outcome' = outcome
               /\ pc' = IF ready' = {} THEN "select" ELSE "events"
            \/ pc' = "clean" /\ outcome' \in {"worker output too large", "worker stderr too large"}
  <2> HIDE DEF k
  <2>. QED  BY DEF Drain, k, Abandon, NextRound, GoOn
<1> HIDE DEF k
<1>4. ~(Len(buffer[s]) + k > call.maxOut[2]) => Len(buffer[s]) + k <= call.maxOut[2]
  BY <1>0, <1>2
<1>5. CASE pipe[s] = <<>> /\ UNCHANGED <<buffer, pipe>>
  BY <1>1, <1>2, <1>3, <1>4, <1>5
<1>6. CASE ~(pipe[s] = <<>> /\ UNCHANGED <<buffer, pipe>>)
  BY <1>1, <1>2, <1>3, <1>4, <1>6
<1>. QED  BY <1>5, <1>6

\* What a worker does when it reads: it takes one unit, or it finds the end of
\* its input, which is closed.
LEMMA ReadMoves ==
  ASSUME PipesOK, WorkerOK, Read
  PROVE  /\ worker.state = "running" /\ UNCHANGED <<call, pc, registered, ready, offset, buffer, expired, outcome, child, written>>
         /\ worker'.state = "running" /\ worker'.closed = worker.closed /\ worker'.status = worker.status
         /\ \/ /\ pipe["stdin"] # <<>> /\ worker'.got = Append(worker.got, Head(pipe["stdin"]))
               /\ worker'.eof = worker.eof /\ pipe' = [pipe EXCEPT !["stdin"] = Tail(@)]
            \/ /\ pipe["stdin"] = <<>> /\ "stdin" \notin registered
               /\ worker'.got = worker.got /\ worker'.eof /\ pipe' = pipe
<1>1. /\ worker.state = "running"
      /\ UNCHANGED <<call, pc, registered, ready, offset, buffer, expired, outcome, child, written>>
      /\ worker'.state = "running" /\ worker'.closed = worker.closed /\ worker'.status = worker.status
  BY DEF Read, Does, Running, Onward, Quiet, adapter, WorkerOK
<1>2. CASE pipe["stdin"] # <<>>
  BY <1>1, <1>2 DEF Read, Onward, WorkerOK
<1>3. CASE pipe["stdin"] = <<>>
  BY <1>1, <1>3 DEF Read, Onward, WorkerOK
<1>. QED  BY <1>1, <1>2, <1>3

\* And when it writes: one unit to an output with room, or it dies of a pipe
\* that the adapter has closed.
LEMMA WriteMoves ==
  ASSUME AdapterOK, WorkerOK, ProgramInv, Write
  PROVE  /\ worker.state = "running" /\ UNCHANGED <<call, pc, registered, ready, offset, buffer, expired, outcome, child>>
         /\ worker'.got = worker.got /\ worker'.eof = worker.eof /\ worker'.closed = worker.closed
         /\ \/ pc = "done" /\ worker'.state = "exited" /\ UNCHANGED <<pipe, written>>
            \/ /\ worker'.state = "running" /\ worker'.status = worker.status
               /\ \E s \in Outputs, u \in Units :
                    /\ Len(pipe[s]) < PipeSize
                    /\ pipe' = [pipe EXCEPT ![s] = Append(@, u)]
                    /\ written' = [written EXCEPT ![s] = Append(@, u)]
<1>1. /\ worker.state = "running" /\ Step[1] = "write"
      /\ UNCHANGED <<call, pc, registered, ready, offset, buffer, expired, outcome, child>>
  BY DEF Write, Does, Running, Quiet, adapter
<1>2. Step[2] \in Outputs /\ Step[3] \in Units
  BY <1>1, InstructionFacts DEF Running
<1>3. CASE pc = "done"
  BY <1>1, <1>3 DEF Write, WorkerOK
<1>4. CASE pc # "done"
  BY <1>1, <1>2, <1>4 DEF Write, Onward, WorkerOK
<1>. QED  BY <1>1, <1>3, <1>4

\* The rest of its work leaves the pipes and its input alone.
LEMMA WorkMoves ==
  ASSUME AdapterOK, WorkerOK, ProgramInv, Work
  PROVE  /\ worker.state = "running" /\ worker'.state \in {"running", "exited"}
         /\ UNCHANGED <<call, pc, registered, ready, offset, buffer, expired, outcome, pipe, written>>
         /\ worker'.got = worker.got /\ worker'.eof = worker.eof
BY DEF Work, Does, Running, Onward, Quiet, adapter, WorkerOK

\* The launcher becomes the worker, or ends with a word on stderr.
LEMMA LaunchMoves ==
  ASSUME WorkerOK, Launch
  PROVE  /\ worker.state = "launching" /\ worker'.state \in {"running", "exited"}
         /\ UNCHANGED <<call, pc, registered, ready, offset, buffer, expired, outcome, child>>
         /\ worker'.got = worker.got /\ worker'.eof = worker.eof /\ worker'.closed = worker.closed
         /\ \/ UNCHANGED <<pipe, written>>
            \/ /\ pipe' = [pipe EXCEPT !["stderr"] = Append(@, "junk")]
               /\ written' = [written EXCEPT !["stderr"] = Append(@, "junk")]
BY DEF Launch, Quiet, adapter, WorkerOK

\* The envelope is a sequence of its size.
LEMMA EnvelopeTyped ==
  ASSUME AdapterOK
  PROVE  Envelope \in Seq(Nat) /\ Len(Envelope) = call.size /\ call.size \in Nat /\ offset \in 0 .. call.size
<1>1. call.size \in Nat /\ offset \in 0 .. call.size  BY CallsAssumption DEF AdapterOK
<1>2. Envelope \in [1 .. call.size -> Nat]  BY <1>1 DEF Envelope
<1>. QED  BY <1>1, <1>2 DEF Envelope


\* No pipe holds more than it can.
LEMMA PipesKept ==
  ASSUME AdapterOK, PipesOK, WorkerOK, StartInv, ProgramInv, LimitInv, ExchangeNext
  PROVE  PipesOK'
<1> USE DEF Own, Keep, World, Quiet, adapter
<1>a. PipeSize \in Nat \ {0} /\ Chunk \in Nat \ {0}  BY ExchangeAssumption
<1>b. call.size \in Nat /\ call.maxOut[2] \in Int  BY CallsAssumption DEF AdapterOK
<1>1. CASE Launch
  <2>1. worker.state = "launching" /\ pipe["stderr"] = <<>> /\ written["stderr"] = <<>>
    BY <1>1, LaunchMoves DEF StartInv, Outputs
  <2>2. CASE UNCHANGED <<pipe, written>>  BY <2>2 DEF PipesOK
  <2>3. CASE ~UNCHANGED <<pipe, written>>
    <3>1. /\ pipe' = [pipe EXCEPT !["stderr"] = <<"junk">>]
          /\ written' = [written EXCEPT !["stderr"] = <<"junk">>]
      BY <1>1, <2>1, <2>3, LaunchMoves
    <3>2. <<"junk">> \in Seq(Units) /\ <<"junk">> \in Seq(Nat \union Units) /\ Len(<<"junk">>) = 1
      BY DEF Units
    <3>. QED  BY <3>1, <3>2, <1>a DEF PipesOK, Pipes, Outputs
  <2>. QED  BY <2>2, <2>3
<1>2. CASE Read
  <2>1. CASE pipe' = pipe  BY <1>2, <2>1, ReadMoves DEF PipesOK
  <2>2. CASE pipe' # pipe
    <3>1. /\ pipe["stdin"] # <<>> /\ pipe' = [pipe EXCEPT !["stdin"] = Tail(pipe["stdin"])] /\ written' = written
      BY <1>2, <2>2, ReadMoves
    <3>2. /\ Tail(pipe["stdin"]) \in Seq(Nat) /\ Len(Tail(pipe["stdin"])) < Len(pipe["stdin"])
          /\ Len(Tail(pipe["stdin"])) \in Nat /\ Len(pipe["stdin"]) \in Nat
      BY <3>1, HeadTailProperties, LenProperties DEF PipesOK
    <3> DEFINE t == Tail(pipe["stdin"])
    <3>3. t \in Seq(Nat \union Units)  BY <3>2
    <3>4. Len(t) <= PipeSize  BY <3>2, <1>a DEF PipesOK, Pipes
    <3> HIDE DEF t
    <3>5. pipe' = [pipe EXCEPT !["stdin"] = t]  BY <3>1 DEF t
    <3>6. t \in Seq(Nat)  BY <3>2 DEF t
    <3>. QED  BY <3>1, <3>3, <3>4, <3>5, <3>6 DEF PipesOK, Pipes, Outputs
  <2>. QED  BY <2>1, <2>2
<1>3. CASE Write
  <2>1. CASE UNCHANGED <<pipe, written>>  BY <2>1 DEF PipesOK
  <2>2. CASE ~UNCHANGED <<pipe, written>>
    <3>1. PICK s \in Outputs, u \in Units :
             /\ Len(pipe[s]) < PipeSize
             /\ pipe' = [pipe EXCEPT ![s] = Append(@, u)]
             /\ written' = [written EXCEPT ![s] = Append(@, u)]
      BY <1>3, <2>2, WriteMoves
    <3> DEFINE p == Append(pipe[s], u)
               w == Append(written[s], u)
    <3>2. /\ p \in Seq(Units) /\ Len(p) = Len(pipe[s]) + 1 /\ w \in Seq(Units)
      BY AppendProperties DEF PipesOK
    <3>3. p \in Seq(Nat \union Units) /\ Len(p) <= PipeSize
      BY <3>1, <3>2, <1>a, LenProperties DEF PipesOK
    <3> HIDE DEF p, w
    <3>4. pipe' = [pipe EXCEPT ![s] = p] /\ written' = [written EXCEPT ![s] = w]
      BY <3>1 DEF p, w
    <3>. QED  BY <3>2, <3>3, <3>4 DEF PipesOK, Pipes, Outputs
  <2>. QED  BY <2>1, <2>2
<1>4. CASE Work  BY <1>4, WorkMoves DEF PipesOK
<1>5. CASE ChildEnds  BY <1>5 DEF ChildEnds, PipesOK
<1>6. CASE Construct  BY <1>6 DEF Construct, PipesOK
<1>7. CASE Unwrap  BY <1>7 DEF Unwrap, PipesOK
<1>8. CASE Select  BY <1>8 DEF Select, PipesOK
<1>9. CASE FeedStdin
  <2>1. CASE pipe' = pipe  BY <1>9, <2>1, FeedMoves DEF PipesOK
  <2>2. CASE pipe' # pipe
    <3>1. PICK k \in 0 .. call.size - offset :
             /\ k <= PipeSize - Len(pipe["stdin"])
             /\ pipe' = [pipe EXCEPT !["stdin"] = @ \o SubSeq(Envelope, offset + 1, offset + k)]
      BY <1>9, <2>2, FeedMoves
    <3>2. written' = written  BY <1>9, FeedMoves
    <3> DEFINE t == SubSeq(Envelope, offset + 1, offset + k)
               p == pipe["stdin"] \o t
    <3>3. t \in Seq(Nat) /\ Len(t) = k
      <4>1. Envelope \in Seq(Nat) /\ offset \in 0 .. Len(Envelope) /\ k \in 0 .. Len(Envelope) - offset
        BY EnvelopeTyped
      <4>2. /\ SubSeq(Envelope, offset + 1, offset + k) \in Seq(Nat)
            /\ Len(SubSeq(Envelope, offset + 1, offset + k)) = k
        BY <4>1, NextPrefix, Zenon
      <4>. QED  BY <4>2
    <3> HIDE DEF t
    <3>4. p \in Seq(Nat) /\ Len(p) = Len(pipe["stdin"]) + k
      BY <3>3, ConcatProperties DEF PipesOK
    <3>6. pipe' = [pipe EXCEPT !["stdin"] = p]  BY <3>1 DEF t
    <3> HIDE DEF p
    <3>5. p \in Seq(Nat \union Units) /\ Len(p) <= PipeSize
      <4>1. Len(pipe["stdin"]) \in Nat /\ k \in Int  BY EnvelopeTyped, LenProperties DEF PipesOK
      <4>. QED  BY <4>1, <3>1, <3>4, <1>a
    <3>. QED  BY <3>2, <3>4, <3>5, <3>6 DEF PipesOK, Pipes, Outputs
  <2>. QED  BY <2>1, <2>2
<1>10. ASSUME NEW s \in Outputs, Drain(s) PROVE PipesOK'
  <2>1. CASE pipe' = pipe  BY <1>10, <2>1, DrainMoves DEF PipesOK
  <2>2. CASE pipe' # pipe
    <3>1. PICK k \in 0 .. Len(pipe[s]) : pipe' = [pipe EXCEPT ![s] = SubSeq(pipe[s], k + 1, Len(pipe[s]))]
      BY <1>10, <2>2, DrainMoves
    <3>2. written' = written  BY <1>10, DrainMoves
    <3> DEFINE t == SubSeq(pipe[s], k + 1, Len(pipe[s]))
    <3>3. t \in Seq(Units) /\ Len(t) = Len(pipe[s]) - k
      BY SplitAt DEF PipesOK
    <3>4. t \in Seq(Nat \union Units) /\ Len(t) <= PipeSize
      <4>1. Len(pipe[s]) \in Nat /\ Len(pipe[s]) <= PipeSize  BY LenProperties DEF PipesOK, Pipes
      <4>. QED  BY <4>1, <3>3, <1>a
    <3>5. pipe' = [pipe EXCEPT ![s] = t]  BY <3>1
    <3> HIDE DEF t
    <3>. QED  BY <3>2, <3>3, <3>4, <3>5 DEF PipesOK, Pipes, Outputs
  <2>. QED  BY <2>1, <2>2
<1>11. CASE AwaitExit  BY <1>11 DEF AwaitExit, PipesOK
<1>12. CASE Deadline  BY <1>12 DEF Deadline, PipesOK
<1>13. CASE Cleanup  BY <1>13 DEF Cleanup, Killed, PipesOK
<1>14. CASE Admit  BY <1>14 DEF Admit, PipesOK
<1>. QED  BY <1>1, <1>2, <1>3, <1>4, <1>5, <1>6, <1>7, <1>8, <1>9, <1>10, <1>11, <1>12, <1>13, <1>14 DEF ExchangeNext

\* Where unwrap starts: it refuses, or it starts a worker on empty pipes.
LEMMA UnwrapMoves ==
  ASSUME Unwrap
  PROVE  /\ pc = "unwrap" /\ UNCHANGED <<call, expired, ready, offset, buffer, pipe, child, written>>
         /\ \/ /\ pc' = "done" /\ UNCHANGED <<worker, registered>>
               /\ outcome' \in {"empty envelope", "envelope too large", "worker unavailable"}
            \/ /\ pc' = "select" /\ outcome' = outcome /\ registered' = Pipes
               /\ worker'.state \in {"running", "launching"} /\ worker'.at = 1 /\ worker'.got = <<>> /\ ~worker'.eof
<1>1. pc = "unwrap" /\ UNCHANGED <<call, expired, ready, offset, buffer, pipe, child, written>>
  BY DEF Unwrap, Here, Own
<1>2. \/ /\ pc' = "done" /\ UNCHANGED <<worker, registered>>
         /\ outcome' \in {"empty envelope", "envelope too large", "worker unavailable"}
      \/ /\ pc' = "select" /\ outcome' = outcome /\ registered' = Pipes
         /\ \E st \in {"running", "launching"} :
               worker' = [state |-> st, environment |-> call.environment \cap Allowed, at |-> 1, got |-> <<>>,
                          eof |-> FALSE, closed |-> FALSE, status |-> 0]
  BY DEF Unwrap, Refuse, GoOn, Pipes
<1>3. CASE pc' = "done" /\ UNCHANGED <<worker, registered>>
  BY <1>1, <1>2, <1>3
<1>4. ASSUME NEW st \in {"running", "launching"},
             worker' = [state |-> st, environment |-> call.environment \cap Allowed, at |-> 1, got |-> <<>>,
                        eof |-> FALSE, closed |-> FALSE, status |-> 0]
      PROVE  worker'.state \in {"running", "launching"} /\ worker'.at = 1 /\ worker'.got = <<>> /\ ~worker'.eof
  BY <1>4
<1>. QED  BY <1>1, <1>2, <1>3, <1>4

\* How the exchange is cleaned up: nobody that holds the pipes survives, or
\* everybody does.
LEMMA CleanupMoves ==
  ASSUME WorkerOK, Cleanup
  PROVE  /\ pc = "clean" /\ UNCHANGED <<call, expired, ready, offset, buffer, pipe, written>>
         /\ worker'.at = worker.at /\ worker'.got = worker.got /\ worker'.eof = worker.eof
         /\ \/ /\ worker'.state \in {worker.state, "killed"} /\ worker'.state \notin {"launching", "running"} /\ child' = "gone"
               /\ outcome' = outcome
               /\ pc' = IF outcome = "none" THEN "admit" ELSE "done"
            \/ /\ UNCHANGED <<worker, child>>
               /\ pc' = "done" /\ outcome' = "worker cleanup failure"
<1>1. /\ pc = "clean" /\ UNCHANGED <<call, expired, ready, offset, buffer, pipe, written>>
      /\ \/ /\ worker' = Killed /\ child' = "gone"
            /\ outcome' = outcome /\ pc' = IF outcome = "none" THEN "admit" ELSE "done"
         \/ /\ UNCHANGED <<worker, child>>
            /\ pc' = "done" /\ outcome' = "worker cleanup failure"
  BY DEF Cleanup, Here, Own, Refuse, GoOn
<1>2. /\ Killed.at = worker.at /\ Killed.got = worker.got /\ Killed.eof = worker.eof
      /\ Killed.state \in {worker.state, "killed"} /\ Killed.state \notin {"launching", "running"}
  BY DEF Killed, Alive, WorkerOK
<1>. QED  BY <1>1, <1>2

\* The adapter stays well typed.
LEMMA AdapterKept ==
  ASSUME AdapterOK, PipesOK, WorkerOK, StartInv, ProgramInv, LimitInv, ExchangeNext
  PROVE  AdapterOK'
<1> USE DEF Own, Keep, World, Refuse, Abandon, GoOn, Here
<1>a. PipeSize \in Nat \ {0} /\ Chunk \in Nat \ {0}  BY ExchangeAssumption
<1>b. call.size \in Nat /\ call.maxOut[2] \in Int  BY CallsAssumption DEF AdapterOK
<1>1. CASE Launch  BY <1>1, LaunchMoves DEF AdapterOK
<1>2. CASE Read  BY <1>2, ReadMoves DEF AdapterOK
<1>3. CASE Write  BY <1>3, WriteMoves DEF AdapterOK
<1>4. CASE Work  BY <1>4, WorkMoves DEF AdapterOK
<1>5. CASE ChildEnds  BY <1>5 DEF ChildEnds, Quiet, adapter, AdapterOK
<1>6. CASE Construct  BY <1>6 DEF Construct, AdapterOK, Busy, Pipes
<1>7. CASE Unwrap  BY <1>7 DEF Unwrap, AdapterOK, Busy, Pipes
<1>8. CASE Select  BY <1>8 DEF Select, AdapterOK, Busy, Pipes, Ready, Reported
<1>9. CASE FeedStdin
  <2>1. /\ call' = call /\ buffer' = buffer /\ ready' = ready \ {"stdin"} /\ pc = "events"
        /\ registered' \in {registered, registered \ {"stdin"}}
        /\ pc' \in {"clean", "select", "events"} /\ (pc' = "events" => ready' # {})
    BY <1>9, FeedMoves
  <2>2. offset' \in 0 .. call.size
    <3>1. CASE offset' = offset  BY <3>1 DEF AdapterOK
    <3>2. CASE offset' # offset
      <4>1. PICK k \in 0 .. call.size - offset : offset' = offset + k  BY <1>9, <3>2, FeedMoves
      <4>. QED  BY <4>1, EnvelopeTyped
    <3>. QED  BY <3>1, <3>2
  <2>. QED  BY <2>1, <2>2 DEF AdapterOK, Busy, Pipes
<1>10. ASSUME NEW s \in Outputs, Drain(s) PROVE AdapterOK'
  <2>1. /\ call' = call /\ offset' = offset /\ ready' = ready \ {s} /\ pc = "events"
        /\ registered' \in {registered, registered \ {s}}
        /\ pc' \in {"clean", "select", "events"} /\ (pc' = "events" => ready' # {})
    BY <1>10, DrainMoves
  <2>2. buffer' \in [Outputs -> Seq(Units)]
    <3>1. CASE buffer' = buffer  BY <3>1 DEF AdapterOK
    <3>2. CASE buffer' # buffer
      <4>1. PICK k \in 0 .. Len(pipe[s]) : buffer' = [buffer EXCEPT ![s] = @ \o SubSeq(pipe[s], 1, k)]
        BY <1>10, <3>2, DrainMoves
      <4>2. SubSeq(pipe[s], 1, k) \in Seq(Units)  BY SplitAt DEF PipesOK
      <4>3. buffer[s] \o SubSeq(pipe[s], 1, k) \in Seq(Units)  BY <4>2, ConcatProperties DEF AdapterOK
      <4>. QED  BY <4>1, <4>3 DEF AdapterOK
    <3>. QED  BY <3>1, <3>2
  <2>. QED  BY <2>1, <2>2 DEF AdapterOK, Busy, Pipes
<1>11. CASE AwaitExit  BY <1>11 DEF AwaitExit, AdapterOK, Busy, Pipes
<1>12. CASE Deadline  BY <1>12 DEF Deadline, adapter, AdapterOK, Busy, Pipes
<1>13. CASE Cleanup  BY <1>13 DEF Cleanup, Killed, AdapterOK, Busy, Pipes
<1>14. CASE Admit  BY <1>14 DEF Admit, AdapterOK, Busy, Pipes
<1>. QED  BY <1>1, <1>2, <1>3, <1>4, <1>5, <1>6, <1>7, <1>8, <1>9, <1>10, <1>11, <1>12, <1>13, <1>14 DEF ExchangeNext

\* A worker that is still to start finds nothing passed.
LEMMA StartKept ==
  ASSUME AdapterOK, PipesOK, WorkerOK, StartInv, ProgramInv, LimitInv, ExchangeNext
  PROVE  StartInv'
<1> USE DEF Own, Keep, World, Refuse, Abandon, GoOn, Here, Busy
<1>a. PipeSize \in Nat \ {0} /\ Chunk \in Nat \ {0}  BY ExchangeAssumption
<1>b. call.size \in Nat /\ call.maxOut[2] \in Int  BY CallsAssumption DEF AdapterOK
<1>1. CASE Launch
  <2>1. /\ pc' = pc /\ registered' = registered /\ offset' = offset /\ worker.state = "launching"
        /\ worker'.state \in {"running", "exited"}
    BY <1>1, LaunchMoves
  <2>. QED  BY <2>1 DEF StartInv
<1>2. CASE Read  BY <1>2, ReadMoves DEF StartInv
<1>3. CASE Write  BY <1>3, WriteMoves DEF StartInv
<1>4. CASE Work  BY <1>4, WorkMoves DEF StartInv
<1>5. CASE ChildEnds  BY <1>5 DEF ChildEnds, Quiet, adapter, StartInv
<1>6. CASE Construct  BY <1>6 DEF Construct, StartInv, WorkerOK
<1>7. CASE Unwrap  BY <1>7, UnwrapMoves DEF StartInv
<1>8. CASE Select  BY <1>8 DEF Select, StartInv, WorkerOK
<1>9. CASE FeedStdin
  <2>1. UNCHANGED <<worker, buffer, child, written>> /\ pc = "events" /\ pc' \in {"clean", "select", "events"}
    BY <1>9, FeedMoves
  <2>2. \A o \in Outputs : pipe'[o] = pipe[o]
    BY <1>9, FeedMoves DEF PipesOK, Pipes, Outputs
  <2>. QED  BY <2>1, <2>2 DEF StartInv
<1>10. ASSUME NEW s \in Outputs, Drain(s) PROVE StartInv'
  <2>1. UNCHANGED <<worker, child, written>> /\ pc = "events" /\ pc' \in {"clean", "select", "events"}
    BY <1>10, DrainMoves
  <2>2. CASE worker.state \in {"none", "launching"}
    <3>1. \A o \in Outputs : pipe[o] = <<>> /\ buffer[o] = <<>> /\ written[o] = <<>>
      BY <2>2 DEF StartInv
    <3>2. CASE UNCHANGED <<buffer, pipe>>  BY <2>1, <2>2, <3>2 DEF StartInv
    <3>3. CASE ~UNCHANGED <<buffer, pipe>>
      <4>1. PICK k \in 0 .. Len(pipe[s]) :
               /\ buffer' = [buffer EXCEPT ![s] = @ \o SubSeq(pipe[s], 1, k)]
               /\ pipe' = [pipe EXCEPT ![s] = SubSeq(pipe[s], k + 1, Len(pipe[s]))]
        BY <1>10, <3>3, DrainMoves
      <4>2. k = 0 /\ Len(pipe[s]) = 0 /\ pipe[s] = <<>> /\ buffer[s] = <<>>  BY <3>1
      <4>3. SubSeq(pipe[s], 1, k) = <<>> /\ SubSeq(pipe[s], k + 1, Len(pipe[s])) = <<>>
        BY <4>2, SubSeqEmpty
      <4>4. buffer[s] \o SubSeq(pipe[s], 1, k) = <<>>  BY <4>2, <4>3, ConcatEmptySeq
      <4>5. \A o \in Outputs : pipe'[o] = <<>> /\ buffer'[o] = <<>>
        BY <4>1, <4>3, <4>4, <3>1 DEF PipesOK, AdapterOK, Pipes
      <4>. QED  BY <2>1, <2>2, <3>1, <4>5 DEF StartInv
    <3>. QED  BY <3>2, <3>3
  <2>3. CASE worker.state \notin {"none", "launching"}  BY <2>1, <2>3 DEF StartInv
  <2>. QED  BY <2>2, <2>3
<1>11. CASE AwaitExit  BY <1>11 DEF AwaitExit, StartInv, WorkerOK
<1>12. CASE Deadline  BY <1>12 DEF Deadline, adapter, StartInv
<1>13. CASE Cleanup  BY <1>13, CleanupMoves DEF StartInv
<1>14. CASE Admit  BY <1>14 DEF Admit, StartInv, WorkerOK
<1>. QED  BY <1>1, <1>2, <1>3, <1>4, <1>5, <1>6, <1>7, <1>8, <1>9, <1>10, <1>11, <1>12, <1>13, <1>14 DEF ExchangeNext

\* Who outlives the exchange.
LEMMA SurvivorKept ==
  ASSUME AdapterOK, PipesOK, WorkerOK, StartInv, ProgramInv, SurvivorInv, LimitInv, OutcomeInv, ExchangeNext
  PROVE  SurvivorInv'
<1> USE DEF SurvivorInv, Alive, Writable, Hasty, Here, Own, World, Refuse, Abandon, GoOn
<1>1. CASE Launch  BY <1>1, LaunchMoves
<1>2. CASE Read  BY <1>2, ReadMoves
<1>3. CASE Write  BY <1>3, WriteMoves
<1>4. CASE Work
  <2>1. /\ worker.state = "running" /\ worker'.state \in {"running", "exited"} /\ pc' = pc /\ outcome' = outcome
    BY <1>4, WorkMoves
  <2>. QED  BY <2>1
<1>5. CASE ChildEnds  BY <1>5 DEF ChildEnds, Quiet, adapter
<1>6. CASE Construct  BY <1>6 DEF Construct, StartInv
<1>7. CASE Unwrap  BY <1>7, UnwrapMoves DEF StartInv
<1>8. CASE Select  BY <1>8 DEF Select
<1>9. CASE FeedStdin  BY <1>9, FeedMoves
<1>10. ASSUME NEW s \in Outputs, Drain(s) PROVE SurvivorInv'  BY <1>10, DrainMoves
<1>11. CASE AwaitExit  BY <1>11 DEF AwaitExit
<1>12. CASE Deadline  BY <1>12 DEF Deadline, adapter
<1>13. CASE Cleanup  BY <1>13, CleanupMoves DEF OutcomeInv
<1>14. CASE Admit  BY <1>14 DEF Admit
<1>. QED  BY <1>1, <1>2, <1>3, <1>4, <1>5, <1>6, <1>7, <1>8, <1>9, <1>10, <1>11, <1>12, <1>13, <1>14 DEF ExchangeNext

\* A buffer is at most one unit beyond the limit.
LEMMA LimitKept ==
  ASSUME AdapterOK, PipesOK, WorkerOK, StartInv, ProgramInv, LimitInv, ExchangeNext
  PROVE  LimitInv'
<1> USE DEF Busy, Here, Own, World, Keep, Refuse, Abandon, GoOn
<1>a. PipeSize \in Nat \ {0} /\ Chunk \in Nat \ {0}  BY ExchangeAssumption
<1>b. call.size \in Nat /\ call.maxOut[2] \in Int  BY CallsAssumption DEF AdapterOK
<1>1. CASE Launch  BY <1>1, LaunchMoves DEF LimitInv
<1>2. CASE Read  BY <1>2, ReadMoves DEF LimitInv
<1>3. CASE Write  BY <1>3, WriteMoves DEF LimitInv
<1>4. CASE Work  BY <1>4, WorkMoves DEF LimitInv
<1>5. CASE ChildEnds  BY <1>5 DEF ChildEnds, Quiet, adapter, LimitInv
<1>6. CASE Construct  BY <1>6 DEF Construct, IsLimit, LimitInv
<1>7. CASE Unwrap
  <2>1. \A s \in Outputs : buffer[s] = <<>>
    BY <1>7, UnwrapMoves DEF StartInv
  <2>2. /\ pc = "unwrap" /\ buffer' = buffer /\ call' = call /\ pc' \in {"select", "done"}
    BY <1>7, UnwrapMoves
  <2>3. call.maxOut[2] > 0  BY <2>2 DEF LimitInv
  <2>. QED  BY <2>1, <2>2, <2>3, <1>b DEF LimitInv
<1>8. CASE Select  BY <1>8 DEF Select, LimitInv
<1>9. CASE FeedStdin  BY <1>9, FeedMoves DEF LimitInv
<1>10. ASSUME NEW s \in Outputs, Drain(s) PROVE LimitInv'
  <2>1. /\ pc = "events" /\ call' = call /\ pc' \in {"clean", "select", "events"}
    BY <1>10, DrainMoves
  <2>2. CASE buffer' = buffer  BY <2>1, <2>2 DEF LimitInv
  <2>3. CASE buffer' # buffer
    <3>1. PICK k \in 0 .. Len(pipe[s]) :
             /\ buffer' = [buffer EXCEPT ![s] = @ \o SubSeq(pipe[s], 1, k)]
             /\ Len(buffer[s]) + k <= call.maxOut[2] + 1
             /\ pc' = "clean" \/ Len(buffer[s]) + k <= call.maxOut[2]
      BY <1>10, <2>3, DrainMoves
    <3>2. SubSeq(pipe[s], 1, k) \in Seq(Units) /\ Len(SubSeq(pipe[s], 1, k)) = k  BY SplitAt DEF PipesOK
    <3>3. Len(buffer[s] \o SubSeq(pipe[s], 1, k)) = Len(buffer[s]) + k  BY <3>2, ConcatProperties DEF AdapterOK
    <3>4. /\ Len(buffer'[s]) = Len(buffer[s]) + k
          /\ \A o \in Outputs \ {s} : buffer'[o] = buffer[o]
      BY <3>1, <3>3 DEF AdapterOK
    <3>5. \A o \in Outputs : buffer'[o] = <<>> \/ Len(buffer'[o]) <= call'.maxOut[2] + 1
      BY <2>1, <3>1, <3>4 DEF LimitInv
    <3>6. pc' \in Busy => \A o \in Outputs : Len(buffer'[o]) <= call'.maxOut[2]
      BY <2>1, <3>1, <3>4 DEF LimitInv
    <3>. QED  BY <2>1, <3>5, <3>6 DEF LimitInv
  <2>. QED  BY <2>2, <2>3
<1>11. CASE AwaitExit  BY <1>11 DEF AwaitExit, LimitInv
<1>12. CASE Deadline  BY <1>12 DEF Deadline, adapter, LimitInv
<1>13. CASE Cleanup  BY <1>13, CleanupMoves DEF LimitInv
<1>14. CASE Admit  BY <1>14 DEF Admit, LimitInv
<1>. QED  BY <1>1, <1>2, <1>3, <1>4, <1>5, <1>6, <1>7, <1>8, <1>9, <1>10, <1>11, <1>12, <1>13, <1>14 DEF ExchangeNext

\* The envelope is the same as long as the call is.
LEMMA SameEnvelope ==
  ASSUME call' = call
  PROVE  Envelope' = Envelope
BY DEF Envelope

\* What the end of the input is worth to a worker that finds it.
LEMMA EndOfInput ==
  ASSUME AdapterOK, PipesOK, WorkerOK, StartInv, SurvivorInv, InputInv,
         worker.state = "running", pipe["stdin"] = <<>>, "stdin" \notin registered
  PROVE  worker.got = Envelope \/ outcome = "worker cleanup failure"
<1>1. pc \in Busy \union {"clean", "done"}
  BY DEF AdapterOK, StartInv, SurvivorInv, Writable, Alive
<1>2. CASE pc = "done"
  BY <1>2 DEF SurvivorInv, Alive
<1>3. CASE pc # "done"
  <2>1. offset = call.size /\ worker.got \o <<>> = SubSeq(Envelope, 1, offset)
    BY <1>1, <1>3 DEF InputInv
  <2>2. Envelope \in Seq(Nat) /\ offset \in 0 .. Len(Envelope) /\ offset = Len(Envelope)
    BY <2>1, EnvelopeTyped
  <2>3. worker.got \in Seq(Nat) /\ <<>> \in Seq(Nat)  BY DEF WorkerOK
  <2>4. SubSeq(Envelope, 1, Len(Envelope)) = Envelope  BY <2>2, SubSeqFull
  <2>5. worker.got \o <<>> = worker.got  BY <2>3, ConcatEmptySeq
  <2>. QED  BY <2>1, <2>2, <2>4, <2>5
<1>. QED  BY <1>2, <1>3

\* No unit of the input is lost, doubled or misplaced.
LEMMA InputKept ==
  ASSUME AdapterOK, PipesOK, WorkerOK, StartInv, ProgramInv, SurvivorInv, InputInv, OutcomeInv, LimitInv, ExchangeNext
  PROVE  InputInv'
<1> USE DEF Here, Own, World, Keep, Refuse, Abandon, GoOn
<1>1. CASE Launch
  <2>1. pipe'["stdin"] = pipe["stdin"]  BY <1>1, LaunchMoves DEF PipesOK, Pipes, Outputs
  <2>. QED  BY <1>1, <2>1, LaunchMoves, SameEnvelope DEF InputInv
<1>2. CASE Read
  <2>1. UNCHANGED <<call, pc, registered, offset, outcome>> /\ worker.state = "running" /\ Envelope' = Envelope
    BY <1>2, ReadMoves, SameEnvelope
  <2>2. CASE pipe["stdin"] # <<>>
    <3>1. /\ worker'.got = Append(worker.got, Head(pipe["stdin"])) /\ worker'.eof = worker.eof
          /\ pipe'["stdin"] = Tail(pipe["stdin"])
      BY <1>2, <2>2, ReadMoves DEF PipesOK, Pipes
    <3>2. worker'.got \o pipe'["stdin"] = worker.got \o pipe["stdin"]
      <4>1. worker.got \in Seq(Nat) /\ pipe["stdin"] \in Seq(Nat)  BY DEF WorkerOK, PipesOK
      <4>2. Append(worker.got, Head(pipe["stdin"])) \o Tail(pipe["stdin"]) = worker.got \o pipe["stdin"]
        BY <2>2, <4>1, TakeHead, Zenon
      <4>. QED  BY <3>1, <4>2
    <3>3. ~worker.eof \/ outcome = "worker cleanup failure"
      <4>1. CASE worker.eof /\ worker.got = Envelope
        <5>1. Envelope \in Seq(Nat) /\ offset <= Len(Envelope) /\ offset \in Nat  BY EnvelopeTyped
        <5>2. Len(worker.got \o pipe["stdin"]) = offset
          <6>1. offset \in 0 .. Len(Envelope)  BY <5>1
          <6>2. Len(SubSeq(Envelope, 1, offset)) = offset  BY <5>1, <6>1, SplitAt, Zenon
          <6>. QED  BY <6>2 DEF InputInv
        <5>3. Len(worker.got \o pipe["stdin"]) = Len(worker.got) + Len(pipe["stdin"]) /\ Len(pipe["stdin"]) > 0
          <6>1. worker.got \in Seq(Nat) /\ pipe["stdin"] \in Seq(Nat)  BY DEF WorkerOK, PipesOK
          <6>. QED  BY <6>1, <2>2, ConcatProperties, EmptySeq
        <5>4. Len(worker.got) \in Nat /\ Len(pipe["stdin"]) \in Nat  BY LenProperties DEF WorkerOK, PipesOK
        <5>5. Len(worker.got) = Len(Envelope)  BY <4>1
        <5>6. FALSE  BY <5>1, <5>2, <5>3, <5>4, <5>5
        <5>. QED  BY <5>6
      <4>. QED  BY <4>1 DEF InputInv
    <3>. QED  BY <2>1, <3>1, <3>2, <3>3 DEF InputInv
  <2>3. CASE pipe["stdin"] = <<>>
    <3>1. "stdin" \notin registered /\ worker'.got = worker.got /\ pipe' = pipe
      BY <1>2, <2>3, ReadMoves
    <3>2. worker.got = Envelope \/ outcome = "worker cleanup failure"
      BY <2>1, <2>3, <3>1, EndOfInput
    <3>. QED  BY <2>1, <3>1, <3>2 DEF InputInv
  <2>. QED  BY <2>2, <2>3
<1>3. CASE Write
  <2>1. pipe'["stdin"] = pipe["stdin"]  BY <1>3, WriteMoves DEF PipesOK, Pipes, Outputs
  <2>. QED  BY <1>3, <2>1, WriteMoves, SameEnvelope DEF InputInv
<1>4. CASE Work  BY <1>4, WorkMoves, SameEnvelope DEF InputInv
<1>5. CASE ChildEnds  BY <1>5, SameEnvelope DEF ChildEnds, Quiet, adapter, InputInv
<1>6. CASE Construct  BY <1>6, SameEnvelope DEF Construct, InputInv, OutcomeInv, StartInv, Busy
<1>7. CASE Unwrap
  <2>1. /\ worker'.got = worker.got /\ ~worker'.eof
    BY <1>7, UnwrapMoves DEF StartInv
  <2>. QED  BY <1>7, <2>1, UnwrapMoves, SameEnvelope DEF InputInv, Pipes, Busy
<1>8. CASE Select  BY <1>8, SameEnvelope DEF Select, InputInv, OutcomeInv, Hasty, Busy
<1>9. CASE FeedStdin
  <2>1. call' = call /\ worker' = worker /\ pc = "events" /\ Envelope' = Envelope  BY <1>9, FeedMoves, SameEnvelope
  <2>2. ~worker.eof \/ worker.got = Envelope  BY <2>1 DEF InputInv, OutcomeInv, Busy
  <2>3. CASE UNCHANGED <<offset, registered, pipe>>  BY <2>1, <2>2, <2>3 DEF InputInv, Busy
  <2>4. CASE ~UNCHANGED <<offset, registered, pipe>>
    <3>1. PICK k \in 0 .. call.size - offset :
             /\ offset' = offset + k
             /\ pipe' = [pipe EXCEPT !["stdin"] = @ \o SubSeq(Envelope, offset + 1, offset + k)]
             /\ \/ registered' = registered
                \/ registered' = registered \ {"stdin"} /\ offset' = call.size
      BY <1>9, <2>4, FeedMoves
    <3>2. /\ Envelope \in Seq(Nat) /\ offset \in 0 .. Len(Envelope) /\ k \in 0 .. Len(Envelope) - offset
      BY EnvelopeTyped
    <3> DEFINE t == SubSeq(Envelope, offset + 1, offset + k)
    <3>3. t \in Seq(Nat) /\ SubSeq(Envelope, 1, offset) \o t = SubSeq(Envelope, 1, offset + k)
      BY <3>2, NextPrefix, Zenon
    <3>4. pipe'["stdin"] = pipe["stdin"] \o t  BY <3>1 DEF PipesOK, Pipes
    <3> HIDE DEF t
    <3>5. worker.got \in Seq(Nat) /\ pipe["stdin"] \in Seq(Nat)  BY DEF WorkerOK, PipesOK
    <3>6. (worker.got \o pipe["stdin"]) \o t = worker.got \o (pipe["stdin"] \o t)
      <4>1. \A a \in Seq(Nat) : \A b \in Seq(Nat) : \A c \in Seq(Nat) : (a \o b) \o c = a \o (b \o c)
        BY AssociativeInput
      <4>. QED  BY <3>3, <3>5, <4>1
    <3>7. worker'.got \o pipe'["stdin"] = SubSeq(Envelope', 1, offset')
      BY <2>1, <3>1, <3>3, <3>4, <3>6 DEF InputInv
    <3>8. pc' \in Busy \union {"clean"} /\ "stdin" \notin registered' => offset' = call.size
      <4>1. "stdin" \in registered  BY <1>9, FeedMoves DEF AdapterOK
      <4>. QED  BY <3>1, <4>1
    <3>. QED  BY <2>1, <2>2, <3>7, <3>8 DEF InputInv
  <2>. QED  BY <2>3, <2>4
<1>10. ASSUME NEW s \in Outputs, Drain(s) PROVE InputInv'
  <2>1. /\ UNCHANGED <<call, offset, worker>> /\ pc = "events" /\ Envelope' = Envelope
        /\ registered' \in {registered, registered \ {s}} /\ s # "stdin"
        /\ pipe'["stdin"] = pipe["stdin"]
    BY <1>10, DrainMoves, SameEnvelope DEF Outputs, PipesOK, Pipes
  <2>2. ~worker.eof \/ worker.got = Envelope  BY <2>1 DEF InputInv, OutcomeInv, Busy
  <2>. QED  BY <2>1, <2>2 DEF InputInv, Busy
<1>11. CASE AwaitExit  BY <1>11, SameEnvelope DEF AwaitExit, InputInv, OutcomeInv, Hasty, Busy
<1>12. CASE Deadline  BY <1>12, SameEnvelope DEF Deadline, adapter, InputInv
<1>13. CASE Cleanup  BY <1>13, CleanupMoves, SameEnvelope DEF InputInv, OutcomeInv, Busy
<1>14. CASE Admit  BY <1>14, SameEnvelope DEF Admit, InputInv, OutcomeInv, Hasty, Busy
<1>. QED  BY <1>1, <1>2, <1>3, <1>4, <1>5, <1>6, <1>7, <1>8, <1>9, <1>10, <1>11, <1>12, <1>13, <1>14 DEF ExchangeNext

\* No unit of an output is lost, and none comes after it was closed.
LEMMA OutputKept ==
  ASSUME AdapterOK, PipesOK, WorkerOK, StartInv, ProgramInv, SurvivorInv, OutputInv, OutcomeInv, LimitInv, ExchangeNext
  PROVE  OutputInv'
<1> USE DEF Here, Own, World, Keep, Refuse, Abandon, GoOn
<1>a. PipeSize \in Nat \ {0} /\ Chunk \in Nat \ {0}  BY ExchangeAssumption
<1>b. call.size \in Nat /\ call.maxOut[2] \in Int  BY CallsAssumption DEF AdapterOK
<1>1. CASE Launch
  <2>1. UNCHANGED <<pc, registered, buffer, outcome, child>> /\ Writable  BY <1>1, LaunchMoves DEF Writable, Alive
  <2>2. ASSUME NEW s \in Outputs PROVE written'[s] = buffer'[s] \o pipe'[s]
    <3>1. CASE UNCHANGED <<pipe, written>>  BY <2>1, <3>1 DEF OutputInv
    <3>2. CASE ~UNCHANGED <<pipe, written>>
      <4>1. /\ pipe' = [pipe EXCEPT !["stderr"] = Append(@, "junk")]
            /\ written' = [written EXCEPT !["stderr"] = Append(@, "junk")]
        BY <1>1, <3>2, LaunchMoves
      <4>2. Append(buffer["stderr"] \o pipe["stderr"], "junk") = buffer["stderr"] \o Append(pipe["stderr"], "junk")
        <5>1. "junk" \in Units /\ buffer["stderr"] \in Seq(Units) /\ pipe["stderr"] \in Seq(Units)
          BY DEF Units, AdapterOK, PipesOK, Outputs
        <5>. QED  BY <5>1, AppendBehind, Zenon
      <4>. QED  BY <2>1, <4>1, <4>2 DEF OutputInv, PipesOK, Pipes, Outputs
    <3>. QED  BY <3>1, <3>2
  <2>3. pc # "admit" /\ (pc = "done" => outcome \in Hasty)  BY <2>1 DEF SurvivorInv
  <2>. QED  BY <2>1, <2>2, <2>3 DEF OutputInv, OutcomeInv, Busy
<1>2. CASE Read
  <2>1. UNCHANGED <<pc, registered, buffer, outcome, child, written>> /\ Writable  BY <1>2, ReadMoves DEF Writable, Alive
  <2>2. \A s \in Outputs : pipe'[s] = pipe[s]  BY <1>2, ReadMoves DEF PipesOK, Pipes, Outputs
  <2>3. pc # "admit" /\ (pc = "done" => outcome \in Hasty)  BY <2>1 DEF SurvivorInv
  <2>. QED  BY <2>1, <2>2, <2>3 DEF OutputInv, OutcomeInv, Busy
<1>3. CASE Write
  <2>1. UNCHANGED <<pc, registered, buffer, outcome, child>> /\ Writable  BY <1>3, WriteMoves DEF Writable, Alive
  <2>2. \A s \in Outputs : written'[s] = buffer'[s] \o pipe'[s]
    <3>1. CASE UNCHANGED <<pipe, written>>  BY <2>1, <3>1 DEF OutputInv
    <3>2. CASE ~UNCHANGED <<pipe, written>>
      <4>1. PICK o \in Outputs, u \in Units :
               /\ pipe' = [pipe EXCEPT ![o] = Append(@, u)]
               /\ written' = [written EXCEPT ![o] = Append(@, u)]
        BY <1>3, <3>2, WriteMoves
      <4>2. Append(buffer[o] \o pipe[o], u) = buffer[o] \o Append(pipe[o], u)
        <5>1. buffer[o] \in Seq(Units) /\ pipe[o] \in Seq(Units)  BY DEF AdapterOK, PipesOK
        <5>2. u \in Units  OBVIOUS
        <5>. QED  BY <5>1, <5>2, AppendBehind, Zenon
      <4>. QED  BY <2>1, <4>1, <4>2 DEF OutputInv, PipesOK, Pipes
    <3>. QED  BY <3>1, <3>2
  <2>3. pc # "admit" /\ (pc = "done" => outcome \in Hasty)  BY <2>1 DEF SurvivorInv
  <2>. QED  BY <2>1, <2>2, <2>3 DEF OutputInv, OutcomeInv, Busy
<1>4. CASE Work
  <2>1. UNCHANGED <<pc, registered, buffer, outcome, pipe, written>> /\ Writable  BY <1>4, WorkMoves DEF Writable, Alive
  <2>2. pc # "admit" /\ (pc = "done" => outcome \in Hasty)  BY <2>1 DEF SurvivorInv
  <2>. QED  BY <2>1, <2>2 DEF OutputInv, OutcomeInv, Busy
<1>5. CASE ChildEnds  BY <1>5 DEF ChildEnds, Quiet, adapter, OutputInv, Writable, Alive
<1>6. CASE Construct  BY <1>6 DEF Construct, OutputInv, OutcomeInv, Busy, Hasty
<1>7. CASE Unwrap  BY <1>7, UnwrapMoves DEF OutputInv, OutcomeInv, Busy, Hasty, Pipes
<1>8. CASE Select  BY <1>8 DEF Select, OutputInv, OutcomeInv, Hasty, Busy, Writable, Alive
<1>9. CASE FeedStdin
  <2>1. /\ UNCHANGED <<buffer, worker, child, written>> /\ pc = "events"
        /\ registered' \in {registered, registered \ {"stdin"}}
        /\ \/ pc' = "clean" /\ outcome' = "worker I/O failure"
           \/ pc' \in {"select", "events"} /\ outcome' = outcome
    BY <1>9, FeedMoves
  <2>2. \A s \in Outputs : pipe'[s] = pipe[s] /\ (s \in registered <=> s \in registered')
    BY <1>9, <2>1, FeedMoves DEF PipesOK, Pipes, Outputs
  <2>. QED  BY <2>1, <2>2 DEF OutputInv, OutcomeInv, Busy, Writable, Alive, Hasty
<1>10. ASSUME NEW s \in Outputs, Drain(s) PROVE OutputInv'
  <2>1. /\ UNCHANGED <<worker, child, written>> /\ pc = "events" /\ outcome = "none"
        /\ \/ pc' = "clean" /\ outcome' \in {"worker output too large", "worker stderr too large"}
           \/ pc' \in {"select", "events"} /\ outcome' = outcome
    BY <1>10, DrainMoves DEF OutcomeInv, Busy
  <2>2. CASE UNCHANGED <<buffer, pipe>>
    <3>1. /\ registered' = registered \/ (registered' = registered \ {s} /\ pipe[s] = <<>> /\ ~Writable)
          \/ registered' = registered
      BY <1>10, <2>2, DrainMoves
    <3>. QED  BY <2>1, <2>2, <3>1 DEF OutputInv, Busy, Writable, Alive, Hasty
  <2>3. CASE ~UNCHANGED <<buffer, pipe>>
    <3>1. PICK k \in 0 .. Len(pipe[s]) :
             /\ buffer' = [buffer EXCEPT ![s] = @ \o SubSeq(pipe[s], 1, k)]
             /\ pipe' = [pipe EXCEPT ![s] = SubSeq(pipe[s], k + 1, Len(pipe[s]))]
             /\ registered' = registered
      BY <1>10, <2>3, DrainMoves
    <3> DEFINE f == SubSeq(pipe[s], 1, k)
               t == SubSeq(pipe[s], k + 1, Len(pipe[s]))
    <3>2. f \in Seq(Units) /\ t \in Seq(Units) /\ f \o t = pipe[s]  BY SplitAt DEF PipesOK
    <3>3. buffer' = [buffer EXCEPT ![s] = @ \o f] /\ pipe' = [pipe EXCEPT ![s] = t]  BY <3>1
    <3> HIDE DEF f, t
    <3>4. (buffer[s] \o f) \o t = buffer[s] \o pipe[s]
      <4>1. buffer[s] \in Seq(Units)  BY DEF AdapterOK
      <4>2. (buffer[s] \o f) \o t = buffer[s] \o (f \o t)  BY <3>2, <4>1, AssociativeOutput, Zenon
      <4>. QED  BY <3>2, <4>2
    <3>5. \A o \in Outputs : written'[o] = buffer'[o] \o pipe'[o]
      BY <2>1, <3>3, <3>4 DEF OutputInv, AdapterOK, PipesOK, Pipes
    <3>6. s \in registered /\ (\A o \in Outputs \ {s} : pipe'[o] = pipe[o])
      BY <1>10, <3>3, DrainMoves DEF AdapterOK, PipesOK, Pipes
    <3>. QED  BY <2>1, <3>1, <3>5, <3>6 DEF OutputInv, Busy, Writable, Alive, Hasty
  <2>. QED  BY <2>2, <2>3
<1>11. CASE AwaitExit
  <2>1. UNCHANGED <<registered, buffer, pipe, worker, child, written>> /\ pc = "await" /\ outcome = "none"
    BY <1>11 DEF AwaitExit, OutcomeInv, Busy
  <2>2. registered = {} /\ pipe["stdout"] = <<>> /\ ~Writable  BY <2>1 DEF OutputInv, Busy, Outputs
  <2>3. pc' = "clean" /\ outcome' \in {"none", "worker timeout"}  BY <1>11, <2>1 DEF AwaitExit
  <2>. QED  BY <2>1, <2>2, <2>3 DEF OutputInv, Busy, Writable, Alive, Hasty
<1>12. CASE Deadline  BY <1>12 DEF Deadline, adapter, OutputInv, Writable, Alive
<1>13. CASE Cleanup  BY <1>13, CleanupMoves DEF OutputInv, OutcomeInv, Busy, Writable, Alive, Hasty
<1>14. CASE Admit  BY <1>14 DEF Admit, OutputInv, OutcomeInv, Hasty, Busy, Writable, Alive
<1>. QED  BY <1>1, <1>2, <1>3, <1>4, <1>5, <1>6, <1>7, <1>8, <1>9, <1>10, <1>11, <1>12, <1>13, <1>14 DEF ExchangeNext

\* A result is the reply in its only reading, and says what was asked for.
LEMMA AdmittedIsFaithful ==
  ASSUME AdapterOK, Admit, outcome' = "result"
  PROVE  Faithful'
<1> DEFINE d == DecodeStrictJson(ReplyIn(buffer.stdout))
<1>1. UNCHANGED <<call, worker>>
  BY DEF Admit, Own, World
<1>2. worker.status = 0 /\ IsOk(d) /\ Diagnosis(d[2]) = "result"
  BY DEF Admit, Refuse
<1>3. d = DecodeStrictJson(call.reply)
  <2>1. ReplyIn(buffer.stdout) \in {call.reply, <<"bad", "syntax">>}  BY DEF ReplyIn
  <2>. QED  BY <1>2, <2>1, DecoderAssumption
<1>4. ReadingsOf(call.reply) = {d[2]}
  BY <1>2, <1>3, DecoderAssumption DEF AdapterOK
<1> HIDE DEF d
<1>5. /\ Get(d[2], "plaintext_sha256") = Str(Sha256[Hex[Get(d[2], "plaintext")[2]]])
      /\ \A k \in {"profile_revision", "plugin_digest", "age_digest"} : Get(d[2], k) = Str(Request[k])
  BY <1>2 DEF Diagnosis, Differs
<1>6. \E v \in ReadingsOf(call.reply) :
         /\ ReadingsOf(call.reply) = {v} /\ worker.status = 0
         /\ Str(Sha256[Hex[Get(v, "plaintext")[2]]]) = Get(v, "plaintext_sha256")
         /\ \A k \in DOMAIN Request : Get(v, k) = Str(Request[k])
  BY <1>2, <1>4, <1>5, RequestAssumption
<1>. QED  BY <1>1, <1>6 DEF Faithful

\* And it remains one: the worker behind it is gone.
LEMMA ResultKept ==
  ASSUME SurvivorInv, OutcomeInv, outcome = "result", call' = call,
         worker' = worker \/ worker.state \in {"launching", "running"}
  PROVE  Faithful'
<1>1. pc = "done" /\ outcome \notin Hasty  BY DEF OutcomeInv, Hasty
<1>2. worker' = worker  BY <1>1 DEF SurvivorInv, Writable, Alive
<1>. QED  BY <1>2 DEF OutcomeInv, Faithful

\* What has been decided.
LEMMA OutcomeKept ==
  ASSUME AdapterOK, PipesOK, WorkerOK, StartInv, ProgramInv, SurvivorInv, OutcomeInv, LimitInv, ExchangeNext
  PROVE  OutcomeInv'
<1> USE DEF Here, Own, World, Keep, Refuse, Abandon, GoOn, Busy, Hasty
<1>1. CASE Launch  BY <1>1, LaunchMoves, ResultKept DEF OutcomeInv
<1>2. CASE Read  BY <1>2, ReadMoves, ResultKept DEF OutcomeInv
<1>3. CASE Write  BY <1>3, WriteMoves, ResultKept DEF OutcomeInv
<1>4. CASE Work  BY <1>4, WorkMoves, ResultKept DEF OutcomeInv
<1>5. CASE ChildEnds  BY <1>5, ResultKept DEF ChildEnds, Quiet, adapter, OutcomeInv
<1>6. CASE Construct  BY <1>6 DEF Construct, OutcomeInv
<1>7. CASE Unwrap  BY <1>7, UnwrapMoves DEF OutcomeInv
<1>8. CASE Select  BY <1>8 DEF Select, OutcomeInv
<1>9. CASE FeedStdin  BY <1>9, FeedMoves DEF OutcomeInv
<1>10. ASSUME NEW s \in Outputs, Drain(s) PROVE OutcomeInv'  BY <1>10, DrainMoves DEF OutcomeInv
<1>11. CASE AwaitExit  BY <1>11 DEF AwaitExit, OutcomeInv
<1>12. CASE Deadline  BY <1>12, ResultKept DEF Deadline, adapter, OutcomeInv
<1>13. CASE Cleanup  BY <1>13, CleanupMoves DEF OutcomeInv
<1>14. CASE Admit
  <2>1. pc' = "done"  BY <1>14 DEF Admit
  <2>. QED  BY <1>14, <2>1, AdmittedIsFaithful DEF OutcomeInv
<1>. QED  BY <1>1, <1>2, <1>3, <1>4, <1>5, <1>6, <1>7, <1>8, <1>9, <1>10, <1>11, <1>12, <1>13, <1>14 DEF ExchangeNext

\* The invariant holds initially, ...
LEMMA InitExchange ==
  ASSUME Init
  PROVE  ExchangeInv
<1> USE DEF Init, Empty
<1>a. call.size \in Nat /\ call.maxOut[2] \in Int /\ PipeSize \in Nat  BY CallsAssumption, ExchangeAssumption
<1>b. \A S : <<>> \in Seq(S) /\ Len(<<>>) = 0  OBVIOUS
<1>1. AdapterOK  BY <1>a, <1>b DEF AdapterOK, Busy
<1>2. PipesOK  BY <1>a, <1>b DEF PipesOK, Pipes, Outputs
<1>3. WorkerOK  BY <1>b DEF WorkerOK
<1>4. StartInv  BY DEF StartInv, Busy, Outputs
<1>5. ProgramInv /\ SurvivorInv  BY DEF ProgramInv, SurvivorInv, Writable, Alive, Hasty
<1>6. InputInv
  <2>1. worker.got = <<>> /\ pipe["stdin"] = <<>> /\ offset = 0  OBVIOUS
  <2>2. SubSeq(Envelope, 1, 0) = <<>>
    <3>1. Envelope \in Seq(Nat)  BY EnvelopeTyped, <1>1
    <3>. QED  BY <3>1, SubSeqEmpty
  <2>3. <<>> \o <<>> = <<>>  OBVIOUS
  <2>. QED  BY <2>1, <2>2, <2>3 DEF InputInv, Busy
<1>7. OutputInv
  <2>1. <<>> \o <<>> = <<>>  OBVIOUS
  <2>. QED  BY <2>1 DEF OutputInv, Outputs, Busy, Hasty
<1>8. LimitInv  BY DEF LimitInv, Busy
<1>9. OutcomeInv  BY DEF OutcomeInv, Busy, Hasty
<1>. QED  BY <1>1, <1>2, <1>3, <1>4, <1>5, <1>6, <1>7, <1>8, <1>9 DEF ExchangeInv

\* ... and every step keeps it.
LEMMA StepKeepsExchange ==
  ASSUME ExchangeInv, [CheckNext]_checkVars
  PROVE  ExchangeInv'
<1>1. CASE ExchangeNext
  <2>1. /\ AdapterOK /\ PipesOK /\ WorkerOK /\ StartInv /\ ProgramInv /\ SurvivorInv
        /\ InputInv /\ OutputInv /\ LimitInv /\ OutcomeInv
    BY DEF ExchangeInv
  <2>2. AdapterOK' /\ PipesOK'  BY <1>1, <2>1, AdapterKept, PipesKept
  <2>3. WorkerOK' /\ ProgramInv'  BY <1>1, <2>1, WorkerStaysTyped, ProgramKept
  <2>4. StartInv' /\ SurvivorInv'  BY <1>1, <2>1, StartKept, SurvivorKept
  <2>5. InputInv'  BY <1>1, <2>1, InputKept
  <2>6. OutputInv'  BY <1>1, <2>1, OutputKept
  <2>7. LimitInv' /\ OutcomeInv'  BY <1>1, <2>1, LimitKept, OutcomeKept
  <2>. QED  BY <2>2, <2>3, <2>4, <2>5, <2>6, <2>7 DEF ExchangeInv
<1>2. CASE UNCHANGED vars
  <2> USE <1>2 DEF vars, ExchangeInv
  <2>1. AdapterOK' /\ PipesOK' /\ WorkerOK'  BY DEF AdapterOK, PipesOK, WorkerOK
  <2>2. StartInv' /\ LimitInv'  BY DEF StartInv, LimitInv
  <2>3. ProgramInv'  BY DEF ProgramInv, Program
  <2>4. SurvivorInv' /\ OutputInv'  BY DEF SurvivorInv, OutputInv, Writable, Alive
  <2>5. InputInv'  BY DEF InputInv, Envelope
  <2>6. OutcomeInv'  BY DEF OutcomeInv, Faithful
  <2>. QED  BY <2>1, <2>2, <2>3, <2>4, <2>5, <2>6
<1>. QED  BY <1>1, <1>2, StepOfTheExchange

THEOREM ExchangeInvariant == CheckSpec => []ExchangeInv
<1>1. CheckInit => ExchangeInv  BY InitExchange DEF CheckInit
<1>2. ExchangeInv /\ [CheckNext]_checkVars => ExchangeInv'  BY StepKeepsExchange
<1>. QED  BY <1>1, <1>2, PTL DEF CheckSpec

-----------------------------------------------------------------------------
\* What it means.

\* The greater of two numbers.
LEMMA MaxOfTwo ==
  ASSUME NEW a \in Int, NEW b \in Int
  PROVE  a <= Max({a, b}) /\ b <= Max({a, b}) /\ Max({a, b}) \in Int
<1>1. \E x \in {a, b} : \A y \in {a, b} : x >= y
  <2>1. CASE a <= b  BY <2>1
  <2>2. CASE b <= a  BY <2>2
  <2>. QED  BY <2>1, <2>2
<1>. QED  BY <1>1 DEF Max

LEMMA TypesFollow ==
  ASSUME ExchangeInv
  PROVE  TypeOK
<1> USE DEF ExchangeInv
<1>1. /\ registered \subseteq Outputs \union {"stdin"} /\ (Here("events") => ready # {} /\ ready \subseteq registered)
      /\ offset \in 0 .. call.size
      /\ \A s \in DOMAIN pipe : Len(pipe[s]) <= PipeSize
      /\ worker.environment \subseteq Allowed
  BY DEF AdapterOK, PipesOK, WorkerOK, Pipes, Here
<1>2. ASSUME NEW s \in Outputs PROVE Len(buffer[s]) <= Max({0, call.maxOut[2] + 1})
  <2>1. call.maxOut[2] \in Int /\ buffer[s] \in Seq(Units)  BY CallsAssumption DEF AdapterOK
  <2> DEFINE m == call.maxOut[2] + 1
             top == Max({0, m})
  <2>2. m \in Int  BY <2>1
  <2> HIDE DEF m
  <2>3. 0 <= top /\ m <= top /\ top \in Int  BY <2>2, MaxOfTwo
  <2> HIDE DEF top
  <2>4. CASE buffer[s] = <<>>
    <3>1. Len(buffer[s]) = 0  BY <2>4
    <3>. QED  BY <3>1, <2>3 DEF top, m
  <2>5. CASE Len(buffer[s]) <= call.maxOut[2] + 1
    <3>1. Len(buffer[s]) \in Nat  BY <2>1, LenProperties
    <3>2. Len(buffer[s]) <= m  BY <2>5 DEF m
    <3>3. Len(buffer[s]) <= top  BY <2>2, <2>3, <3>1, <3>2
    <3>. QED  BY <3>3 DEF top, m
  <2>. QED  BY <2>4, <2>5 DEF LimitInv
<1>. QED  BY <1>1, <1>2 DEF TypeOK

LEMMA DeliveryFollows ==
  ASSUME ExchangeInv
  PROVE  DeliversFaithfully
<1> USE DEF ExchangeInv
<1>1. TypeOK  BY TypesFollow
<1>2. worker.got = SubSeq(Envelope, 1, Len(worker.got))
  <2> DEFINE g == worker.got
             p == pipe["stdin"]
             q == Envelope
  <2>1. q \in Seq(Nat) /\ offset \in 0 .. Len(q)  BY EnvelopeTyped
  <2>2. g \in Seq(Nat) /\ p \in Seq(Nat)  BY DEF WorkerOK, PipesOK
  <2>3. g \o p = SubSeq(q, 1, offset)  BY DEF InputInv
  <2> HIDE DEF g, p, q
  <2>4. g = SubSeq(q, 1, Len(g))  BY <2>1, <2>2, <2>3, PrefixOfPrefix
  <2>. QED  BY <2>4 DEF g, q
<1>3. worker.eof => worker.got = Envelope \/ outcome = "worker cleanup failure"  BY DEF InputInv
<1>4. ASSUME outcome \notin Hasty PROVE buffer.stdout = written.stdout
  <2>1. pipe["stdout"] = <<>> /\ written["stdout"] = buffer["stdout"] \o pipe["stdout"] /\ buffer["stdout"] \in Seq(Units)
    BY <1>4 DEF OutputInv, Outputs, AdapterOK
  <2>. QED  BY <2>1, ConcatEmptySeq
<1>5. outcome = "result" => Faithful  BY DEF OutcomeInv
<1>. QED  BY <1>1, <1>2, <1>3, <1>4, <1>5 DEF DeliversFaithfully, Faithful

LEMMA NoJam ==
  ASSUME ExchangeInv
  PROVE  ExchangeNeverJams
<1> SUFFICES ASSUME Here("select"), registered # {}, Stopped PROVE Ready # {}
  BY DEF ExchangeNeverJams
<1>1. /\ AdapterOK /\ PipesOK /\ WorkerOK /\ ProgramInv /\ OutputInv  BY DEF ExchangeInv
<1>2. Running /\ Writable  BY DEF Stopped, Does, Running, Writable, Alive
<1>3. \A s \in Outputs : s \in registered  BY <1>1, <1>2 DEF OutputInv, Here, Busy
<1>4. PipeSize \in Nat \ {0}  BY ExchangeAssumption
<1>5. CASE Does("write") /\ Len(pipe[Step[2]]) = PipeSize
  <2>1. Step[2] \in Outputs  BY <1>1, <1>2, <1>5, InstructionFacts DEF Does
  <2>2. pipe[Step[2]] # <<>>
    <3>1. Len(<<>>) = 0  OBVIOUS
    <3>. QED  BY <1>4, <1>5, <3>1
  <2>3. Step[2] # "stdin"  BY <2>1 DEF Outputs
  <2>. QED  BY <1>3, <2>1, <2>2, <2>3 DEF Ready, Reported
<1>6. CASE pipe.stdin = <<>> /\ "stdin" \in registered
  <2>1. Len(pipe["stdin"]) < PipeSize
    <3>1. Len(<<>>) = 0  OBVIOUS
    <3>. QED  BY <1>4, <1>6, <3>1
  <2>. QED  BY <1>6, <2>1 DEF Ready, Reported
<1>. QED  BY <1>5, <1>6 DEF Stopped

\* The worker reads the envelope in order and takes its end for the end only
\* when all has come, the answer is judged on everything that was written, and
\* a result is the reply's only reading: _bounded_communicate and unwrap, for
\* every size of pipe and read, every limit and every envelope.
THEOREM DeliversFaithfullyHolds == CheckSpec => []DeliversFaithfully
<1>1. ExchangeInv => DeliversFaithfully  BY DeliveryFollows
<1>. QED  BY <1>1, ExchangeInvariant, PTL

\* The rounds of select never wait for a worker that waits for them, however
\* much the two have to say to each other at once.
THEOREM ExchangeNeverJamsHolds == CheckSpec => []ExchangeNeverJams
<1>1. ExchangeInv => ExchangeNeverJams  BY NoJam
<1>. QED  BY <1>1, ExchangeInvariant, PTL

-----------------------------------------------------------------------------
\* The check passes: what holds of it while the machine keeps its times.

\* The cases by what becomes of them.
Refused == LastCases
Stuck == {"timeout", "lingering-child", "oversized-stdout", "oversized-stderr", "early-close"}
Judged == CheckedCases \ (Refused \union Stuck \union {"cleanup-denied"})

\* Where a worker comes to the end of its input, and where it sleeps.
InputEnd == IF call.case = "duplex" THEN 5 ELSE 2
SleepsAt == IF call.case = "timeout" THEN 3 ELSE 5

\* How far the worker gets, and how it ends.
PlaceInv ==
    /\ worker.at \in 1 .. Len(Program)
    /\ worker.state = "exited" /\ pc # "done" => Program[worker.at] = <<"exit", worker.status>>
    /\ worker.state = "killed" => pc \in {"admit", "done"}
    /\ call.case = "crash" => worker.at <= 3
    /\ call.case \in Sleepers /\ ~expired => worker.at <= SleepsAt
    /\ expired => call.case \in {"timeout", "lingering-child"}

\* What it has read of its input when it gets there.
ListensInv ==
    /\ worker.eof => "stdin" \notin registered
    /\ worker.at > InputEnd /\ call.case # "early-close" => worker.eof
    /\ worker.closed => call.case = "early-close"
    /\ call.case = "early-close" => Len(worker.got) < 2 /\ (worker.at = 1 => worker.got = <<>>)

\* What it has written then.
Said == <<<<>>, <<>>, <<"pad">>, <<"pad", "pad">>, <<"pad", "pad", "pad">>, <<"pad", "pad", "pad">>, <<"pad", "pad", "pad", "reply">>>>
SaysInv ==
    /\ call.case # "oversized-stderr" => written.stderr = <<>>
    /\ call.case \notin {"duplex", "oversized-stdout"} =>
          written.stdout = IF worker.at = Len(Program) THEN <<"reply">> ELSE <<>>
    /\ call.case = "duplex" => written.stdout = Said[worker.at]

\* Its children.
ChildInv ==
    /\ call.case = "lingering-child" /\ pc \notin {"admit", "done"} /\ worker.at > 3 => child = "holding"
    /\ Denied => child # "gone"
    /\ ~Denied /\ pc \in {"admit", "done"} => ~Alive /\ (call.case \notin Refused => child = "gone")

\* What the adapter is about, and what it has found.
CourseInv ==
    /\ pc \in {"select", "events", "await", "clean", "admit"} => call.case \notin Refused
    /\ pc = "unwrap" => call.case # "debugging"
    /\ pc = "events" /\ call.case = "timeout" => ready \subseteq {"stdin"}
    /\ pc \in {"select", "events", "await"} /\ call.case \in Stuck \ {"early-close"} => Outputs \subseteq registered
    /\ pc = "await" => call.case \notin Stuck
    /\ pc = "clean" => IF call.case \in Stuck THEN outcome \in Required(call.case) ELSE outcome = "none"
    /\ pc = "admit" => call.case \in Judged /\ worker.state = "exited"
    /\ pc = "done" => outcome \in Required(call.case)

TimedExchange ==
    /\ call \in CheckedCalls
    /\ PlaceInv /\ ListensInv /\ SaysInv /\ ChildInv /\ CourseInv

\* The markers.  A worker that writes when it likes is only waited for.
FreeInv ==
    /\ checker \in {"read", "judge", "poll", "ready", "finally", "passed"}
    /\ checker # "passed" => producer.does \in {"truncate", "write", "sleep"}
\* The producer waits, having announced the record it is at, for nothing yet
\* or for the byte that releases it.
Waits(n) == producer.at = n /\ producer.does = "await" /\ producer.status = "none" /\ labels = <<>> /\ marker = Stepwise[n]
\* The record that the probe is to see next is being written, or it is still to
\* be released.
Writing ==
    /\ plus = 0 /\ producer.at = reads + 1 /\ producer.status = "none"
    /\ \/ producer.does \in {"truncate", "write"} /\ labels = <<>>
       \/ producer.does = "announce" /\ labels = <<>> /\ marker = Stepwise[reads + 1]
       \/ producer.does = "await" /\ labels = <<reads + 1>> /\ marker = Stepwise[reads + 1]
StepwiseInv ==
    /\ checker \in {"barrier", "read", "judge", "poll", "ready", "collect", "finally", "passed"}
    /\ reads \in 0 .. 4
    /\ checker = "barrier" =>
          /\ reads < 4 /\ (reads > 0 => seen = Stepwise[reads])
          /\ Writing \/ (reads > 0 /\ plus = 1 /\ Waits(reads))
    /\ checker = "read" => reads < 4 /\ plus = 0 /\ Waits(reads + 1)
    /\ checker \in {"judge", "poll"} => reads > 0 /\ seen = Stepwise[reads] /\ plus = 0 /\ Waits(IF reads = 4 THEN 4 ELSE reads + 1)
    /\ checker = "poll" => reads < 4
    /\ checker = "ready" => reads = 4 /\ plus = 0 /\ Waits(4)
    /\ checker = "collect" => (plus = 1 /\ Waits(4)) \/ (producer.does = "exited" /\ producer.status = "zero")
    /\ checker \in {"finally", "passed"} => producer.does = "exited"

TimedMarkers ==
    /\ DOMAIN producer = {"at", "does", "status"} /\ ~late
    /\ (mode = "free" /\ FreeInv) \/ (mode = "stepwise" /\ StepwiseInv)

TimedInv ==
    timed => /\ stage \in {"markers", "limits", "exchange", "passed"}
             /\ stage = "markers" => TimedMarkers
             /\ TimedExchange

-----------------------------------------------------------------------------
\* Sequences.

\* Sequences that are written out, one behind the other: parts of the worker's
\* script, of one and one members.
LEMMA Join11 ==
  ASSUME NEW S, NEW a \in S, NEW b \in S
  PROVE  <<a>> \o <<b>> = <<a, b>>
<1> DEFINE u == <<a>>
           v == <<b>>
           x == <<a>> \o <<b>>
<1>1. u \in Seq(S) /\ Len(u) = 1 /\ u[1] = a  OBVIOUS
<1>2. v \in Seq(S) /\ Len(v) = 1 /\ v[1] = b  OBVIOUS
<1>3. x \in Seq(S) /\ Len(x) = 2 /\ x[1] = a /\ x[2] = b
  <2> HIDE DEF u, v
  <2>. QED  BY <1>1, <1>2, ConcatProperties DEF x
<1> HIDE DEF x
<1>4. x = <<a, b>>  BY <1>3
<1>. QED  BY <1>4 DEF x

\* The same of two members and one.
LEMMA Join21 ==
  ASSUME NEW S, NEW a \in S, NEW b \in S, NEW c \in S
  PROVE  <<a, b>> \o <<c>> = <<a, b, c>>
<1> DEFINE u == <<a, b>>
           v == <<c>>
           x == <<a, b>> \o <<c>>
<1>1. u \in Seq(S) /\ Len(u) = 2 /\ u[1] = a /\ u[2] = b  OBVIOUS
<1>2. v \in Seq(S) /\ Len(v) = 1 /\ v[1] = c  OBVIOUS
<1>3. x \in Seq(S) /\ Len(x) = 3 /\ x[1] = a /\ x[2] = b /\ x[3] = c
  <2> HIDE DEF u, v
  <2>. QED  BY <1>1, <1>2, ConcatProperties DEF x
<1> HIDE DEF x
<1>4. x = <<a, b, c>>  BY <1>3
<1>. QED  BY <1>4 DEF x

\* The same of three members and one.
LEMMA Join31 ==
  ASSUME NEW S, NEW a \in S, NEW b \in S, NEW c \in S, NEW d \in S
  PROVE  <<a, b, c>> \o <<d>> = <<a, b, c, d>>
<1> DEFINE u == <<a, b, c>>
           v == <<d>>
           x == <<a, b, c>> \o <<d>>
<1>1. u \in Seq(S) /\ Len(u) = 3 /\ u[1] = a /\ u[2] = b /\ u[3] = c  OBVIOUS
<1>2. v \in Seq(S) /\ Len(v) = 1 /\ v[1] = d  OBVIOUS
<1>3. x \in Seq(S) /\ Len(x) = 4 /\ x[1] = a /\ x[2] = b /\ x[3] = c /\ x[4] = d
  <2> HIDE DEF u, v
  <2>. QED  BY <1>1, <1>2, ConcatProperties DEF x
<1> HIDE DEF x
<1>4. x = <<a, b, c, d>>  BY <1>3
<1>. QED  BY <1>4 DEF x

\* The same of one members and three.
LEMMA Join13 ==
  ASSUME NEW S, NEW a \in S, NEW b \in S, NEW c \in S, NEW d \in S
  PROVE  <<a>> \o <<b, c, d>> = <<a, b, c, d>>
<1> DEFINE u == <<a>>
           v == <<b, c, d>>
           x == <<a>> \o <<b, c, d>>
<1>1. u \in Seq(S) /\ Len(u) = 1 /\ u[1] = a  OBVIOUS
<1>2. v \in Seq(S) /\ Len(v) = 3 /\ v[1] = b /\ v[2] = c /\ v[3] = d  OBVIOUS
<1>3. x \in Seq(S) /\ Len(x) = 4 /\ x[1] = a /\ x[2] = b /\ x[3] = c /\ x[4] = d
  <2> HIDE DEF u, v
  <2>. QED  BY <1>1, <1>2, ConcatProperties DEF x
<1> HIDE DEF x
<1>4. x = <<a, b, c, d>>  BY <1>3
<1>. QED  BY <1>4 DEF x

\* The same of four members and one.
LEMMA Join41 ==
  ASSUME NEW S, NEW a \in S, NEW b \in S, NEW c \in S, NEW d \in S, NEW e \in S
  PROVE  <<a, b, c, d>> \o <<e>> = <<a, b, c, d, e>>
<1> DEFINE u == <<a, b, c, d>>
           v == <<e>>
           x == <<a, b, c, d>> \o <<e>>
<1>1. u \in Seq(S) /\ Len(u) = 4 /\ u[1] = a /\ u[2] = b /\ u[3] = c /\ u[4] = d  OBVIOUS
<1>2. v \in Seq(S) /\ Len(v) = 1 /\ v[1] = e  OBVIOUS
<1>3. x \in Seq(S) /\ Len(x) = 5 /\ x[1] = a /\ x[2] = b /\ x[3] = c /\ x[4] = d /\ x[5] = e
  <2> HIDE DEF u, v
  <2>. QED  BY <1>1, <1>2, ConcatProperties DEF x
<1> HIDE DEF x
<1>4. x = <<a, b, c, d, e>>  BY <1>3
<1>. QED  BY <1>4 DEF x

\* The same of two members and two.
LEMMA Join22 ==
  ASSUME NEW S, NEW a \in S, NEW b \in S, NEW c \in S, NEW d \in S
  PROVE  <<a, b>> \o <<c, d>> = <<a, b, c, d>>
<1> DEFINE u == <<a, b>>
           v == <<c, d>>
           x == <<a, b>> \o <<c, d>>
<1>1. u \in Seq(S) /\ Len(u) = 2 /\ u[1] = a /\ u[2] = b  OBVIOUS
<1>2. v \in Seq(S) /\ Len(v) = 2 /\ v[1] = c /\ v[2] = d  OBVIOUS
<1>3. x \in Seq(S) /\ Len(x) = 4 /\ x[1] = a /\ x[2] = b /\ x[3] = c /\ x[4] = d
  <2> HIDE DEF u, v
  <2>. QED  BY <1>1, <1>2, ConcatProperties DEF x
<1> HIDE DEF x
<1>4. x = <<a, b, c, d>>  BY <1>3
<1>. QED  BY <1>4 DEF x

\* The same of three members and two.
LEMMA Join32 ==
  ASSUME NEW S, NEW a \in S, NEW b \in S, NEW c \in S, NEW d \in S, NEW e \in S
  PROVE  <<a, b, c>> \o <<d, e>> = <<a, b, c, d, e>>
<1> DEFINE u == <<a, b, c>>
           v == <<d, e>>
           x == <<a, b, c>> \o <<d, e>>
<1>1. u \in Seq(S) /\ Len(u) = 3 /\ u[1] = a /\ u[2] = b /\ u[3] = c  OBVIOUS
<1>2. v \in Seq(S) /\ Len(v) = 2 /\ v[1] = d /\ v[2] = e  OBVIOUS
<1>3. x \in Seq(S) /\ Len(x) = 5 /\ x[1] = a /\ x[2] = b /\ x[3] = c /\ x[4] = d /\ x[5] = e
  <2> HIDE DEF u, v
  <2>. QED  BY <1>1, <1>2, ConcatProperties DEF x
<1> HIDE DEF x
<1>4. x = <<a, b, c, d, e>>  BY <1>3
<1>. QED  BY <1>4 DEF x

\* The same of four members and two.
LEMMA Join42 ==
  ASSUME NEW S, NEW a \in S, NEW b \in S, NEW c \in S, NEW d \in S, NEW e \in S, NEW f \in S
  PROVE  <<a, b, c, d>> \o <<e, f>> = <<a, b, c, d, e, f>>
<1> DEFINE u == <<a, b, c, d>>
           v == <<e, f>>
           x == <<a, b, c, d>> \o <<e, f>>
<1>1. u \in Seq(S) /\ Len(u) = 4 /\ u[1] = a /\ u[2] = b /\ u[3] = c /\ u[4] = d  OBVIOUS
<1>2. v \in Seq(S) /\ Len(v) = 2 /\ v[1] = e /\ v[2] = f  OBVIOUS
<1>3. x \in Seq(S) /\ Len(x) = 6 /\ x[1] = a /\ x[2] = b /\ x[3] = c /\ x[4] = d /\ x[5] = e /\ x[6] = f
  <2> HIDE DEF u, v
  <2>. QED  BY <1>1, <1>2, ConcatProperties DEF x
<1> HIDE DEF x
<1>4. x = <<a, b, c, d, e, f>>  BY <1>3
<1>. QED  BY <1>4 DEF x

\* The same of two members and four.
LEMMA Join24 ==
  ASSUME NEW S, NEW a \in S, NEW b \in S, NEW c \in S, NEW d \in S, NEW e \in S, NEW f \in S
  PROVE  <<a, b>> \o <<c, d, e, f>> = <<a, b, c, d, e, f>>
<1> DEFINE u == <<a, b>>
           v == <<c, d, e, f>>
           x == <<a, b>> \o <<c, d, e, f>>
<1>1. u \in Seq(S) /\ Len(u) = 2 /\ u[1] = a /\ u[2] = b  OBVIOUS
<1>2. v \in Seq(S) /\ Len(v) = 4 /\ v[1] = c /\ v[2] = d /\ v[3] = e /\ v[4] = f  OBVIOUS
<1>3. x \in Seq(S) /\ Len(x) = 6 /\ x[1] = a /\ x[2] = b /\ x[3] = c /\ x[4] = d /\ x[5] = e /\ x[6] = f
  <2> HIDE DEF u, v
  <2>. QED  BY <1>1, <1>2, ConcatProperties DEF x
<1> HIDE DEF x
<1>4. x = <<a, b, c, d, e, f>>  BY <1>3
<1>. QED  BY <1>4 DEF x

\* Two members behind a sequence of any length.
LEMMA BehindTwo ==
  ASSUME NEW S, NEW u \in Seq(S), NEW a \in S, NEW b \in S
  PROVE  /\ u \o <<a, b>> \in Seq(S) /\ Len(u \o <<a, b>>) = Len(u) + 2
         /\ \A i \in 1 .. Len(u) : (u \o <<a, b>>)[i] = u[i]
         /\ (u \o <<a, b>>)[Len(u) + 1] = a /\ (u \o <<a, b>>)[Len(u) + 2] = b
<1> DEFINE v == <<a, b>>
<1>1. v \in Seq(S) /\ Len(v) = 2 /\ v[1] = a /\ v[2] = b  OBVIOUS
<1>2. Len(u) \in Nat  BY LenProperties
<1> HIDE DEF v
<1>3. u \o v \in Seq(S) /\ Len(u \o v) = Len(u) + 2  BY <1>1, <1>2, ConcatProperties
<1>4. \A i \in 1 .. Len(u) : (u \o v)[i] = u[i]  BY <1>1, <1>2, ConcatProperties
<1>5. (u \o v)[Len(u) + 1] = a /\ (u \o v)[Len(u) + 2] = b  BY <1>1, <1>2, ConcatProperties
<1>. QED  BY <1>3, <1>4, <1>5 DEF v

-----------------------------------------------------------------------------
\* The calls and scripts.

\* What the calls of the check have in common, and in what they differ.
CallIs(c) ==
    /\ c \in CheckedCases /\ call.case = c
    /\ call.size \in Nat /\ call.maxOut[2] \in Int
    /\ call.size = IF c \in {"duplex", "complete-input", "early-close"} THEN 2 * PipeSize + 1 ELSE IF c = "small-limit" THEN 2 ELSE 1
    /\ call.maxIn[1] = "int" /\ call.maxOut[1] = "int"
    /\ call.maxIn[2] = IF c \in {"oversized-stdout", "oversized-stderr", "small-limit"} THEN 1 ELSE 2 * PipeSize + 1
    /\ call.maxOut[2] = call.maxIn[2]
    /\ call.timeout = [type |-> "float", value |-> "positive"]
    /\ call.environment = (IF c = "debugging" THEN {"AGEDEBUG"} ELSE {"PATH", "SACRYSTY_TEST_NAME"})
    /\ call.command = "found" /\ ~call.masked /\ call.reply = Answer(c)

\* Each call of the check is that of its case, over pipes of two units or more.
LEMMA CallFacts ==
  ASSUME call \in CheckedCalls
  PROVE  CallIs(call.case) /\ PipeSize \in Nat /\ PipeSize > 1
<1>1. PICK c \in CheckedCases : call = MainCall(c)  BY DEF CheckedCalls
<1>2. PipeSize \in Nat /\ PipeSize > 1  BY CheckAssumption, ExchangeAssumption
<1>3. c = call.case  BY <1>1 DEF MainCall
<1>4. /\ call.size = IF c \in {"duplex", "complete-input", "early-close"} THEN 2 * PipeSize + 1 ELSE IF c = "small-limit" THEN 2 ELSE 1
      /\ call.maxIn = <<"int", IF c \in {"oversized-stdout", "oversized-stderr", "small-limit"} THEN 1 ELSE 2 * PipeSize + 1>>
      /\ call.maxOut = call.maxIn
  BY <1>1 DEF MainCall, Large
<1>5. /\ call.timeout = [type |-> "float", value |-> "positive"]
      /\ call.environment = (IF c = "debugging" THEN {"AGEDEBUG"} ELSE {"PATH", "SACRYSTY_TEST_NAME"})
      /\ call.command = "found" /\ ~call.masked /\ call.reply = Answer(c)
  BY <1>1 DEF MainCall
<1>. QED  BY <1>1, <1>2, <1>3, <1>4, <1>5 DEF CallIs

\* The worker's program in each of the cases.
Script(c) ==
    CASE c = "duplex" -> <<<<"line">>, <<"write", "stdout", "pad">>, <<"write", "stdout", "pad">>, <<"write", "stdout", "pad">>,
                           <<"rest">>, <<"write", "stdout", "reply">>, <<"exit", 0>>>>
      [] c = "complete-input" -> <<<<"line">>, <<"rest">>, <<"expect", call.size>>, <<"write", "stdout", "reply">>, <<"exit", 0>>>>
      [] c = "early-close" -> <<<<"line">>, <<"close">>, <<"write", "stdout", "reply">>, <<"exit", 0>>>>
      [] c = "crash" -> <<<<"line">>, <<"rest">>, <<"exit", 9>>, <<"write", "stdout", "reply">>, <<"exit", 0>>>>
      [] c = "timeout" -> <<<<"line">>, <<"rest">>, <<"sleep">>, <<"exit", 0>>, <<"write", "stdout", "reply">>, <<"exit", 0>>>>
      [] c = "oversized-stdout" -> <<<<"line">>, <<"rest">>, <<"write", "stdout", "junk">>, <<"write", "stdout", "junk">>, <<"sleep">>, <<"exit", 0>>,
                                     <<"write", "stdout", "reply">>, <<"exit", 0>>>>
      [] c = "oversized-stderr" -> <<<<"line">>, <<"rest">>, <<"write", "stderr", "junk">>, <<"write", "stderr", "junk">>, <<"sleep">>, <<"exit", 0>>,
                                     <<"write", "stdout", "reply">>, <<"exit", 0>>>>
      [] c = "lingering-child" -> <<<<"line">>, <<"rest">>, <<"spawn", "holding">>, <<"write", "stdout", "reply">>, <<"exit", 0>>>>
      [] c = "redirected-child" -> <<<<"line">>, <<"rest">>, <<"spawn", "apart">>, <<"write", "stdout", "reply">>, <<"exit", 0>>>>
      [] c = "cleanup-denied" -> <<<<"line">>, <<"rest">>, <<"spawn", "apart">>, <<"marker">>, <<"write", "stdout", "reply">>, <<"exit", 0>>>>
      [] c = "bad-uv" -> <<<<"line">>, <<"rest">>, <<"sleep">>, <<"write", "stdout", "reply">>, <<"exit", 0>>>>
      [] OTHER -> <<<<"line">>, <<"rest">>, <<"write", "stdout", "reply">>, <<"exit", 0>>>>

\* A worker without the variable that the environment must not pass on has the
\* script of its case for its program.
LEMMA ScriptOfCase ==
  ASSUME call \in CheckedCalls, worker.environment \subseteq Allowed
  PROVE  Program = Script(call.case)
<1> DEFINE c == call.case
           I == Instructions
           only(names, steps) == IF c \in names THEN steps ELSE <<>>
           line == <<"line">>
           rest == <<"rest">>
           pad == <<"write", "stdout", "pad">>
           out == <<"write", "stdout", "junk">>
           err == <<"write", "stderr", "junk">>
           reply == <<"write", "stdout", "reply">>
           zero == <<"exit", 0>>
           nine == <<"exit", 9>>
           shut == <<"close">>
           nap == <<"sleep">>
           mark == <<"marker">>
           hold == <<"spawn", "holding">>
           part == <<"spawn", "apart">>
           all == <<"expect", call.size>>
<1> SUFFICES Program = Script(c)  OBVIOUS
<1>0. CallIs(c)  BY CallFacts
<1>1. /\ line \in I /\ rest \in I /\ shut \in I /\ nap \in I /\ mark \in I /\ hold \in I /\ part \in I
      /\ pad \in I /\ out \in I /\ err \in I /\ reply \in I
  BY DEF Instructions, Outputs, Units
<1>2. zero \in I /\ nine \in I /\ all \in I
  BY <1>0 DEF Instructions, CallIs
<1> DEFINE p2 == only({"duplex"}, <<pad, pad, pad>>)
           p3 == IF c = "early-close" THEN <<shut>> ELSE <<rest>>
           p4 == only({"complete-input"}, <<all>>)
           p5 == only({"interrupt"}, <<hold, nap>>)
           p6 == only({"oversized-stdout"}, <<out, out, nap, zero>>)
           p7 == only({"oversized-stderr"}, <<err, err, nap, zero>>)
           p8 == only({"timeout"}, <<nap, zero>>)
           p9 == only({"lingering-child"}, <<hold>>)
           p10 == only({"redirected-child", "cleanup-denied"}, <<part>>)
           p11 == only({"cleanup-denied"}, <<mark>>)
           p12 == only({"crash"}, <<nine>>)
           p13 == only({"bad-uv"}, <<nap>>)
<1>3. Program = <<line>> \o <<>> \o p2 \o p3 \o p4 \o p5 \o p6 \o p7 \o p8 \o p9 \o p10 \o p11 \o p12 \o p13 \o <<reply, zero>>
  <2>1. "SACRYSTY_TEST_NAME" \notin worker.environment  BY DEF Allowed
  <2>. QED  BY <2>1 DEF Program
<1>4. \A s \in Seq(I) : s \o <<>> = s
  BY ConcatEmptySeq
<1>5. c # "interrupt"  BY <1>0 DEF CallIs, CheckedCases, LastCases
<1>6. Script(c) =
        CASE c = "duplex" -> <<line, pad, pad, pad, rest, reply, zero>>
          [] c = "complete-input" -> <<line, rest, all, reply, zero>>
          [] c = "early-close" -> <<line, shut, reply, zero>>
          [] c = "crash" -> <<line, rest, nine, reply, zero>>
          [] c = "timeout" -> <<line, rest, nap, zero, reply, zero>>
          [] c = "oversized-stdout" -> <<line, rest, out, out, nap, zero, reply, zero>>
          [] c = "oversized-stderr" -> <<line, rest, err, err, nap, zero, reply, zero>>
          [] c = "lingering-child" -> <<line, rest, hold, reply, zero>>
          [] c = "redirected-child" -> <<line, rest, part, reply, zero>>
          [] c = "cleanup-denied" -> <<line, rest, part, mark, reply, zero>>
          [] c = "bad-uv" -> <<line, rest, nap, reply, zero>>
          [] OTHER -> <<line, rest, reply, zero>>
  BY DEF Script
<1> HIDE DEF c, I, line, rest, pad, out, err, reply, zero, nine, shut, nap, mark, hold, part, all, p2, p3, p4, p5, p6, p7, p8, p9, p10, p11, p12, p13
<1>7. /\ <<line>> \in Seq(I) /\ <<line, rest>> \in Seq(I) /\ <<line, shut>> \in Seq(I)
      /\ <<line, pad, pad, pad>> \in Seq(I) /\ <<line, pad, pad, pad, rest>> \in Seq(I)
      /\ <<line, rest, all>> \in Seq(I) /\ <<line, rest, nine>> \in Seq(I) /\ <<line, rest, nap>> \in Seq(I)
      /\ <<line, rest, hold>> \in Seq(I) /\ <<line, rest, part>> \in Seq(I) /\ <<line, rest, part, mark>> \in Seq(I)
      /\ <<line, rest, nap, zero>> \in Seq(I)
      /\ <<line, rest, out, out, nap, zero>> \in Seq(I) /\ <<line, rest, err, err, nap, zero>> \in Seq(I)
  BY <1>1, <1>2
<1>4a. /\ <<line>> \o <<>> = <<line>>
       /\ <<line, rest>> \o <<>> = <<line, rest>>
       /\ <<line, shut>> \o <<>> = <<line, shut>>
       /\ <<line, pad, pad, pad>> \o <<>> = <<line, pad, pad, pad>>
       /\ <<line, pad, pad, pad, rest>> \o <<>> = <<line, pad, pad, pad, rest>>
       /\ <<line, rest, all>> \o <<>> = <<line, rest, all>>
       /\ <<line, rest, nine>> \o <<>> = <<line, rest, nine>>
       /\ <<line, rest, nap>> \o <<>> = <<line, rest, nap>>
       /\ <<line, rest, hold>> \o <<>> = <<line, rest, hold>>
       /\ <<line, rest, part>> \o <<>> = <<line, rest, part>>
       /\ <<line, rest, part, mark>> \o <<>> = <<line, rest, part, mark>>
       /\ <<line, rest, nap, zero>> \o <<>> = <<line, rest, nap, zero>>
       /\ <<line, rest, out, out, nap, zero>> \o <<>> = <<line, rest, out, out, nap, zero>>
       /\ <<line, rest, err, err, nap, zero>> \o <<>> = <<line, rest, err, err, nap, zero>>
  BY <1>4, <1>7
<1>8. <<line>> \o <<rest>> = <<line, rest>> /\ <<line>> \o <<shut>> = <<line, shut>>  BY <1>1, Join11
<1>9. CASE c = "duplex"
  <2>1. <<line>> \o <<pad, pad, pad>> = <<line, pad, pad, pad>>  BY <1>1, <1>2, Join13
  <2>2. <<line, pad, pad, pad>> \o <<rest>> = <<line, pad, pad, pad, rest>>  BY <1>1, <1>2, Join41
  <2>3. <<line, pad, pad, pad, rest>> \o <<reply, zero>> = <<line, pad, pad, pad, rest, reply, zero>>
    <3> DEFINE u == <<line, pad, pad, pad, rest>>
               x == u \o <<reply, zero>>
    <3>1. u \in Seq(I) /\ Len(u) = 5 /\ u[1] = line /\ u[2] = pad /\ u[3] = pad /\ u[4] = pad /\ u[5] = rest  BY <1>7
    <3>3. x \in Seq(I) /\ Len(x) = 7 /\ x[1] = line /\ x[2] = pad /\ x[3] = pad /\ x[4] = pad /\ x[5] = rest /\ x[6] = reply /\ x[7] = zero
      <4> HIDE DEF u
      <4>1. x \in Seq(I) /\ Len(x) = 7 /\ (\A i \in 1 .. 5 : x[i] = u[i]) /\ x[6] = reply /\ x[7] = zero
        <5>1. u \in Seq(I) /\ reply \in I /\ zero \in I  BY <1>1, <1>2, <3>1
        <5>2. /\ x \in Seq(I) /\ Len(x) = Len(u) + 2 /\ (\A i \in 1 .. Len(u) : x[i] = u[i])
              /\ x[Len(u) + 1] = reply /\ x[Len(u) + 2] = zero
          BY <5>1, BehindTwo
        <5> HIDE DEF x
        <5>. QED  BY <3>1, <5>2
      <4> HIDE DEF x
      <4>. QED  BY <3>1, <4>1
    <3> HIDE DEF x
    <3>4. x = <<line, pad, pad, pad, rest, reply, zero>>  BY <3>3
    <3>. QED  BY <3>4 DEF x
  <2>4. p2 = <<pad, pad, pad>> /\ p4 = <<>> /\ p5 = <<>> /\ p6 = <<>> /\ p7 = <<>> /\ p8 = <<>> /\ p9 = <<>> /\ p10 = <<>> /\ p11 = <<>> /\ p12 = <<>> /\ p13 = <<>> /\ p3 = <<rest>>
    BY <1>5, <1>9 DEF p2, p3, p4, p5, p6, p7, p8, p9, p10, p11, p12, p13
  <2>5. Program = <<line, pad, pad, pad, rest>> \o <<reply, zero>>  BY <1>3, <1>4a, <1>8, <2>4, <2>1, <2>2
  <2>. QED  BY <1>6, <1>9, <2>3, <2>5
<1>10. CASE c = "complete-input"
  <2>1. <<line, rest>> \o <<all>> = <<line, rest, all>>  BY <1>1, <1>2, Join21
  <2>2. <<line, rest, all>> \o <<reply, zero>> = <<line, rest, all, reply, zero>>  BY <1>1, <1>2, Join32
  <2>3. p2 = <<>> /\ p4 = <<all>> /\ p5 = <<>> /\ p6 = <<>> /\ p7 = <<>> /\ p8 = <<>> /\ p9 = <<>> /\ p10 = <<>> /\ p11 = <<>> /\ p12 = <<>> /\ p13 = <<>> /\ p3 = <<rest>>
    BY <1>5, <1>10 DEF p2, p3, p4, p5, p6, p7, p8, p9, p10, p11, p12, p13
  <2>4. Program = <<line, rest, all>> \o <<reply, zero>>  BY <1>3, <1>4a, <1>8, <2>3, <2>1
  <2>. QED  BY <1>6, <1>10, <2>2, <2>4
<1>11. CASE c = "early-close"
  <2>1. <<line, shut>> \o <<reply, zero>> = <<line, shut, reply, zero>>  BY <1>1, <1>2, Join22
  <2>2. p2 = <<>> /\ p4 = <<>> /\ p5 = <<>> /\ p6 = <<>> /\ p7 = <<>> /\ p8 = <<>> /\ p9 = <<>> /\ p10 = <<>> /\ p11 = <<>> /\ p12 = <<>> /\ p13 = <<>> /\ p3 = <<shut>>
    BY <1>5, <1>11 DEF p2, p3, p4, p5, p6, p7, p8, p9, p10, p11, p12, p13
  <2>3. Program = <<line, shut>> \o <<reply, zero>>  BY <1>3, <1>4a, <1>8, <2>2
  <2>. QED  BY <1>6, <1>11, <2>1, <2>3
<1>12. CASE c = "crash"
  <2>1. <<line, rest>> \o <<nine>> = <<line, rest, nine>>  BY <1>1, <1>2, Join21
  <2>2. <<line, rest, nine>> \o <<reply, zero>> = <<line, rest, nine, reply, zero>>  BY <1>1, <1>2, Join32
  <2>3. p2 = <<>> /\ p4 = <<>> /\ p5 = <<>> /\ p6 = <<>> /\ p7 = <<>> /\ p8 = <<>> /\ p9 = <<>> /\ p10 = <<>> /\ p11 = <<>> /\ p12 = <<nine>> /\ p13 = <<>> /\ p3 = <<rest>>
    BY <1>5, <1>12 DEF p2, p3, p4, p5, p6, p7, p8, p9, p10, p11, p12, p13
  <2>4. Program = <<line, rest, nine>> \o <<reply, zero>>  BY <1>3, <1>4a, <1>8, <2>3, <2>1
  <2>. QED  BY <1>6, <1>12, <2>2, <2>4
<1>13. CASE c = "timeout"
  <2>1. <<line, rest>> \o <<nap, zero>> = <<line, rest, nap, zero>>  BY <1>1, <1>2, Join22
  <2>2. <<line, rest, nap, zero>> \o <<reply, zero>> = <<line, rest, nap, zero, reply, zero>>  BY <1>1, <1>2, Join42
  <2>3. p2 = <<>> /\ p4 = <<>> /\ p5 = <<>> /\ p6 = <<>> /\ p7 = <<>> /\ p8 = <<nap, zero>> /\ p9 = <<>> /\ p10 = <<>> /\ p11 = <<>> /\ p12 = <<>> /\ p13 = <<>> /\ p3 = <<rest>>
    BY <1>5, <1>13 DEF p2, p3, p4, p5, p6, p7, p8, p9, p10, p11, p12, p13
  <2>4. Program = <<line, rest, nap, zero>> \o <<reply, zero>>  BY <1>3, <1>4a, <1>8, <2>3, <2>1
  <2>. QED  BY <1>6, <1>13, <2>2, <2>4
<1>14. CASE c = "oversized-stdout"
  <2>1. <<line, rest>> \o <<out, out, nap, zero>> = <<line, rest, out, out, nap, zero>>  BY <1>1, <1>2, Join24
  <2>2. <<line, rest, out, out, nap, zero>> \o <<reply, zero>> = <<line, rest, out, out, nap, zero, reply, zero>>
    <3> DEFINE u == <<line, rest, out, out, nap, zero>>
               x == u \o <<reply, zero>>
    <3>1. u \in Seq(I) /\ Len(u) = 6 /\ u[1] = line /\ u[2] = rest /\ u[3] = out /\ u[4] = out /\ u[5] = nap /\ u[6] = zero  BY <1>7
    <3>3. x \in Seq(I) /\ Len(x) = 8 /\ x[1] = line /\ x[2] = rest /\ x[3] = out /\ x[4] = out /\ x[5] = nap /\ x[6] = zero /\ x[7] = reply /\ x[8] = zero
      <4> HIDE DEF u
      <4>1. x \in Seq(I) /\ Len(x) = 8 /\ (\A i \in 1 .. 6 : x[i] = u[i]) /\ x[7] = reply /\ x[8] = zero
        <5>1. u \in Seq(I) /\ reply \in I /\ zero \in I  BY <1>1, <1>2, <3>1
        <5>2. /\ x \in Seq(I) /\ Len(x) = Len(u) + 2 /\ (\A i \in 1 .. Len(u) : x[i] = u[i])
              /\ x[Len(u) + 1] = reply /\ x[Len(u) + 2] = zero
          BY <5>1, BehindTwo
        <5> HIDE DEF x
        <5>. QED  BY <3>1, <5>2
      <4> HIDE DEF x
      <4>. QED  BY <3>1, <4>1
    <3> HIDE DEF x
    <3>4. x = <<line, rest, out, out, nap, zero, reply, zero>>  BY <3>3
    <3>. QED  BY <3>4 DEF x
  <2>3. p2 = <<>> /\ p4 = <<>> /\ p5 = <<>> /\ p6 = <<out, out, nap, zero>> /\ p7 = <<>> /\ p8 = <<>> /\ p9 = <<>> /\ p10 = <<>> /\ p11 = <<>> /\ p12 = <<>> /\ p13 = <<>> /\ p3 = <<rest>>
    BY <1>5, <1>14 DEF p2, p3, p4, p5, p6, p7, p8, p9, p10, p11, p12, p13
  <2>4. Program = <<line, rest, out, out, nap, zero>> \o <<reply, zero>>  BY <1>3, <1>4a, <1>8, <2>3, <2>1
  <2>. QED  BY <1>6, <1>14, <2>2, <2>4
<1>15. CASE c = "oversized-stderr"
  <2>1. <<line, rest>> \o <<err, err, nap, zero>> = <<line, rest, err, err, nap, zero>>  BY <1>1, <1>2, Join24
  <2>2. <<line, rest, err, err, nap, zero>> \o <<reply, zero>> = <<line, rest, err, err, nap, zero, reply, zero>>
    <3> DEFINE u == <<line, rest, err, err, nap, zero>>
               x == u \o <<reply, zero>>
    <3>1. u \in Seq(I) /\ Len(u) = 6 /\ u[1] = line /\ u[2] = rest /\ u[3] = err /\ u[4] = err /\ u[5] = nap /\ u[6] = zero  BY <1>7
    <3>3. x \in Seq(I) /\ Len(x) = 8 /\ x[1] = line /\ x[2] = rest /\ x[3] = err /\ x[4] = err /\ x[5] = nap /\ x[6] = zero /\ x[7] = reply /\ x[8] = zero
      <4> HIDE DEF u
      <4>1. x \in Seq(I) /\ Len(x) = 8 /\ (\A i \in 1 .. 6 : x[i] = u[i]) /\ x[7] = reply /\ x[8] = zero
        <5>1. u \in Seq(I) /\ reply \in I /\ zero \in I  BY <1>1, <1>2, <3>1
        <5>2. /\ x \in Seq(I) /\ Len(x) = Len(u) + 2 /\ (\A i \in 1 .. Len(u) : x[i] = u[i])
              /\ x[Len(u) + 1] = reply /\ x[Len(u) + 2] = zero
          BY <5>1, BehindTwo
        <5> HIDE DEF x
        <5>. QED  BY <3>1, <5>2
      <4> HIDE DEF x
      <4>. QED  BY <3>1, <4>1
    <3> HIDE DEF x
    <3>4. x = <<line, rest, err, err, nap, zero, reply, zero>>  BY <3>3
    <3>. QED  BY <3>4 DEF x
  <2>3. p2 = <<>> /\ p4 = <<>> /\ p5 = <<>> /\ p6 = <<>> /\ p7 = <<err, err, nap, zero>> /\ p8 = <<>> /\ p9 = <<>> /\ p10 = <<>> /\ p11 = <<>> /\ p12 = <<>> /\ p13 = <<>> /\ p3 = <<rest>>
    BY <1>5, <1>15 DEF p2, p3, p4, p5, p6, p7, p8, p9, p10, p11, p12, p13
  <2>4. Program = <<line, rest, err, err, nap, zero>> \o <<reply, zero>>  BY <1>3, <1>4a, <1>8, <2>3, <2>1
  <2>. QED  BY <1>6, <1>15, <2>2, <2>4
<1>16. CASE c = "lingering-child"
  <2>1. <<line, rest>> \o <<hold>> = <<line, rest, hold>>  BY <1>1, <1>2, Join21
  <2>2. <<line, rest, hold>> \o <<reply, zero>> = <<line, rest, hold, reply, zero>>  BY <1>1, <1>2, Join32
  <2>3. p2 = <<>> /\ p4 = <<>> /\ p5 = <<>> /\ p6 = <<>> /\ p7 = <<>> /\ p8 = <<>> /\ p9 = <<hold>> /\ p10 = <<>> /\ p11 = <<>> /\ p12 = <<>> /\ p13 = <<>> /\ p3 = <<rest>>
    BY <1>5, <1>16 DEF p2, p3, p4, p5, p6, p7, p8, p9, p10, p11, p12, p13
  <2>4. Program = <<line, rest, hold>> \o <<reply, zero>>  BY <1>3, <1>4a, <1>8, <2>3, <2>1
  <2>. QED  BY <1>6, <1>16, <2>2, <2>4
<1>17. CASE c = "redirected-child"
  <2>1. <<line, rest>> \o <<part>> = <<line, rest, part>>  BY <1>1, <1>2, Join21
  <2>2. <<line, rest, part>> \o <<reply, zero>> = <<line, rest, part, reply, zero>>  BY <1>1, <1>2, Join32
  <2>3. p2 = <<>> /\ p4 = <<>> /\ p5 = <<>> /\ p6 = <<>> /\ p7 = <<>> /\ p8 = <<>> /\ p9 = <<>> /\ p10 = <<part>> /\ p11 = <<>> /\ p12 = <<>> /\ p13 = <<>> /\ p3 = <<rest>>
    BY <1>5, <1>17 DEF p2, p3, p4, p5, p6, p7, p8, p9, p10, p11, p12, p13
  <2>4. Program = <<line, rest, part>> \o <<reply, zero>>  BY <1>3, <1>4a, <1>8, <2>3, <2>1
  <2>. QED  BY <1>6, <1>17, <2>2, <2>4
<1>18. CASE c = "cleanup-denied"
  <2>1. <<line, rest>> \o <<part>> = <<line, rest, part>>  BY <1>1, <1>2, Join21
  <2>2. <<line, rest, part>> \o <<mark>> = <<line, rest, part, mark>>  BY <1>1, <1>2, Join31
  <2>3. <<line, rest, part, mark>> \o <<reply, zero>> = <<line, rest, part, mark, reply, zero>>  BY <1>1, <1>2, Join42
  <2>4. p2 = <<>> /\ p4 = <<>> /\ p5 = <<>> /\ p6 = <<>> /\ p7 = <<>> /\ p8 = <<>> /\ p9 = <<>> /\ p10 = <<part>> /\ p11 = <<mark>> /\ p12 = <<>> /\ p13 = <<>> /\ p3 = <<rest>>
    BY <1>5, <1>18 DEF p2, p3, p4, p5, p6, p7, p8, p9, p10, p11, p12, p13
  <2>5. Program = <<line, rest, part, mark>> \o <<reply, zero>>  BY <1>3, <1>4a, <1>8, <2>4, <2>1, <2>2
  <2>. QED  BY <1>6, <1>18, <2>3, <2>5
<1>19. CASE c = "bad-uv"
  <2>1. <<line, rest>> \o <<nap>> = <<line, rest, nap>>  BY <1>1, <1>2, Join21
  <2>2. <<line, rest, nap>> \o <<reply, zero>> = <<line, rest, nap, reply, zero>>  BY <1>1, <1>2, Join32
  <2>3. p2 = <<>> /\ p4 = <<>> /\ p5 = <<>> /\ p6 = <<>> /\ p7 = <<>> /\ p8 = <<>> /\ p9 = <<>> /\ p10 = <<>> /\ p11 = <<>> /\ p12 = <<>> /\ p13 = <<nap>> /\ p3 = <<rest>>
    BY <1>5, <1>19 DEF p2, p3, p4, p5, p6, p7, p8, p9, p10, p11, p12, p13
  <2>4. Program = <<line, rest, nap>> \o <<reply, zero>>  BY <1>3, <1>4a, <1>8, <2>3, <2>1
  <2>. QED  BY <1>6, <1>19, <2>2, <2>4
<1>20. CASE c \notin {"duplex", "complete-input", "early-close", "crash", "timeout", "oversized-stdout", "oversized-stderr", "lingering-child", "redirected-child", "cleanup-denied", "bad-uv"}
  <2>1. <<line, rest>> \o <<reply, zero>> = <<line, rest, reply, zero>>  BY <1>1, <1>2, Join22
  <2>2. p2 = <<>> /\ p4 = <<>> /\ p5 = <<>> /\ p6 = <<>> /\ p7 = <<>> /\ p8 = <<>> /\ p9 = <<>> /\ p10 = <<>> /\ p11 = <<>> /\ p12 = <<>> /\ p13 = <<>> /\ p3 = <<rest>>
    BY <1>5, <1>20 DEF p2, p3, p4, p5, p6, p7, p8, p9, p10, p11, p12, p13
  <2>3. Program = <<line, rest>> \o <<reply, zero>>  BY <1>3, <1>4a, <1>8, <2>2
  <2>. QED  BY <1>6, <1>20, <2>1, <2>3
<1>. QED  BY <1>9, <1>10, <1>11, <1>12, <1>13, <1>14, <1>15, <1>16, <1>17, <1>18, <1>19, <1>20

-----------------------------------------------------------------------------
\* The instructions.

\* Which instruction is where.
Placed(c, n, last, i) ==
    /\ last \in Nat /\ n \in 1 .. last
    /\ i[1] = "line" <=> n = 1
    /\ i[1] = "rest" <=> n = InputEnd /\ c # "early-close"
    /\ i[1] = "close" => c = "early-close"
    /\ i[1] = "spawn" => n = 3
    /\ i[1] = "marker" => c = "cleanup-denied"
    /\ i[1] = "expect" => n = 3 /\ c = "complete-input" /\ i[2] = call.size /\ InputEnd = 2
    /\ c = "lingering-child" /\ n = 3 => i = <<"spawn", "holding">>
    /\ c = "crash" /\ n = 3 => i = <<"exit", 9>>
    /\ c \in Sleepers /\ n = SleepsAt => i = <<"sleep">>
    /\ i[1] = "exit" => /\ n > InputEnd
                        /\ c = "lingering-child" => n > 3
                        /\ c \in Sleepers => n > SleepsAt
                        /\ c \notin Sleepers \union {"crash"} => n = last /\ i[2] = 0
                        /\ c = "crash" /\ n <= 3 => i[2] = 9

\* Which of them write what.
Writes(c, n, last, i) ==
    /\ last > 2 /\ (c = "duplex" => last = 7)
    /\ i[1] = "write" => \/ n = last - 1 /\ i[2] = "stdout" /\ i[3] = "reply"
                         \/ c = "duplex" /\ n \in 2 .. 4 /\ i[2] = "stdout" /\ i[3] = "pad"
                         \/ c = "oversized-stdout" /\ i[2] = "stdout"
                         \/ c = "oversized-stderr" /\ i[2] = "stderr"
    /\ n = last - 1 => i[1] = "write" /\ i[2] = "stdout"
    /\ c = "oversized-stderr" /\ n = last - 1 => n > SleepsAt
    /\ c = "duplex" /\ n \in 2 .. 4 => i[1] = "write"

\* In each case an instruction stands only where the script has it.
LEMMA Instructed ==
  ASSUME call \in CheckedCalls, WorkerOK, worker.at \in 1 .. Len(Program)
  PROVE  Placed(call.case, worker.at, Len(Program), Step) /\ Writes(call.case, worker.at, Len(Program), Step)
<1> DEFINE c == call.case
           n == worker.at
           p == Program
           i == p[n]
<1>0. c \in CheckedCases  BY CallFacts DEF CallIs
<1>1. p = Script(c)  BY ScriptOfCase DEF WorkerOK
<1>2. n \in 1 .. Len(p) /\ i = Step  BY DEF Step
<1> SUFFICES Placed(c, n, Len(p), i) /\ Writes(c, n, Len(p), i)  BY <1>2
<1> HIDE DEF c, n, p
<1>3. CASE c = "duplex"
  <2>1. p = <<<<"line">>, <<"write", "stdout", "pad">>, <<"write", "stdout", "pad">>, <<"write", "stdout", "pad">>, <<"rest">>, <<"write", "stdout", "reply">>, <<"exit", 0>>>>  BY <1>1, <1>3 DEF Script
  <2>2. Len(p) = 7 /\ n \in 1 .. 7  BY <2>1, <1>2
  <2>3. c \notin Sleepers /\ InputEnd = 5  BY <1>3 DEF Sleepers, InputEnd, c
  <2>. QED  BY <1>3, <2>1, <2>2, <2>3 DEF Placed, Writes
<1>4. CASE c = "complete-input"
  <2>1. p = <<<<"line">>, <<"rest">>, <<"expect", call.size>>, <<"write", "stdout", "reply">>, <<"exit", 0>>>>  BY <1>1, <1>4 DEF Script
  <2>2. Len(p) = 5 /\ n \in 1 .. 5  BY <2>1, <1>2
  <2>3. c \notin Sleepers /\ InputEnd = 2  BY <1>4 DEF Sleepers, InputEnd, c
  <2>. QED  BY <1>4, <2>1, <2>2, <2>3 DEF Placed, Writes
<1>5. CASE c = "early-close"
  <2>1. p = <<<<"line">>, <<"close">>, <<"write", "stdout", "reply">>, <<"exit", 0>>>>  BY <1>1, <1>5 DEF Script
  <2>2. Len(p) = 4 /\ n \in 1 .. 4  BY <2>1, <1>2
  <2>3. c \notin Sleepers /\ InputEnd = 2  BY <1>5 DEF Sleepers, InputEnd, c
  <2>. QED  BY <1>5, <2>1, <2>2, <2>3 DEF Placed, Writes
<1>6. CASE c = "crash"
  <2>1. p = <<<<"line">>, <<"rest">>, <<"exit", 9>>, <<"write", "stdout", "reply">>, <<"exit", 0>>>>  BY <1>1, <1>6 DEF Script
  <2>2. Len(p) = 5 /\ n \in 1 .. 5  BY <2>1, <1>2
  <2>3. c \notin Sleepers /\ InputEnd = 2  BY <1>6 DEF Sleepers, InputEnd, c
  <2>. QED  BY <1>6, <2>1, <2>2, <2>3 DEF Placed, Writes
<1>7. CASE c = "timeout"
  <2>1. p = <<<<"line">>, <<"rest">>, <<"sleep">>, <<"exit", 0>>, <<"write", "stdout", "reply">>, <<"exit", 0>>>>  BY <1>1, <1>7 DEF Script
  <2>2. Len(p) = 6 /\ n \in 1 .. 6  BY <2>1, <1>2
  <2>3. c \in Sleepers /\ InputEnd = 2 /\ SleepsAt = 3  BY <1>7 DEF Sleepers, InputEnd, SleepsAt, c
  <2>. QED  BY <1>7, <2>1, <2>2, <2>3 DEF Placed, Writes
<1>8. CASE c = "oversized-stdout"
  <2>1. p = <<<<"line">>, <<"rest">>, <<"write", "stdout", "junk">>, <<"write", "stdout", "junk">>, <<"sleep">>, <<"exit", 0>>, <<"write", "stdout", "reply">>, <<"exit", 0>>>>  BY <1>1, <1>8 DEF Script
  <2>2. Len(p) = 8 /\ n \in 1 .. 8  BY <2>1, <1>2
  <2>3. c \in Sleepers /\ InputEnd = 2 /\ SleepsAt = 5  BY <1>8 DEF Sleepers, InputEnd, SleepsAt, c
  <2>. QED  BY <1>8, <2>1, <2>2, <2>3 DEF Placed, Writes
<1>9. CASE c = "oversized-stderr"
  <2>1. p = <<<<"line">>, <<"rest">>, <<"write", "stderr", "junk">>, <<"write", "stderr", "junk">>, <<"sleep">>, <<"exit", 0>>, <<"write", "stdout", "reply">>, <<"exit", 0>>>>  BY <1>1, <1>9 DEF Script
  <2>2. Len(p) = 8 /\ n \in 1 .. 8  BY <2>1, <1>2
  <2>3. c \in Sleepers /\ InputEnd = 2 /\ SleepsAt = 5  BY <1>9 DEF Sleepers, InputEnd, SleepsAt, c
  <2>. QED  BY <1>9, <2>1, <2>2, <2>3 DEF Placed, Writes
<1>10. CASE c = "lingering-child"
  <2>1. p = <<<<"line">>, <<"rest">>, <<"spawn", "holding">>, <<"write", "stdout", "reply">>, <<"exit", 0>>>>  BY <1>1, <1>10 DEF Script
  <2>2. Len(p) = 5 /\ n \in 1 .. 5  BY <2>1, <1>2
  <2>3. c \notin Sleepers /\ InputEnd = 2  BY <1>10 DEF Sleepers, InputEnd, c
  <2>. QED  BY <1>10, <2>1, <2>2, <2>3 DEF Placed, Writes
<1>11. CASE c = "redirected-child"
  <2>1. p = <<<<"line">>, <<"rest">>, <<"spawn", "apart">>, <<"write", "stdout", "reply">>, <<"exit", 0>>>>  BY <1>1, <1>11 DEF Script
  <2>2. Len(p) = 5 /\ n \in 1 .. 5  BY <2>1, <1>2
  <2>3. c \notin Sleepers /\ InputEnd = 2  BY <1>11 DEF Sleepers, InputEnd, c
  <2>. QED  BY <1>11, <2>1, <2>2, <2>3 DEF Placed, Writes
<1>12. CASE c = "cleanup-denied"
  <2>1. p = <<<<"line">>, <<"rest">>, <<"spawn", "apart">>, <<"marker">>, <<"write", "stdout", "reply">>, <<"exit", 0>>>>  BY <1>1, <1>12 DEF Script
  <2>2. Len(p) = 6 /\ n \in 1 .. 6  BY <2>1, <1>2
  <2>3. c \notin Sleepers /\ InputEnd = 2  BY <1>12 DEF Sleepers, InputEnd, c
  <2>. QED  BY <1>12, <2>1, <2>2, <2>3 DEF Placed, Writes
<1>13. CASE c = "bad-uv"
  <2>1. p = <<<<"line">>, <<"rest">>, <<"sleep">>, <<"write", "stdout", "reply">>, <<"exit", 0>>>>  BY <1>1, <1>13 DEF Script
  <2>2. Len(p) = 5 /\ n \in 1 .. 5  BY <2>1, <1>2
  <2>3. c \notin Sleepers /\ InputEnd = 2  BY <1>13 DEF Sleepers, InputEnd, c
  <2>. QED  BY <1>13, <2>1, <2>2, <2>3 DEF Placed, Writes
<1>14. CASE c \notin {"duplex", "complete-input", "early-close", "crash", "timeout", "oversized-stdout", "oversized-stderr", "lingering-child", "redirected-child", "cleanup-denied", "bad-uv"}
  <2>1. p = <<<<"line">>, <<"rest">>, <<"write", "stdout", "reply">>, <<"exit", 0>>>>  BY <1>1, <1>14 DEF Script
  <2>2. Len(p) = 4 /\ n \in 1 .. 4  BY <2>1, <1>2
  <2>3. c \notin Sleepers /\ InputEnd = 2  BY <1>14 DEF Sleepers, InputEnd, c
  <2>. QED  BY <1>14, <2>1, <2>2, <2>3 DEF Placed, Writes
<1>. QED  BY <1>3, <1>4, <1>5, <1>6, <1>7, <1>8, <1>9, <1>10, <1>11, <1>12, <1>13, <1>14

-----------------------------------------------------------------------------
\* The worker is launched and reads.

\* The same is at the same place as long as call and environment are.
LEMMA SamePlaces ==
  ASSUME call' = call
  PROVE  InputEnd' = InputEnd /\ SleepsAt' = SleepsAt /\ (Denied <=> Denied')
         /\ \A c : Required(c)' = Required(c)
BY DEF InputEnd, SleepsAt, Denied, Required

\* A worker that runs is one of an exchange that goes on, or one whose cleanup
\* was denied.
LEMMA StillAlive ==
  ASSUME AdapterOK, StartInv, ChildInv, CourseInv, Alive
  PROVE  /\ pc \in Busy \union {"clean", "done"} /\ (pc = "done" => Denied)
BY DEF AdapterOK, StartInv, ChildInv, CourseInv, Alive, Busy

\* The adapter's course does not depend on what the worker does.
LEMMA CourseUntouched ==
  ASSUME CourseInv, pc # "admit", UNCHANGED <<call, pc, registered, ready, offset, buffer, expired, outcome>>
  PROVE  CourseInv'
BY SamePlaces DEF CourseInv

\* The launcher becomes the worker.
LEMMA TimedLaunch ==
  ASSUME ExchangeInv, TimedExchange, Launch
  PROVE  TimedExchange'
<1> USE DEF ExchangeInv, TimedExchange
<1>1. CallIs(call.case)  BY CallFacts
<1>2. /\ worker' = [worker EXCEPT !.state = "running"] /\ UNCHANGED <<pipe, written, child>> /\ worker.state = "launching"
      /\ UNCHANGED <<call, pc, registered, ready, offset, buffer, expired, outcome>>
  BY <1>1 DEF Launch, CallIs, Quiet, adapter
<1>3. /\ worker'.state = "running" /\ worker'.at = worker.at /\ worker'.eof = worker.eof /\ worker'.closed = worker.closed
      /\ worker'.got = worker.got /\ worker'.environment = worker.environment
  BY <1>2 DEF WorkerOK
<1>4. pc \in Busy \union {"clean", "done"} /\ (pc = "done" => Denied)
  BY <1>2, StillAlive DEF Alive
<1>5. Program' = Program /\ InputEnd' = InputEnd /\ SleepsAt' = SleepsAt /\ (Denied <=> Denied')
  BY <1>2, <1>3, SameProgram, SamePlaces
<1>6. PlaceInv'  BY <1>2, <1>3, <1>5 DEF PlaceInv
<1>7. ListensInv'  BY <1>2, <1>3, <1>5 DEF ListensInv
<1>8. SaysInv'  BY <1>2, <1>3, <1>5 DEF SaysInv
<1>9. ChildInv'  BY <1>2, <1>3, <1>4, <1>5 DEF ChildInv, Busy
<1>10. CourseInv'  BY <1>2, <1>4, CourseUntouched DEF Busy
<1>11. (call \in CheckedCalls)'  BY <1>2 DEF CheckedCalls, MainCall, Large
<1>. QED  BY <1>6, <1>7, <1>8, <1>9, <1>10, <1>11

\* The worker reads on.
LEMMA TimedRead ==
  ASSUME ExchangeInv, TimedExchange, Read
  PROVE  TimedExchange'
<1> USE DEF ExchangeInv, TimedExchange
<1> DEFINE n == worker.at
           c == call.case
           last == Len(Program)
<1>1. /\ Running /\ UNCHANGED <<call, pc, registered, ready, offset, buffer, expired, outcome, child, written>>
      /\ worker'.state = "running" /\ worker'.closed = worker.closed /\ worker'.environment = worker.environment
  <2>1. Running  BY DEF Read, Does
  <2>2. worker'.environment = worker.environment  BY DEF Read, Onward, WorkerOK
  <2>. QED  BY <2>1, <2>2, ReadMoves
<1>2. Placed(c, n, last, Step) /\ Writes(c, n, last, Step)  BY Instructed DEF PlaceInv
<1>3. \/ /\ pipe.stdin # <<>> /\ worker'.eof = worker.eof /\ worker'.got = Append(worker.got, Head(pipe.stdin))
         /\ \/ Step[1] = "line" /\ worker'.at = n + 1
            \/ Step[1] = "rest" /\ worker'.at = n
      \/ /\ "stdin" \notin registered /\ worker'.got = worker.got /\ worker'.eof /\ worker'.at = n + 1
         /\ Step[1] \in {"line", "rest"}
  BY DEF Read, Does, Onward, WorkerOK
<1>4. pc \in Busy \union {"clean", "done"} /\ (pc = "done" => Denied)
  BY <1>1, StillAlive DEF Alive, Running
<1>5. Program' = Program /\ InputEnd' = InputEnd /\ SleepsAt' = SleepsAt /\ (Denied <=> Denied')
  BY <1>1, SameProgram, SamePlaces
<1>6. /\ n \in Nat /\ 1 <= n /\ n <= last /\ last \in Nat
      /\ worker'.at \in {n, n + 1}
      /\ worker'.at = n + 1 => n < last /\ n < last - 1 /\ n # 3 /\ n <= InputEnd
      /\ InputEnd \in {2, 5} /\ (c = "duplex" <=> InputEnd = 5)
  <2>1. n < last  
    <3>1. Step[1] # "exit"  BY <1>3
    <3>. QED  BY <1>1, <3>1, InstructionFacts DEF WorkerOK
  <2>. QED  BY <1>2, <1>3, <2>1 DEF Placed, Writes, InputEnd, WorkerOK
<1> HIDE DEF n, c, last
<1>7. PlaceInv'
  <2>1. worker'.at \in 1 .. last  BY <1>6
  <2>2. c = "crash" => worker'.at <= 3
    BY <1>6 DEF PlaceInv, n, c
  <2>3. c \in Sleepers /\ ~expired => worker'.at <= SleepsAt
    BY <1>6 DEF PlaceInv, n, c, SleepsAt, Sleepers
  <2>. QED  BY <1>1, <1>5, <2>1, <2>2, <2>3 DEF PlaceInv, c, last
<1>8. ListensInv'
  <2>1. worker'.eof => "stdin" \notin registered  BY <1>3 DEF ListensInv
  <2>2. worker'.at > InputEnd /\ c # "early-close" => worker'.eof
    <3>1. CASE worker'.at = n  BY <1>3, <1>6, <3>1 DEF ListensInv, n, c
    <3>2. CASE worker'.at = n + 1 /\ n > InputEnd  BY <1>6, <3>2
    <3>3. CASE worker'.at = n + 1 /\ n = InputEnd  BY <1>2, <1>3, <1>6, <3>3 DEF Placed
    <3>4. CASE worker'.at = n + 1 /\ n < InputEnd  BY <1>6, <3>4
    <3>. QED  BY <1>6, <3>1, <3>2, <3>3, <3>4
  <2>3. c = "early-close" => Len(worker'.got) < 2 /\ (worker'.at = 1 => worker'.got = <<>>)
    <3> SUFFICES ASSUME c = "early-close" PROVE Len(worker'.got) < 2 /\ (worker'.at = 1 => worker'.got = <<>>)
      OBVIOUS
    <3>1. CASE worker'.got = worker.got
      <4>1. worker'.at = 1 => n = 1  BY <1>6
      <4>. QED  BY <3>1, <4>1 DEF ListensInv, c, n
    <3>2. CASE worker'.got # worker.got
      <4>1. Step[1] = "line" /\ n = 1 /\ worker'.at = 2  BY <1>2, <1>3, <3>2, <1>6 DEF Placed
      <4>2. worker.got = <<>>  BY <4>1 DEF ListensInv, c, n
      <4>3. worker'.got = Append(<<>>, Head(pipe.stdin))  BY <1>3, <3>2, <4>2
      <4>4. Len(worker'.got) = 1  BY <4>3
      <4>. QED  BY <4>1, <4>4
    <3>. QED  BY <3>1, <3>2
  <2>. QED  BY <1>1, <1>5, <2>1, <2>2, <2>3 DEF ListensInv, c
<1>9. SaysInv'
  <2>1. worker'.at = last <=> n = last  BY <1>6
  <2>2. c = "duplex" => Said[worker'.at] = Said[n]
    <3>1. CASE worker'.at = n  BY <3>1
    <3>2. CASE worker'.at = n + 1
      <4>1. c = "duplex" => n = 1 \/ n = 5  BY <1>2, <1>3, <1>6, <3>2 DEF Placed, Writes
      <4>. QED  BY <3>2, <4>1 DEF Said
    <3>. QED  BY <1>6, <3>1, <3>2
  <2>. QED  BY <1>1, <1>5, <2>1, <2>2 DEF SaysInv, c, n, last
<1>10. ChildInv'
  <2>1. c = "lingering-child" /\ worker'.at > 3 => n > 3  BY <1>6
  <2>. QED  BY <1>1, <1>4, <1>5, <2>1 DEF ChildInv, c, n, Busy
<1>11. CourseInv'  BY <1>1, <1>4, CourseUntouched DEF Busy
<1>12. (call \in CheckedCalls)'  BY <1>1 DEF CheckedCalls, MainCall, Large
<1>. QED  BY <1>7, <1>8, <1>9, <1>10, <1>11, <1>12

-----------------------------------------------------------------------------
\* It writes.

\* What has been said with one word more.
LEMMA SaidOn ==
  /\ Append(Said[2], "pad") = Said[3] /\ Append(Said[3], "pad") = Said[4] /\ Append(Said[4], "pad") = Said[5]
  /\ Append(Said[6], "reply") = Said[7] /\ Append(<<>>, "reply") = <<"reply">>
<1> DEFINE p == "pad"
           r == "reply"
<1>1. Said = <<<<>>, <<>>, <<p>>, <<p, p>>, <<p, p, p>>, <<p, p, p>>, <<p, p, p, r>>>>  BY DEF Said
<1>2. p \in Units /\ r \in Units  BY DEF Units
<1> HIDE DEF p, r
<1>3. <<p>> \o <<p>> = <<p, p>>  BY <1>2, Join11
<1>4. <<p, p>> \o <<p>> = <<p, p, p>>  BY <1>2, Join21
<1>5. <<p, p, p>> \o <<r>> = <<p, p, p, r>>  BY <1>2, Join31
<1>6. <<p>> \in Seq(Units) /\ <<p, p>> \in Seq(Units) /\ <<p, p, p>> \in Seq(Units) /\ <<>> \in Seq(Units)  BY <1>2
<1>7. /\ Append(<<p>>, p) = <<p, p>> /\ Append(<<p, p>>, p) = <<p, p, p>> /\ Append(<<p, p, p>>, r) = <<p, p, p, r>>
  BY <1>2, <1>3, <1>4, <1>5, <1>6, AppendIsConcat
<1>8. Append(<<>>, p) = <<p>> /\ Append(<<>>, r) = <<r>>
  OBVIOUS
<1>. QED  BY <1>1, <1>7, <1>8 DEF p, r

\* The worker writes on, or dies of the pipes that are closed.
LEMMA TimedWrite ==
  ASSUME ExchangeInv, TimedExchange, Write
  PROVE  TimedExchange'
<1> USE DEF ExchangeInv, TimedExchange
<1> DEFINE n == worker.at
           c == call.case
           last == Len(Program)
<1>1. /\ Running /\ Step[1] = "write" /\ UNCHANGED <<call, pc, registered, ready, offset, buffer, expired, outcome, child>>
      /\ worker'.closed = worker.closed /\ worker'.environment = worker.environment
      /\ worker'.got = worker.got /\ worker'.eof = worker.eof
      /\ \/ pc = "done" /\ worker'.state = "exited" /\ worker'.at = n /\ written' = written
         \/ /\ pc # "done" /\ worker'.state = "running" /\ worker'.at = n + 1
            /\ written' = [written EXCEPT ![Step[2]] = Append(@, Step[3])]
  <2>1. Running /\ Step[1] = "write" /\ UNCHANGED <<call, pc, registered, ready, offset, buffer, expired, outcome, child>>
    BY DEF Write, Does, Quiet, adapter
  <2>2. CASE pc = "done"
    <3>1. worker' = [worker EXCEPT !.state = "exited", !.status = 1] /\ written' = written  BY <2>2 DEF Write
    <3>. QED  BY <2>1, <2>2, <3>1 DEF WorkerOK
  <2>3. CASE pc # "done"
    <3>1. worker' = Onward /\ written' = [written EXCEPT ![Step[2]] = Append(@, Step[3])]  BY <2>3 DEF Write
    <3>. QED  BY <2>1, <2>3, <3>1 DEF WorkerOK, Onward, Running
  <2>. QED  BY <2>2, <2>3
<1>2. Placed(c, n, last, Step) /\ Writes(c, n, last, Step)  BY Instructed DEF PlaceInv
<1>4. pc \in Busy \union {"clean", "done"} /\ (pc = "done" => Denied)
  BY <1>1, StillAlive DEF Alive, Running
<1>5. Program' = Program /\ InputEnd' = InputEnd /\ SleepsAt' = SleepsAt /\ (Denied <=> Denied')
  BY <1>1, SameProgram, SamePlaces
<1>6. /\ n \in Nat /\ 1 <= n /\ n < last /\ last \in Nat
      /\ worker'.at \in {n, n + 1}
      /\ n # InputEnd \/ c = "early-close"
      /\ InputEnd \in {2, 5}
      /\ c = "crash" => n # 3
      /\ c = "lingering-child" => n # 3
      /\ c \in Sleepers => n # SleepsAt
  <2>1. n < last  
    <3>1. Step[1] # "exit"  BY <1>1
    <3>. QED  BY <1>1, <3>1, InstructionFacts DEF WorkerOK
  <2>2. /\ Step # <<"spawn", "holding">> /\ Step # <<"exit", 9>> /\ Step # <<"sleep">>
        /\ Step[1] # "rest"
    <3>1. <<"spawn", "holding">>[1] = "spawn" /\ <<"exit", 9>>[1] = "exit" /\ <<"sleep">>[1] = "sleep"  OBVIOUS
    <3>. QED  BY <1>1, <3>1
  <2>. QED  BY <1>2, <1>1, <2>1, <2>2 DEF Placed, InputEnd, WorkerOK
<1> HIDE DEF n, c, last
<1>7. PlaceInv'
  <2>1. worker'.at \in 1 .. last  BY <1>6
  <2>2. c = "crash" => worker'.at <= 3
    BY <1>6 DEF PlaceInv, n, c
  <2>3. c \in Sleepers /\ ~expired => worker'.at <= SleepsAt
    BY <1>6 DEF PlaceInv, n, c, SleepsAt, Sleepers
  <2>. QED  BY <1>1, <1>5, <2>1, <2>2, <2>3 DEF PlaceInv, c, last
<1>8. ListensInv'
  <2>2. worker'.at > InputEnd /\ c # "early-close" => worker'.eof
    <3>1. worker'.at > InputEnd /\ c # "early-close" => n > InputEnd  BY <1>6
    <3>. QED  BY <1>1, <3>1 DEF ListensInv, n, c
  <2>3. worker'.at = 1 => n = 1  BY <1>6
  <2>. QED  BY <1>1, <1>5, <2>2, <2>3 DEF ListensInv, c, n
<1>9. SaysInv'
  <2>1. CASE pc = "done"  BY <1>1, <1>5, <2>1 DEF SaysInv, c, n, last
  <2>2. CASE pc # "done"
    <3> DEFINE o == Step[2]
               u == Step[3]
    <3>1. /\ o \in Outputs /\ worker'.at = n + 1 /\ written' = [written EXCEPT ![o] = Append(@, u)]
          /\ DOMAIN written = Outputs
      BY <1>1, <2>2, InstructionFacts DEF PipesOK
    <3>2. written'[o] = Append(written[o], u) /\ \A s \in Outputs \ {o} : written'[s] = written[s]
      BY <3>1
    <3>3. c # "oversized-stderr" => written'["stderr"] = <<>>
      <4>1. c # "oversized-stderr" => o = "stdout"  BY <1>1, <1>2 DEF Writes
      <4>. QED  BY <3>2, <4>1 DEF SaysInv, Outputs, c
    <3>4. c \notin {"duplex", "oversized-stdout"} =>
              written'["stdout"] = IF worker'.at = last THEN <<"reply">> ELSE <<>>
      <4> SUFFICES ASSUME c \notin {"duplex", "oversized-stdout"}
                   PROVE  written'["stdout"] = IF worker'.at = last THEN <<"reply">> ELSE <<>>
        OBVIOUS
      <4>1. written["stdout"] = <<>>  BY <1>6 DEF SaysInv, c, n, last
      <4>2. CASE n = last - 1
        <5>1. o = "stdout" /\ u = "reply"  BY <1>1, <1>2, <4>2, <1>6 DEF Writes
        <5>2. written'["stdout"] = Append(<<>>, "reply")  BY <3>1, <3>2, <4>1, <5>1
        <5>3. worker'.at = last  BY <3>1, <4>2, <1>6
        <5>. QED  BY <5>2, <5>3, SaidOn
      <4>3. CASE n # last - 1
        <5>1. o = "stderr"  BY <1>1, <1>2, <4>3 DEF Writes
        <5>. QED  BY <3>1, <3>2, <4>1, <4>3, <5>1, <1>6 DEF Outputs
      <4>. QED  BY <4>2, <4>3
    <3>5. c = "duplex" => written'["stdout"] = Said[worker'.at]
      <4> SUFFICES ASSUME c = "duplex" PROVE written'["stdout"] = Said[worker'.at]
        OBVIOUS
      <4>1. written["stdout"] = Said[n]  BY DEF SaysInv, c, n
      <4>2. CASE n = 6
        <5>1. o = "stdout" /\ u = "reply"  BY <1>1, <1>2, <4>2 DEF Writes
        <5>2. written'["stdout"] = Append(Said[6], "reply")  BY <3>1, <3>2, <4>1, <4>2, <5>1
        <5>3. worker'.at = 7  BY <3>1, <4>2
        <5>. QED  BY <5>2, <5>3, SaidOn
      <4>3. CASE n # 6
        <5>1. o = "stdout" /\ u = "pad" /\ n \in 2 .. 4  BY <1>1, <1>2, <4>3, <1>6 DEF Writes
        <5>2. written'["stdout"] = Append(Said[n], "pad")  BY <3>1, <3>2, <4>1, <5>1
        <5>3. Append(Said[n], "pad") = Said[n + 1]
          <6>1. CASE n = 2  BY <6>1, SaidOn
          <6>2. CASE n = 3  BY <6>2, SaidOn
          <6>3. CASE n = 4  BY <6>3, SaidOn
          <6>. QED  BY <5>1, <6>1, <6>2, <6>3
        <5>. QED  BY <3>1, <5>2, <5>3
      <4>. QED  BY <4>2, <4>3
    <3> HIDE DEF o, u
    <3>. QED  BY <1>1, <1>5, <3>3, <3>4, <3>5 DEF SaysInv, c, n, last
  <2>. QED  BY <2>1, <2>2
<1>10. ChildInv'
  <2>1. c = "lingering-child" /\ worker'.at > 3 => n > 3  BY <1>6
  <2>. QED  BY <1>1, <1>4, <1>5, <2>1 DEF ChildInv, c, n, Busy
<1>11. CourseInv'  BY <1>1, <1>4, CourseUntouched DEF Busy
<1>12. (call \in CheckedCalls)'  BY <1>1 DEF CheckedCalls, MainCall, Large
<1>. QED  BY <1>7, <1>8, <1>9, <1>10, <1>11, <1>12

-----------------------------------------------------------------------------
\* It works on; its child ends.

\* What an instruction does that neither reads nor writes.
LEMMA WorkDoes ==
  ASSUME WorkerOK, Work
  PROVE  /\ Running /\ UNCHANGED <<call, pc, registered, ready, offset, buffer, expired, outcome, written, pipe>>
         /\ worker'.environment = worker.environment /\ worker'.got = worker.got /\ worker'.eof = worker.eof
         /\ \/ /\ worker'.state = "running" /\ worker'.at = worker.at + 1
               /\ \/ Step[1] = "close" /\ UNCHANGED child
                  \/ Step[1] = "spawn" /\ child' = Step[2] /\ worker'.closed = worker.closed
                  \/ Step[1] \in {"sleep", "marker"} /\ UNCHANGED child /\ worker'.closed = worker.closed
                  \/ Step[1] = "expect" /\ Len(worker.got) = Step[2] /\ UNCHANGED child /\ worker'.closed = worker.closed
            \/ /\ worker'.state = "exited" /\ worker'.at = worker.at /\ UNCHANGED child /\ worker'.closed = worker.closed
               /\ \/ Step[1] = "marker" /\ worker'.status = 20
                  \/ Step[1] = "expect" /\ Len(worker.got) # Step[2]
                  \/ Step[1] = "exit" /\ worker'.status = Step[2]
<1> USE DEF WorkerOK, Onward, Running, Does
<1>1. Running /\ UNCHANGED <<call, pc, registered, ready, offset, buffer, expired, outcome, written, pipe>>
  BY DEF Work, Quiet, adapter
<1>2. CASE Does("close") /\ worker' = [Onward EXCEPT !.closed = TRUE] /\ UNCHANGED child
  BY <1>1, <1>2
<1>3. CASE Does("spawn") /\ worker' = Onward /\ child' = Step[2]
  BY <1>1, <1>3
<1>4. CASE Does("sleep") /\ worker' = Onward /\ UNCHANGED child
  BY <1>1, <1>4
<1>5. CASE Does("marker") /\ worker' \in {Onward, [worker EXCEPT !.state = "exited", !.status = 20]} /\ UNCHANGED child
  <2>1. CASE worker' = Onward  BY <1>1, <1>5, <2>1
  <2>2. CASE worker' = [worker EXCEPT !.state = "exited", !.status = 20]  BY <1>1, <1>5, <2>2
  <2>. QED  BY <1>5, <2>1, <2>2
<1>6. CASE /\ Does("expect") /\ UNCHANGED child
           /\ worker' = IF Len(worker.got) = Step[2] THEN Onward ELSE [worker EXCEPT !.state = "exited", !.status = 19]
  <2>1. CASE Len(worker.got) = Step[2]  BY <1>1, <1>6, <2>1
  <2>2. CASE Len(worker.got) # Step[2]  BY <1>1, <1>6, <2>2
  <2>. QED  BY <2>1, <2>2
<1>7. CASE Does("exit") /\ worker' = [worker EXCEPT !.state = "exited", !.status = Step[2]] /\ UNCHANGED child
  BY <1>1, <1>7
<1>. QED  BY <1>2, <1>3, <1>4, <1>5, <1>6, <1>7 DEF Work

\* The worker works on, sleeps, or exits where its program says so.
LEMMA TimedWork ==
  ASSUME ExchangeInv, TimedExchange, Work, OnTime
  PROVE  TimedExchange'
<1> USE DEF ExchangeInv, TimedExchange
<1> DEFINE n == worker.at
           c == call.case
           last == Len(Program)
           i == Step
<1>1. /\ Running /\ UNCHANGED <<call, pc, registered, ready, offset, buffer, expired, outcome, written, pipe>>
      /\ worker'.environment = worker.environment /\ worker'.got = worker.got /\ worker'.eof = worker.eof
  BY WorkDoes
<1>2. Placed(c, n, last, i) /\ Writes(c, n, last, i)  BY Instructed DEF PlaceInv
<1>4. pc \in Busy \union {"clean", "done"} /\ (pc = "done" => Denied)
  BY <1>1, StillAlive DEF Alive, Running
<1>5. Program' = Program /\ InputEnd' = InputEnd /\ SleepsAt' = SleepsAt /\ (Denied <=> Denied')
  BY <1>1, SameProgram, SamePlaces
<1>e. ASSUME i[1] = "expect" PROVE Len(worker.got) = i[2]
  <2>1. c = "complete-input" /\ i[2] = call.size /\ n > InputEnd
    BY <1>2, <1>e DEF Placed
  <2>2. worker.eof  BY <2>1 DEF ListensInv
  <2>3. outcome # "worker cleanup failure"
    BY <2>1, <1>4 DEF OutcomeInv, Denied
  <2>4. worker.got = Envelope /\ call.size \in Nat  BY <2>2, <2>3, CallsAssumption DEF InputInv, AdapterOK
  <2>. QED  BY <2>1, <2>4 DEF Envelope
<1>3. \/ /\ worker'.state = "running" /\ worker'.at = n + 1 /\ i[1] \in {"close", "spawn", "sleep", "marker", "expect"}
         /\ IF i[1] = "spawn" THEN child' = i[2] ELSE child' = child
         /\ i[1] # "close" => worker'.closed = worker.closed
         /\ i[1] = "sleep" /\ c \in Sleepers => expired
      \/ /\ worker'.state = "exited" /\ worker'.at = n /\ i[1] = "exit" /\ worker'.status = i[2]
         /\ child' = child /\ worker'.closed = worker.closed
  <2>1. worker'.status # 20  BY DEF OnTime
  <2>2. i[1] = "sleep" /\ worker'.at > worker.at /\ c \in Sleepers => expired
    BY <1>1 DEF OnTime, Does
  <2>3. worker.at + 1 > worker.at  BY DEF WorkerOK
  <2>. QED  BY WorkDoes, <1>e, <2>1, <2>2, <2>3
<1>i. i \in Instructions /\ (i[1] = "exit" => i = <<"exit", i[2]>>) /\ (i[1] = "spawn" => i[2] \in {"holding", "apart"})
  <2>1. i \in Instructions /\ (i[1] = "spawn" => i[2] \in {"holding", "apart"})  BY <1>1, InstructionFacts
  <2>2. i[1] = "exit" => i = <<"exit", i[2]>>  BY <2>1 DEF Instructions
  <2>. QED  BY <2>1, <2>2
<1>6. /\ n \in Nat /\ 1 <= n /\ n <= last /\ last \in Nat
      /\ n # InputEnd \/ c = "early-close" \/ i[1] = "exit"
      /\ InputEnd \in {2, 5}
      /\ i[1] = "exit" => worker'.at = n
      /\ i[1] # "exit" => worker'.at = n + 1 /\ n < last - 1
      /\ c = "crash" /\ n = 3 => i[1] = "exit"
      /\ c = "lingering-child" /\ n = 3 => i = <<"spawn", "holding">>
      /\ c \in Sleepers /\ n = SleepsAt => expired
  <2>1. i[1] # "exit" => n < last
    BY <1>1, InstructionFacts DEF WorkerOK
  <2>2. n = last - 1 => i[1] = "write"  BY <1>2 DEF Writes
  <2>3. <<"sleep">>[1] = "sleep" /\ <<"exit", 9>>[1] = "exit"  OBVIOUS
  <2>4. n = InputEnd /\ c # "early-close" => i[1] = "rest"  BY <1>2 DEF Placed
  <2>. QED  BY <1>2, <1>3, <2>1, <2>2, <2>3, <2>4 DEF Placed, InputEnd, WorkerOK
<1> HIDE DEF n, c, last, i
<1>7. PlaceInv'
  <2>1. worker'.at \in 1 .. last  BY <1>6
  <2>2. c = "crash" => worker'.at <= 3
    BY <1>6 DEF PlaceInv, n, c
  <2>3. c \in Sleepers /\ ~expired => worker'.at <= SleepsAt
    BY <1>6 DEF PlaceInv, n, c, SleepsAt, Sleepers
  <2>4. worker'.state = "exited" => Program[worker'.at] = <<"exit", worker'.status>>
    BY <1>3, <1>i DEF i, Step, n
  <2>5. worker'.state # "killed"  BY <1>3
  <2>. QED  BY <1>1, <1>5, <2>1, <2>2, <2>3, <2>4, <2>5 DEF PlaceInv, c, last
<1>8. ListensInv'
  <2>2. worker'.at > InputEnd /\ c # "early-close" => worker'.eof
    <3>1. worker'.at > InputEnd /\ c # "early-close" => n > InputEnd  BY <1>2, <1>6 DEF Placed
    <3>. QED  BY <1>1, <3>1 DEF ListensInv, n, c
  <2>3. worker'.at = 1 => n = 1  BY <1>6
  <2>4. worker'.closed => c = "early-close"  BY <1>2, <1>3 DEF Placed, ListensInv, c
  <2>. QED  BY <1>1, <1>5, <2>2, <2>3, <2>4 DEF ListensInv, c, n
<1>9. SaysInv'
  <2>1. c \notin {"duplex", "oversized-stdout"} => (worker'.at = last <=> n = last)  BY <1>6
  <2>2. c = "duplex" => worker'.at = n
    <3>1. c = "duplex" /\ i[1] # "exit" => n \notin 1 .. 5 /\ last = 7 /\ n < 6
      BY <1>2, <1>3, <1>6 DEF Placed, Writes, InputEnd, c
    <3>. QED  BY <1>6, <3>1
  <2>. QED  BY <1>1, <1>5, <2>1, <2>2 DEF SaysInv, c, n, last
<1>10. ChildInv'
  <2>1. c = "lingering-child" /\ pc \notin {"admit", "done"} /\ worker'.at > 3 => child' = "holding"
    <3> SUFFICES ASSUME c = "lingering-child", pc \notin {"admit", "done"}, worker'.at > 3 PROVE child' = "holding"
      OBVIOUS
    <3>1. CASE n = 3
      <4>1. i = <<"spawn", "holding">>  BY <3>1, <1>6
      <4>2. i[1] = "spawn" /\ i[2] = "holding"  BY <4>1
      <4>. QED  BY <1>3, <4>2
    <3>2. CASE n # 3
      <4>1. n > 3  BY <1>6, <3>2
      <4>2. child = "holding"  BY <4>1 DEF ChildInv, c, n
      <4>3. i[1] # "spawn"  BY <1>2, <3>2 DEF Placed
      <4>. QED  BY <1>3, <4>2, <4>3
    <3>. QED  BY <3>1, <3>2
  <2>2. Denied => child' # "gone"  BY <1>3, <1>i DEF ChildInv
  <2>. QED  BY <1>1, <1>4, <1>5, <2>1, <2>2 DEF ChildInv, c, n, Busy
<1>11. CourseInv'  BY <1>1, <1>4, CourseUntouched DEF Busy
<1>12. (call \in CheckedCalls)'  BY <1>1 DEF CheckedCalls, MainCall, Large
<1>. QED  BY <1>7, <1>8, <1>9, <1>10, <1>11, <1>12

\* A child outlives the exchange: where it ends by itself, the check has long
\* seen to the cleanup.
LEMMA TimedChildEnds ==
  ASSUME ChildEnds, OnTime
  PROVE  FALSE
BY DEF ChildEnds, OnTime, Quiet, adapter, Here

-----------------------------------------------------------------------------
\* The adapter constructs and unwraps.

\* Scripts are programs, in every state.
Scripted == call \in CheckedCalls /\ worker.environment \subseteq Allowed => Program = Script(call.case)
LEMMA Scripting == Scripted
BY ScriptOfCase DEF Scripted

\* What the adapter's own steps leave as it is, as long as it does not get to
\* the end.
LEMMA WorkerUntouched ==
  ASSUME TimedExchange, UNCHANGED <<call, worker, child, written, expired>>, registered' \subseteq registered,
         pc \notin {"admit", "done"}, pc' \notin {"admit", "done"}
  PROVE  PlaceInv' /\ ListensInv' /\ SaysInv' /\ ChildInv' /\ (call \in CheckedCalls)'
<1> USE DEF TimedExchange
<1>1. Program' = Program /\ InputEnd' = InputEnd /\ SleepsAt' = SleepsAt /\ (Denied <=> Denied')
  BY SameProgram, SamePlaces
<1>2. PlaceInv'  BY <1>1 DEF PlaceInv
<1>3. ListensInv'  BY <1>1 DEF ListensInv
<1>4. SaysInv'  BY <1>1 DEF SaysInv
<1>5. ChildInv'  BY <1>1 DEF ChildInv
<1>6. (call \in CheckedCalls)'  BY DEF CheckedCalls, MainCall, Large
<1>. QED  BY <1>2, <1>3, <1>4, <1>5, <1>6

\* A worker that is there and has not been killed runs or has come to an exit.
LEMMA RunsOrExits ==
  ASSUME ExchangeInv, TimedExchange, pc \in Busy \union {"clean", "admit"}
  PROVE  /\ worker.at \in 1 .. Len(Program)
         /\ Placed(call.case, worker.at, Len(Program), Step) /\ Writes(call.case, worker.at, Len(Program), Step)
         /\ pc # "admit" /\ ~Alive => worker.state = "exited"
         /\ worker.state = "exited" => Step = <<"exit", worker.status>> /\ Step[1] = "exit" /\ Step[2] = worker.status
<1> USE DEF ExchangeInv, TimedExchange
<1>1. worker.at \in 1 .. Len(Program)  BY DEF PlaceInv
<1>2. Placed(call.case, worker.at, Len(Program), Step) /\ Writes(call.case, worker.at, Len(Program), Step)
  BY <1>1, Instructed
<1>3. pc # "admit" /\ ~Alive => worker.state = "exited"
  BY DEF PlaceInv, StartInv, WorkerOK, Alive, Busy
<1>4. worker.state = "exited" => Step = <<"exit", worker.status>>
  BY DEF PlaceInv, Step, Busy
<1>5. Step = <<"exit", worker.status>> => Step[1] = "exit" /\ Step[2] = worker.status
  OBVIOUS
<1>. QED  BY <1>1, <1>2, <1>3, <1>4, <1>5

\* The constructor refuses the debugging variable and nothing else.
LEMMA TimedConstruct ==
  ASSUME ExchangeInv, TimedExchange, Construct
  PROVE  TimedExchange'
<1> USE DEF ExchangeInv, TimedExchange
<1> DEFINE c == call.case
<1>0. CallIs(c) /\ PipeSize \in Nat /\ PipeSize > 1  BY CallFacts
<1>1. Timely(call.timeout) /\ IsLimit(call.maxIn) /\ IsLimit(call.maxOut)
  BY <1>0 DEF CallIs, Timely, IsLimit
<1>2. (call.environment \cap Forbidden # {}) <=> c = "debugging"
  BY <1>0 DEF CallIs, Forbidden
<1>3. /\ pc = "construct" /\ UNCHANGED <<call, expired, registered, ready, offset, buffer, pipe, worker, child, written>>
      /\ IF c = "debugging" THEN pc' = "done" /\ outcome' = "debugging environment" ELSE pc' = "unwrap" /\ outcome' = outcome
  BY <1>1, <1>2 DEF Construct, Here, Own, Keep, World, Refuse, GoOn
<1>4. c \in CheckedCases  BY <1>0 DEF CallIs
<1>5. Required(c) = {"envelope too large", "debugging environment"} \/ c # "debugging"
  BY DEF Required, Success
<1>6. CASE c # "debugging"
  <2>1. PlaceInv' /\ ListensInv' /\ SaysInv' /\ ChildInv' /\ (call \in CheckedCalls)'
    BY <1>3, <1>6, WorkerUntouched
  <2>2. CourseInv'  BY <1>3, <1>6 DEF CourseInv, c
  <2>. QED  BY <2>1, <2>2
<1>7. CASE c = "debugging"
  <2>1. Program' = Program /\ InputEnd' = InputEnd /\ SleepsAt' = SleepsAt /\ (Denied <=> Denied') /\ Required(c)' = Required(c)
    BY <1>3, SameProgram, SamePlaces
  <2>2. worker.state = "none"  BY <1>3 DEF StartInv
  <2>3. PlaceInv'  BY <1>3, <2>1, <2>2 DEF PlaceInv
  <2>4. ListensInv' /\ SaysInv'  BY <1>3, <2>1 DEF ListensInv, SaysInv
  <2>5. ChildInv'  BY <1>3, <1>7, <2>1, <2>2 DEF ChildInv, Denied, Alive, Refused, LastCases
  <2>6. CourseInv'  BY <1>3, <1>5, <1>7, <2>1 DEF CourseInv
  <2>7. (call \in CheckedCalls)'  BY <1>3 DEF CheckedCalls, MainCall, Large
  <2>. QED  BY <2>3, <2>4, <2>5, <2>6, <2>7
<1>. QED  BY <1>6, <1>7

\* unwrap refuses the envelope that is too large and nothing else.
LEMMA TimedUnwrap ==
  ASSUME ExchangeInv, TimedExchange, Unwrap
  PROVE  TimedExchange'
<1> USE DEF ExchangeInv, TimedExchange
<1> DEFINE c == call.case
<1>0. CallIs(c) /\ PipeSize \in Nat /\ PipeSize > 1  BY CallFacts
<1>1. call.size # 0 /\ (call.size > call.maxIn[2] <=> c = "small-limit") /\ ~(call.masked /\ call.command = "missing")
  BY <1>0 DEF CallIs
<1>2. /\ pc = "unwrap" /\ UNCHANGED <<call, expired, ready, offset, buffer, pipe, child, written>>
      /\ \/ c = "small-limit" /\ pc' = "done" /\ outcome' = "envelope too large" /\ UNCHANGED <<worker, registered>>
         \/ /\ c # "small-limit" /\ pc' = "select" /\ outcome' = outcome /\ registered' = Pipes
            /\ worker' = [state |-> "launching", environment |-> call.environment \cap Allowed, at |-> 1, got |-> <<>>,
                          eof |-> FALSE, closed |-> FALSE, status |-> 0]
  <2>1. pc = "unwrap" /\ UNCHANGED <<call, expired, ready, offset, buffer, pipe, child, written>>  BY DEF Unwrap, Here, Own
  <2>2. ~call.masked  BY <1>0 DEF CallIs
  <2>. QED  BY <1>1, <2>1, <2>2 DEF Unwrap, Refuse, GoOn, Pipes
<1>3. worker.state = "none" /\ c # "debugging"  BY <1>2 DEF StartInv, CourseInv
<1>4. InputEnd' = InputEnd /\ SleepsAt' = SleepsAt /\ (Denied <=> Denied') /\ Required(c)' = Required(c)
  BY <1>2, SamePlaces
<1>5. (call \in CheckedCalls)'  BY <1>2 DEF CheckedCalls, MainCall, Large
<1>6. CASE c = "small-limit"
  <2>1. Program' = Program  BY <1>2, <1>6, SameProgram
  <2>2. Required(c) = {"envelope too large", "debugging environment"}
    BY <1>6 DEF Required, Success
  <2>3. pc' = "done" /\ outcome' = "envelope too large" /\ UNCHANGED <<worker, registered>>  BY <1>2, <1>6
  <2>4. PlaceInv'  BY <1>2, <1>3, <1>4, <2>1, <2>3 DEF PlaceInv
  <2>5. ListensInv' /\ SaysInv'  BY <1>2, <1>4, <2>1, <2>3 DEF ListensInv, SaysInv
  <2>6. ChildInv'  BY <1>2, <1>3, <1>4, <1>6, <2>3 DEF ChildInv, Denied, Alive, Refused, LastCases
  <2>7. CourseInv'  BY <1>2, <1>4, <2>2, <2>3 DEF CourseInv
  <2>. QED  BY <1>5, <2>4, <2>5, <2>6, <2>7
<1>7. CASE c # "small-limit"
  <2>1. /\ pc' = "select" /\ outcome' = outcome /\ registered' = Pipes
        /\ worker'.state = "launching" /\ worker'.at = 1 /\ worker'.got = <<>> /\ ~worker'.eof /\ ~worker'.closed
        /\ worker'.environment \subseteq Allowed
    <3>1. pc' = "select" /\ outcome' = outcome /\ registered' = Pipes  BY <1>2, <1>7
    <3>2. worker' = [state |-> "launching", environment |-> call.environment \cap Allowed, at |-> 1, got |-> <<>>,
                     eof |-> FALSE, closed |-> FALSE, status |-> 0]
      BY <1>2, <1>7
    <3>3. /\ worker'.state = "launching" /\ worker'.at = 1 /\ worker'.got = <<>> /\ ~worker'.eof /\ ~worker'.closed
          /\ worker'.environment = call.environment \cap Allowed
      BY <3>2
    <3>. QED  BY <3>1, <3>3
  <2>2. child = "none" /\ \A s \in Outputs : written[s] = <<>>  BY <1>3 DEF StartInv
  <2>3. Program' = Script(c)
    <3>1. Scripted'  BY Scripting, PTL
    <3>2. Script(call.case)' = Script(c)  BY <1>2 DEF Script
    <3>. QED  BY <3>1, <3>2, <1>5, <2>1 DEF Scripted
  <2>4. Len(Script(c)) \in Nat /\ Len(Script(c)) > 2  BY DEF Script
  <2>5. PlaceInv'  BY <1>2, <1>4, <2>1, <2>3, <2>4 DEF PlaceInv, SleepsAt
  <2>6. ListensInv'
    <3>1. Len(<<>>) < 2  OBVIOUS
    <3>. QED  BY <1>2, <1>4, <2>1, <3>1 DEF ListensInv, InputEnd
  <2>7. SaysInv'
    <3>1. Said[1] = <<>>  BY DEF Said
    <3>2. written'["stdout"] = <<>> /\ written'["stderr"] = <<>>  BY <1>2, <2>2 DEF Outputs
    <3>3. worker'.at # Len(Program')
      <4>1. worker'.at = 1  BY <2>1
      <4> DEFINE m == Len(Script(c))
      <4>2. Len(Program') = m  BY <2>3
      <4>3. m \in Nat /\ m > 2  BY <2>4
      <4> HIDE DEF m
      <4>. QED  BY <4>1, <4>2, <4>3
    <3>. QED  BY <2>1, <3>1, <3>2, <3>3 DEF SaysInv
  <2>8. ChildInv'  BY <1>2, <1>4, <2>1, <2>2 DEF ChildInv
  <2>9. CourseInv'
    <3>1. c \notin Refused  BY <1>3, <1>7 DEF Refused, LastCases
    <3>. QED  BY <1>2, <2>1, <3>1 DEF CourseInv, Pipes
  <2>. QED  BY <1>5, <2>5, <2>6, <2>7, <2>8, <2>9
<1>. QED  BY <1>6, <1>7

-----------------------------------------------------------------------------
\* Its rounds.

\* What was written and what of it is where.
LEMMA OutputLengths ==
  ASSUME ExchangeInv, NEW s \in Outputs
  PROVE  /\ Len(buffer[s]) \in Nat /\ Len(pipe[s]) \in Nat
         /\ Len(written[s]) = Len(buffer[s]) + Len(pipe[s])
         /\ written[s] = <<>> => pipe[s] = <<>>
<1> DEFINE a == buffer[s]
           b == pipe[s]
<1>1. a \in Seq(Units) /\ b \in Seq(Units) /\ written[s] = a \o b
  BY DEF ExchangeInv, AdapterOK, PipesOK, OutputInv
<1> HIDE DEF a, b
<1>2. Len(a) \in Nat /\ Len(b) \in Nat /\ Len(a \o b) = Len(a) + Len(b)
  BY <1>1, LenProperties, ConcatProperties
<1>3. a \o b = <<>> => b = <<>>
  <2>1. Len(<<>>) = 0  OBVIOUS
  <2>2. a \o b = <<>> => Len(b) = 0  BY <1>2, <2>1
  <2>. QED  BY <1>1, <2>2, EmptySeq
<1>. QED  BY <1>1, <1>2, <1>3 DEF a, b

\* A worker that closes its stdin has not taken two units, and the pipe does not
\* hold the rest: the adapter never gets to the end of its envelope.
LEMMA EnvelopeNeverPasses ==
  ASSUME ExchangeInv, TimedExchange, pc \in Busy, call.case = "early-close"
  PROVE  "stdin" \in registered
<1> USE DEF ExchangeInv, TimedExchange
<1> SUFFICES ASSUME "stdin" \notin registered PROVE FALSE
  OBVIOUS
<1> DEFINE g == worker.got
           b == pipe["stdin"]
           q == Envelope
<1>1. PipeSize \in Nat /\ PipeSize > 1 /\ call.size = 2 * PipeSize + 1
  BY CallFacts DEF CallIs
<1>2. offset = call.size  BY DEF InputInv
<1>3. q \in Seq(Nat) /\ Len(q) = call.size /\ offset \in 0 .. Len(q)
  BY EnvelopeTyped
<1>4. g \in Seq(Nat) /\ b \in Seq(Nat) /\ Len(b) <= PipeSize
  BY DEF WorkerOK, PipesOK, Pipes
<1>5. g \o b = SubSeq(q, 1, offset)  BY DEF InputInv
<1>6. Len(g) < 2  BY DEF ListensInv
<1> HIDE DEF g, b, q
<1>7. Len(g) + Len(b) = offset  BY <1>3, <1>4, <1>5, PrefixOfPrefix
<1>8. Len(g) \in Nat /\ Len(b) \in Nat  BY <1>4, LenProperties
<1>. QED  BY <1>1, <1>2, <1>4, <1>6, <1>7, <1>8

\* As long as it waits for its input, a worker is there and reads.
LEMMA ListensStill ==
  ASSUME ExchangeInv, TimedExchange, pc \in Busy, "stdin" \in registered, call.case # "early-close"
  PROVE  Readable
<1> USE DEF ExchangeInv, TimedExchange
<1>1. worker.at <= InputEnd
  BY DEF ListensInv, WorkerOK, InputEnd
<1>2. Alive
  <2>1. Step[1] = "exit" => worker.at > InputEnd  BY RunsOrExits DEF Placed
  <2>2. ~Alive => Step[1] = "exit"  BY RunsOrExits DEF Busy
  <2>. QED  BY <1>1, <2>1, <2>2 DEF WorkerOK, InputEnd
<1>. QED  BY <1>2 DEF ListensInv, Readable

\* Somebody holds the outputs of a worker that sleeps, and of one that leaves a
\* child with them.
LEMMA HeldOpen ==
  ASSUME ExchangeInv, TimedExchange, pc \in Busy, call.case \in Stuck \ {"early-close"},
         call.case = "timeout" => ~expired
  PROVE  Writable
<1> USE DEF ExchangeInv, TimedExchange
<1> SUFFICES ASSUME ~Alive PROVE child = "holding"
  BY DEF Writable
<1>1. Placed(call.case, worker.at, Len(Program), Step) /\ Step[1] = "exit"
  BY RunsOrExits DEF Busy
<1>2. CASE call.case = "lingering-child"
  <2>1. worker.at > 3  BY <1>1, <1>2 DEF Placed
  <2>. QED  BY <1>2, <2>1 DEF ChildInv, Busy
<1>3. CASE call.case # "lingering-child"
  <2>1. call.case \in Sleepers /\ ~expired  BY <1>3 DEF Stuck, Sleepers, PlaceInv
  <2>2. worker.at <= SleepsAt /\ worker.at > SleepsAt /\ worker.at \in Nat /\ SleepsAt \in Nat
    BY <1>1, <2>1 DEF Placed, PlaceInv, WorkerOK, SleepsAt
  <2>. QED  BY <2>2
<1>. QED  BY <1>2, <1>3

\* How long the scripts are of which that matters, and what has been written
\* before the sleep.
LEMMA NothingSaid ==
  ASSUME ExchangeInv, TimedExchange, call.case \in Sleepers, ~expired
  PROVE  /\ call.case # "oversized-stdout" => written["stdout"] = <<>>
         /\ call.case # "oversized-stderr" => written["stderr"] = <<>>
<1> USE DEF ExchangeInv, TimedExchange
<1>1. Program = Script(call.case)  BY ScriptOfCase DEF WorkerOK
<1>2. Len(Program) > SleepsAt /\ Len(Program) \in Nat
  <2>1. CASE call.case = "timeout"  BY <1>1, <2>1 DEF Script, SleepsAt
  <2>2. CASE call.case = "oversized-stdout"  BY <1>1, <2>2 DEF Script, SleepsAt
  <2>3. CASE call.case = "oversized-stderr"  BY <1>1, <2>3 DEF Script, SleepsAt
  <2>. QED  BY <2>1, <2>2, <2>3 DEF Sleepers
<1>3. worker.at # Len(Program)
  <2>1. worker.at <= SleepsAt /\ worker.at \in Nat /\ SleepsAt \in Nat  BY DEF PlaceInv, WorkerOK, SleepsAt
  <2>. QED  BY <1>2, <2>1
<1>. QED  BY <1>3 DEF SaysInv, Sleepers

\* The rounds: while the deadline has not passed, nothing comes of a worker that
\* sleeps; and no pipe of those that are stuck is ever closed.
LEMMA TimedSelect ==
  ASSUME ExchangeInv, TimedExchange, Select
  PROVE  TimedExchange'
<1> USE DEF ExchangeInv, TimedExchange
<1> DEFINE c == call.case
<1>1. /\ pc = "select" /\ UNCHANGED <<call, expired, registered, offset, buffer, pipe, worker, child, written>>
      /\ \/ registered = {} /\ pc' = "await" /\ outcome' = outcome
         \/ expired /\ pc' = "clean" /\ outcome' = "worker timeout"
         \/ ~expired /\ pc' = "events" /\ ready' = Ready /\ outcome' = outcome
  BY DEF Select, Here, Own, World, GoOn, Abandon
<1>2. PlaceInv' /\ ListensInv' /\ SaysInv' /\ ChildInv' /\ (call \in CheckedCalls)'
  BY <1>1, WorkerUntouched
<1>3. CourseInv'
  <2>1. Required(c)' = Required(c)  BY <1>1, SamePlaces
  <2>2. CASE registered = {} /\ pc' = "await"
    <3>1. c # "early-close"  BY <1>1, <2>2, EnvelopeNeverPasses DEF Busy
    <3>2. c \notin Stuck \ {"early-close"}  BY <1>1, <2>2 DEF CourseInv, Outputs
    <3>. QED  BY <1>1, <2>2, <3>1, <3>2 DEF CourseInv
  <2>3. CASE expired /\ pc' = "clean" /\ outcome' = "worker timeout"
    <3>1. c \in {"timeout", "lingering-child"}  BY <2>3 DEF PlaceInv
    <3>2. Required(c) = {"worker timeout"} /\ c \in Stuck  BY <3>1 DEF Required, Success, Stuck
    <3>. QED  BY <1>1, <2>1, <2>3, <3>1, <3>2 DEF CourseInv
  <2>4. CASE ~expired /\ pc' = "events" /\ ready' = Ready
    <3>1. ASSUME c = "timeout" PROVE Ready \subseteq {"stdin"}
      <4>1. Writable  BY <1>1, <2>4, <3>1, HeldOpen DEF Stuck, Busy
      <4>2. \A s \in Outputs : written[s] = <<>>  BY <2>4, <3>1, NothingSaid DEF Sleepers, Outputs
      <4>3. \A s \in Outputs : pipe[s] = <<>>  BY <4>2, OutputLengths
      <4>. QED  BY <4>1, <4>3 DEF Ready, Reported, Outputs
    <3>. QED  BY <1>1, <2>4, <3>1 DEF CourseInv
  <2>. QED  BY <1>1, <2>2, <2>3, <2>4
<1>. QED  BY <1>2, <1>3

\* stdin breaks only in the case that closes it.
LEMMA TimedFeed ==
  ASSUME ExchangeInv, TimedExchange, FeedStdin
  PROVE  TimedExchange'
<1> USE DEF ExchangeInv, TimedExchange
<1> DEFINE c == call.case
<1>1. /\ pc = "events" /\ "stdin" \in registered /\ UNCHANGED <<call, expired, worker, child, written>>
      /\ ready' \subseteq ready /\ registered' \subseteq registered
      /\ \A s \in Outputs : s \in registered => s \in registered'
      /\ \/ pc' \in {"select", "events"} /\ outcome' = outcome
         \/ ~Readable /\ pc' = "clean" /\ outcome' = "worker I/O failure"
  <2>1. /\ pc = "events" /\ "stdin" \in registered /\ UNCHANGED <<call, expired, worker, child, written>>
        /\ ready' = ready \ {"stdin"} /\ (registered' = registered \/ registered' = registered \ {"stdin"})
        /\ (pc' \in {"select", "events"} /\ outcome' = outcome) \/ (pc' = "clean" /\ outcome' = "worker I/O failure")
    BY FeedMoves DEF AdapterOK
  <2>2. Readable => pc' # "clean"
    BY DEF FeedStdin, NextRound, GoOn
  <2>. QED  BY <2>1, <2>2 DEF Outputs
<1>2. PlaceInv' /\ ListensInv' /\ SaysInv' /\ ChildInv' /\ (call \in CheckedCalls)'
  BY <1>1, WorkerUntouched
<1>3. CourseInv'
  <2>1. Required(c)' = Required(c)  BY <1>1, SamePlaces
  <2>2. CASE pc' \in {"select", "events"} /\ outcome' = outcome
    BY <1>1, <2>2 DEF CourseInv
  <2>3. CASE ~Readable /\ pc' = "clean" /\ outcome' = "worker I/O failure"
    <3>1. c = "early-close"  BY <1>1, <2>3, ListensStill DEF Busy
    <3>2. "worker I/O failure" \in Required(c) /\ c \in Stuck  BY <3>1 DEF Required, Success, Stuck
    <3>. QED  BY <1>1, <2>1, <2>3, <3>1, <3>2 DEF CourseInv
  <2>. QED  BY <1>1, <2>2, <2>3
<1>. QED  BY <1>2, <1>3

\* How much each worker can have written.
LEMMA SaidLittle ==
  ASSUME ExchangeInv, TimedExchange, pc \in Busy, NEW s \in Outputs, Len(written[s]) > call.maxOut[2]
  PROVE  call.case = (IF s = "stdout" THEN "oversized-stdout" ELSE "oversized-stderr")
<1> USE DEF ExchangeInv, TimedExchange
<1> DEFINE c == call.case
<1>0. CallIs(c) /\ PipeSize \in Nat /\ PipeSize > 1  BY CallFacts
<1>1. c \notin Refused  BY DEF CourseInv, Busy
<1>2. Len(<<>>) = 0 /\ Len(<<"reply">>) = 1  OBVIOUS
<1>3. CASE s = "stderr"
  <2>1. c # "oversized-stderr" => Len(written[s]) = 0  BY <1>2, <1>3 DEF SaysInv
  <2>2. call.maxOut[2] >= 0  BY <1>0 DEF CallIs
  <2>. QED  BY <1>0, <1>3, <2>1, <2>2 DEF CallIs
<1>4. CASE s = "stdout" /\ c \notin {"oversized-stdout", "oversized-stderr"}
  <2>1. call.maxOut[2] >= 5 /\ call.maxOut[2] \in Int  BY <1>0, <1>1, <1>4 DEF CallIs, Refused, LastCases
  <2>2. Len(written[s]) < 5 /\ Len(written[s]) \in Nat
    <3>1. CASE c # "duplex"
      <4>1. written[s] = <<>> \/ written[s] = <<"reply">>  BY <1>4, <3>1 DEF SaysInv
      <4>2. CASE written[s] = <<>>  BY <1>2, <4>2
      <4>3. CASE written[s] = <<"reply">>  BY <1>2, <4>3
      <4>. QED  BY <4>1, <4>2, <4>3
    <3>2. CASE c = "duplex"
      <4>1. written[s] = Said[worker.at]  BY <1>4, <3>2 DEF SaysInv
      <4>2. worker.at \in 1 .. 7
        <5>1. Program = Script(c)  BY ScriptOfCase DEF WorkerOK
        <5>2. Len(Program) = 7  BY <5>1, <3>2 DEF Script
        <5>. QED  BY <5>2 DEF PlaceInv
      <4>3. /\ Len(Said[1]) = 0 /\ Len(Said[2]) = 0 /\ Len(Said[3]) = 1 /\ Len(Said[4]) = 2
            /\ Len(Said[5]) = 3 /\ Len(Said[6]) = 3 /\ Len(Said[7]) = 4
        BY DEF Said
      <4>4. \A i \in 1 .. 7 : Len(Said[i]) \in {0, 1, 2, 3, 4}
        <5>1. Len(Said[1]) \in {0, 1, 2, 3, 4} /\ Len(Said[2]) \in {0, 1, 2, 3, 4} /\ Len(Said[3]) \in {0, 1, 2, 3, 4}  BY <4>3
        <5>2. Len(Said[4]) \in {0, 1, 2, 3, 4} /\ Len(Said[5]) \in {0, 1, 2, 3, 4}  BY <4>3
        <5>3. Len(Said[6]) \in {0, 1, 2, 3, 4} /\ Len(Said[7]) \in {0, 1, 2, 3, 4}  BY <4>3
        <5>4. \A i \in 1 .. 7 : i = 1 \/ i = 2 \/ i = 3 \/ i = 4 \/ i = 5 \/ i = 6 \/ i = 7  OBVIOUS
        <5>. QED  BY <5>1, <5>2, <5>3, <5>4, Zenon
      <4> DEFINE l == Len(Said[worker.at])
      <4>5. l \in {0, 1, 2, 3, 4}  BY <4>2, <4>4
      <4>6. Len(written[s]) = l  BY <4>1
      <4> HIDE DEF l
      <4>. QED  BY <4>5, <4>6
    <3>. QED  BY <3>1, <3>2
  <2>. QED  BY <2>1, <2>2
<1>5. CASE s = "stdout" /\ c = "oversized-stderr"
  <2>1. ~expired  BY <1>5 DEF PlaceInv
  <2>2. written[s] = <<>>  BY <1>5, <2>1, NothingSaid DEF Sleepers
  <2>3. call.maxOut[2] >= 0  BY <1>0 DEF CallIs
  <2>. QED  BY <1>0, <1>2, <2>2, <2>3 DEF CallIs
<1>6. CASE s = "stdout" /\ c = "oversized-stdout"  BY <1>6
<1>. QED  BY <1>3, <1>4, <1>5, <1>6 DEF Outputs

-----------------------------------------------------------------------------
\* It gives up, waits and cleans up.

\* An output is given up only for what the case says too much on, and a worker
\* that is stuck keeps both open.
LEMMA TimedDrain ==
  ASSUME ExchangeInv, TimedExchange, NEW s \in Outputs, Drain(s)
  PROVE  TimedExchange'
<1> USE DEF ExchangeInv, TimedExchange
<1> DEFINE c == call.case
           large == IF s = "stdout" THEN "worker output too large" ELSE "worker stderr too large"
           wide == IF s = "stdout" THEN "oversized-stdout" ELSE "oversized-stderr"
<1>1. /\ pc = "events" /\ s \in ready /\ UNCHANGED <<call, expired, worker, child, written>>
      /\ ready' \subseteq ready /\ registered' \subseteq registered
      /\ registered' = registered \/ ~Writable
      /\ \/ pc' \in {"select", "events"} /\ outcome' = outcome
         \/ pc' = "clean" /\ outcome' = large /\ Len(written[s]) > call.maxOut[2]
  <2>1. /\ pc = "events" /\ s \in ready /\ UNCHANGED <<call, expired, worker, child, written>>
        /\ ready' = ready \ {s}
        /\ \/ registered' = registered
           \/ registered' = registered \ {s} /\ ~Writable
    BY DrainMoves
  <2>2. pc' \in {"select", "events", "clean"} /\ (pc' # "clean" => outcome' = outcome)
    BY DrainMoves
  <2>3. ASSUME pc' = "clean" PROVE outcome' = large /\ Len(written[s]) > call.maxOut[2]
    <3> DEFINE k == Min({Chunk, call.maxOut[2] - Len(buffer[s]) + 1, Len(pipe[s])})
    <3>1. Len(buffer[s]) + k > call.maxOut[2] /\ outcome' = large
      <4> HIDE DEF k
      <4>. QED  BY <2>3 DEF Drain, k, NextRound, GoOn, Abandon
    <3>2. /\ Len(buffer[s]) \in Nat /\ Len(pipe[s]) \in Nat /\ call.maxOut[2] \in Int
          /\ Len(written[s]) = Len(buffer[s]) + Len(pipe[s])
      BY OutputLengths, CallsAssumption DEF AdapterOK
    <3>3. k <= Len(pipe[s]) /\ k \in Int
      <4> DEFINE a == call.maxOut[2] - Len(buffer[s]) + 1
                 b == Len(pipe[s])
      <4>1. Chunk \in Int /\ a \in Int /\ b \in Int  BY <3>2, ExchangeAssumption
      <4> HIDE DEF a, b
      <4>2. Min({Chunk, a, b}) \in {Chunk, a, b} /\ Min({Chunk, a, b}) <= b  BY <4>1, MinOfThree, Zenon
      <4>3. Min({Chunk, a, b}) \in Int  BY <4>1, <4>2
      <4>. QED  BY <4>2, <4>3 DEF a, b
    <3> DEFINE x == Len(buffer[s])
               y == Len(pipe[s])
               m == call.maxOut[2]
               w == Len(written[s])
    <3>4. x \in Nat /\ y \in Nat /\ m \in Int /\ k \in Int /\ w = x + y /\ k <= y /\ x + k > m
      BY <3>1, <3>2, <3>3
    <3> HIDE DEF k, x, y, m, w
    <3>5. w > m  BY <3>4
    <3>. QED  BY <3>1, <3>5 DEF w, m
  <2>. QED  BY <2>1, <2>2, <2>3
<1>2. PlaceInv' /\ ListensInv' /\ SaysInv' /\ ChildInv' /\ (call \in CheckedCalls)'
  BY <1>1, WorkerUntouched
<1>3. CourseInv'
  <2>1. Required(c)' = Required(c)  BY <1>1, SamePlaces
  <2>2. CASE pc' \in {"select", "events"} /\ outcome' = outcome
    <3>1. c \in Stuck \ {"early-close"} => Outputs \subseteq registered'
      <4>1. c = "timeout" => FALSE  BY <1>1 DEF CourseInv, Outputs
      <4>2. c \in Stuck \ {"early-close"} => Writable  BY <1>1, <4>1, HeldOpen DEF Busy
      <4>. QED  BY <1>1, <4>2 DEF CourseInv
    <3>. QED  BY <1>1, <2>2, <3>1 DEF CourseInv
  <2>3. CASE pc' = "clean" /\ outcome' = large /\ Len(written[s]) > call.maxOut[2]
    <3>1. c = wide  BY <1>1, <2>3, SaidLittle DEF Busy
    <3>2. c \in Stuck /\ large \in Required(c)  BY <3>1 DEF Stuck, Required, Success
    <3> HIDE DEF large, wide
    <3>. QED  BY <1>1, <2>1, <2>3, <3>2 DEF CourseInv
  <2>. QED  BY <1>1, <2>2, <2>3
<1>. QED  BY <1>2, <1>3

\* Once the pipes are closed, the worker ends in time.
LEMMA TimedAwait ==
  ASSUME ExchangeInv, TimedExchange, AwaitExit
  PROVE  TimedExchange'
<1> USE DEF ExchangeInv, TimedExchange
<1> DEFINE c == call.case
<1>1. /\ pc = "await" /\ UNCHANGED <<call, expired, registered, ready, offset, buffer, pipe, worker, child, written>>
      /\ (pc' = "clean" /\ outcome' = outcome) \/ expired
      /\ pc' = "clean"
  BY DEF AwaitExit, Here, Own, Keep, World, GoOn, Abandon
<1>2. PlaceInv' /\ ListensInv' /\ SaysInv' /\ ChildInv' /\ (call \in CheckedCalls)'
  BY <1>1, WorkerUntouched
<1>3. c \notin Stuck  BY <1>1 DEF CourseInv
<1>4. ~expired  BY <1>3 DEF PlaceInv, Stuck
<1>5. outcome = "none"  BY <1>1 DEF OutcomeInv, Busy
<1>6. CourseInv'  BY <1>1, <1>3, <1>4, <1>5 DEF CourseInv
<1>. QED  BY <1>2, <1>6

\* The deadline passes where a worker sleeps or has left its child behind.
LEMMA TimedDeadline ==
  ASSUME ExchangeInv, TimedExchange, Deadline, OnTime
  PROVE  TimedExchange'
<1> USE DEF ExchangeInv, TimedExchange
<1>1. /\ UNCHANGED <<call, pc, registered, ready, offset, buffer, outcome, pipe, worker, child, written>>
      /\ ~expired /\ expired' /\ pc \in Busy
  BY DEF Deadline, adapter, World, Busy
<1>2. call.case \in {"timeout", "lingering-child"}  BY <1>1 DEF OnTime
<1>3. Program' = Program /\ InputEnd' = InputEnd /\ SleepsAt' = SleepsAt /\ (Denied <=> Denied')
      /\ \A c : Required(c)' = Required(c)
  BY <1>1, SameProgram, SamePlaces
<1>4. PlaceInv'  BY <1>1, <1>2, <1>3 DEF PlaceInv
<1>5. ListensInv' /\ SaysInv'  BY <1>1, <1>3 DEF ListensInv, SaysInv
<1>6. ChildInv'  BY <1>1, <1>3 DEF ChildInv, Alive
<1>7. CourseInv'  BY <1>1, <1>3 DEF CourseInv, Busy
<1>8. (call \in CheckedCalls)'  BY <1>1 DEF CheckedCalls, MainCall, Large
<1>. QED  BY <1>4, <1>5, <1>6, <1>7, <1>8

\* The cleanup fails where it is denied; and an answer is judged only of a worker
\* that has ended.
LEMMA TimedCleanup ==
  ASSUME ExchangeInv, TimedExchange, Cleanup, OnTime
  PROVE  TimedExchange'
<1> USE DEF ExchangeInv, TimedExchange
<1> DEFINE c == call.case
<1>1. /\ pc = "clean" /\ UNCHANGED <<call, expired, ready, offset, buffer, pipe, written>> /\ registered' = {}
      /\ worker'.at = worker.at /\ worker'.got = worker.got /\ worker'.eof = worker.eof
      /\ worker'.closed = worker.closed /\ worker'.environment = worker.environment
      /\ \/ /\ worker' = Killed /\ child' = "gone" /\ outcome' = outcome
            /\ pc' = IF outcome = "none" THEN "admit" ELSE "done"
         \/ UNCHANGED <<worker, child>> /\ pc' = "done" /\ outcome' = "worker cleanup failure"
  <2>1. /\ pc = "clean" /\ UNCHANGED <<call, expired, ready, offset, buffer, pipe, written>> /\ registered' = {}
        /\ \/ /\ worker' = Killed /\ child' = "gone" /\ outcome' = outcome
              /\ pc' = IF outcome = "none" THEN "admit" ELSE "done"
           \/ UNCHANGED <<worker, child>> /\ pc' = "done" /\ outcome' = "worker cleanup failure"
    BY DEF Cleanup, Here, Own, Refuse, GoOn
  <2>2. /\ Killed.at = worker.at /\ Killed.got = worker.got /\ Killed.eof = worker.eof
        /\ Killed.closed = worker.closed /\ Killed.environment = worker.environment
    BY DEF Killed, WorkerOK
  <2>. QED  BY <2>1, <2>2
<1>k. /\ Killed.state \in {"exited", "killed", "none"}
      /\ Alive => Killed.state = "killed"
      /\ ~Alive => Killed = worker
  BY DEF Killed, Alive, WorkerOK
<1>2. outcome' = "worker cleanup failure" <=> Denied
  BY <1>1 DEF OnTime, Here
<1>3. outcome # "worker cleanup failure"  BY <1>1 DEF OutcomeInv
<1>4. /\ Program' = Program /\ InputEnd' = InputEnd /\ SleepsAt' = SleepsAt /\ (Denied <=> Denied')
      /\ Required(c)' = Required(c)
  BY <1>1, SameProgram, SamePlaces
<1>5. c \in CheckedCases \ Refused  BY <1>1, CallFacts DEF CourseInv, CallIs
<1>6. (call \in CheckedCalls)'  BY <1>1 DEF CheckedCalls, MainCall, Large
<1>7. ListensInv' /\ SaysInv'  BY <1>1, <1>4 DEF ListensInv, SaysInv
<1>8. CASE worker' = Killed /\ child' = "gone" /\ outcome' = outcome
  <2>1. ~Denied  BY <1>2, <1>3, <1>8
  <2>2. pc' = IF outcome = "none" THEN "admit" ELSE "done"  BY <1>1, <1>2, <2>1
  <2>3. outcome = "none" => c \in Judged /\ worker.state = "exited"
    <3> SUFFICES ASSUME outcome = "none" PROVE c \in Judged /\ worker.state = "exited"
      OBVIOUS
    <3>1. c \notin Stuck
      <4>1. c \in Stuck => "none" \notin Required(c)  BY DEF Stuck, Required, Success
      <4>. QED  BY <1>1, <4>1 DEF CourseInv
    <3>2. ~Alive  BY <1>1 DEF OutputInv, Writable
    <3>. QED  BY <1>1, <1>5, <2>1, <3>1, <3>2, RunsOrExits DEF Judged, Denied
  <2>4. PlaceInv'
    <3>1. worker'.state = "exited" => worker' = worker  BY <1>8, <1>k
    <3>. QED  BY <1>1, <1>4, <2>2, <3>1 DEF PlaceInv
  <2>5. ChildInv'
    <3>1. ~Alive'  BY <1>8, <1>k DEF Alive
    <3>. QED  BY <1>4, <1>8, <2>1, <2>2, <3>1 DEF ChildInv
  <2>6. CourseInv'
    <3>1. outcome = "none" => worker' = worker  BY <1>8, <1>k, <2>3 DEF Alive
    <3>2. outcome # "none" => outcome \in Required(c)  BY <1>1 DEF CourseInv
    <3>. QED  BY <1>1, <1>4, <1>5, <1>8, <2>2, <2>3, <3>1, <3>2 DEF CourseInv
  <2>. QED  BY <1>6, <1>7, <2>4, <2>5, <2>6
<1>9. CASE UNCHANGED <<worker, child>> /\ pc' = "done" /\ outcome' = "worker cleanup failure"
  <2>1. Denied  BY <1>2, <1>9
  <2>2. outcome' \in Required(c)  BY <1>9, <2>1 DEF Denied, Required, Success
  <2>3. PlaceInv'  BY <1>1, <1>4, <1>9 DEF PlaceInv
  <2>4. ChildInv'  BY <1>4, <1>9, <2>1 DEF ChildInv
  <2>5. CourseInv'  BY <1>1, <1>4, <1>9, <2>2 DEF CourseInv
  <2>. QED  BY <1>6, <1>7, <2>3, <2>4, <2>5
<1>. QED  BY <1>1, <1>8, <1>9

-----------------------------------------------------------------------------
\* The answers.

\* What a message says, member by member.
LEMMA MessageSays ==
  ASSUME NEW v, NEW m, Says(v, Message(m))
  PROVE  IsObj(v) /\ Keys(v) = Members /\ \A k \in Members : Get(v, k) = m[k]
<1> DEFINE t == Message(m)
<1>1. DOMAIN t = 1 .. 8 /\ \A i \in 1 .. 8 : t[i][1] = Fields[i] /\ t[i][2] = m[Fields[i]]
  <2>1. DOMAIN Fields = 1 .. 8  BY DEF Fields
  <2>2. t = [i \in 1 .. 8 |-> <<Fields[i], m[Fields[i]]>>]  BY <2>1 DEF Message
  <2>. QED  BY <2>2
<1>2. {Fields[i] : i \in 1 .. 8} = Members
  <2>1. /\ Fields[1] = "status" /\ Fields[2] = "plaintext" /\ Fields[3] = "plaintext_sha256" /\ Fields[4] = "profile_revision"
        /\ Fields[5] = "plugin_digest" /\ Fields[6] = "age_digest" /\ Fields[7] = "uv_mode" /\ Fields[8] = "timing_class"
    BY DEF Fields
  <2>2. \A i \in 1 .. 8 : i = 1 \/ i = 2 \/ i = 3 \/ i = 4 \/ i = 5 \/ i = 6 \/ i = 7 \/ i = 8  OBVIOUS
  <2>3. 1 \in 1 .. 8 /\ 2 \in 1 .. 8 /\ 3 \in 1 .. 8 /\ 4 \in 1 .. 8 /\ 5 \in 1 .. 8 /\ 6 \in 1 .. 8 /\ 7 \in 1 .. 8 /\ 8 \in 1 .. 8  OBVIOUS
  <2>4. \A i \in 1 .. 8 : Fields[i] \in Members  BY <2>1, <2>2, Zenon DEF Members
  <2>5. \A k \in Members : \E i \in 1 .. 8 : Fields[i] = k  BY <2>1, <2>3, Zenon DEF Members
  <2>. QED  BY <2>4, <2>5
<1> HIDE DEF t
<1>3. /\ IsObj(v) /\ Keys(v) = {t[i][1] : i \in DOMAIN t}
      /\ \A i \in DOMAIN t : Get(v, t[i][1]) = t[i][2]
  BY DEF Says, t
<1>4. {t[i][1] : i \in DOMAIN t} = {Fields[i] : i \in 1 .. 8}  BY <1>1
<1>5. ASSUME NEW k \in Members PROVE Get(v, k) = m[k]
  <2>1. PICK i \in 1 .. 8 : k = Fields[i]  BY <1>2
  <2>2. Get(v, t[i][1]) = t[i][2]  BY <1>1, <1>3
  <2>. QED  BY <1>1, <2>1, <2>2
<1>. QED  BY <1>2, <1>3, <1>4, <1>5

\* Two strings are the same where their tokens are.
LEMMA StrOf ==
  ASSUME NEW x
  PROVE  IsStr(Str(x)) /\ Str(x)[2] = <<x>> /\ <<x>>[1] = x /\ Str(x)[2][1] = x /\ Str(x)[1] = "str"
BY DEF Str, Text, IsStr

\* A message that is in order but for its plugin and its way of verification.
Orderly(m, p, g) ==
    /\ m["status"] = Str("ok") /\ m["profile_revision"] = Str("profile-v1") /\ m["age_digest"] = Str("age")
    /\ m["timing_class"] = Str("bounded") /\ m["plaintext"] = Str(p) /\ m["plugin_digest"] = Str(g)
    /\ <<p>> \in DOMAIN Hex /\ m["plaintext_sha256"] = Str(Sha256[Hex[<<p>>]])

\* The first thing that is wrong with it.
LEMMA MessageJudged ==
  ASSUME NEW v, NEW m, NEW p, NEW g, Says(v, Message(m)), Orderly(m, p, g)
  PROVE  Diagnosis(v) = IF g # "plugin" THEN "plugin_digest mismatch"
                        ELSE IF m["uv_mode"] \notin {Str("built-in"), Str("pin")} THEN "unknown UV mode" ELSE "result"
<1> DEFINE h == Sha256[Hex[<<p>>]]
           u == m["uv_mode"]
<1>1. /\ m["status"] = Str("ok") /\ m["plaintext"] = Str(p) /\ m["plaintext_sha256"] = Str(h) /\ m["profile_revision"] = Str("profile-v1")
      /\ m["plugin_digest"] = Str(g) /\ m["age_digest"] = Str("age") /\ m["uv_mode"] = u /\ m["timing_class"] = Str("bounded")
      /\ <<p>> \in DOMAIN Hex
  BY DEF Orderly
<1>2. Says(v, Message(m))  OBVIOUS
<1> HIDE DEF u
<1>3. IsObj(v) /\ Keys(v) = Members /\ \A k \in Members : Get(v, k) = m[k]  BY <1>2, MessageSays
<1>4. /\ Get(v, "status") = Str("ok") /\ Get(v, "plaintext") = Str(p) /\ Get(v, "plaintext_sha256") = Str(h)
      /\ Get(v, "profile_revision") = Str("profile-v1") /\ Get(v, "plugin_digest") = Str(g) /\ Get(v, "age_digest") = Str("age")
      /\ Get(v, "uv_mode") = u /\ Get(v, "timing_class") = Str("bounded") /\ Has(v, "status")
  BY <1>1, <1>3, Zenon DEF Members, Has
<1>5. Request["profile_revision"] = "profile-v1" /\ Request["plugin_digest"] = "plugin" /\ Request["age_digest"] = "age"
  BY CheckAssumption
<1>6. ~Differs(v, "profile_revision") /\ ~Differs(v, "age_digest")  BY <1>4, <1>5 DEF Differs
<1>7. Differs(v, "plugin_digest") <=> g # "plugin"
  <2>1. Str(g) = Str("plugin") => g = "plugin"  BY StrOf
  <2>. QED  BY <1>4, <1>5, <2>1 DEF Differs
<1>8. IsStr(Get(v, "plaintext")) /\ Get(v, "plaintext")[2] = <<p>>  BY <1>4, StrOf
<1>. QED  BY <1>1, <1>3, <1>4, <1>6, <1>7, <1>8 DEF Diagnosis, u

\* The checks answer each case as required.
LEMMA AnswerJudged ==
  ASSUME call \in CheckedCalls, call.case \in Judged \ {"crash"}
  PROVE  LET d == DecodeStrictJson(call.reply)
         IN  (IF ~IsOk(d) THEN (IF d[2] \in StrictErrors THEN "malformed worker output" ELSE "raised") ELSE Diagnosis(d[2]))
             \in Required(call.case)
<1> DEFINE c == call.case
           d == DecodeStrictJson(Answer(c))
           v == d[2]
           verdict == IF ~IsOk(d) THEN (IF d[2] \in StrictErrors THEN "malformed worker output" ELSE "raised") ELSE Diagnosis(d[2])
<1>0. CallIs(c)  BY CallFacts
<1>1. call.reply = Answer(c) /\ c \in CheckedCases  BY <1>0 DEF CallIs
<1> SUFFICES verdict \in Required(c)  BY <1>1
<1>2. CASE c \in {"duplicate", "non-finite"}
  <2>1. ~IsOk(d) /\ d[2] \in StrictErrors  BY <1>1, <1>2, AnswersAssumption
  <2>2. Required(c) = {"malformed worker output"}  BY <1>2 DEF Required, Success
  <2>. QED  BY <2>1, <2>2
<1>3. CASE c \notin {"duplicate", "non-finite"}
  <2>1. IsOk(d) /\ Says(v, Answer(c)[2])  BY <1>1, <1>3, AnswersAssumption
  <2>a. /\ <<"6869">> \in DOMAIN Hex /\ Sha256[Hex[<<"6869">>]] = "digest"
        /\ <<"6868">> \in DOMAIN Hex /\ Sha256[Hex[<<"6868">>]] = "other"
    BY CheckAssumption
  <2>b. <<"arr", <<>>>> \notin {Str("built-in"), Str("pin")}
    <3>1. <<"arr", <<>>>>[1] = "arr"  OBVIOUS
    <3>. QED  BY <3>1, StrOf
  <2>2. CASE c \in {"success", "duplex", "complete-input", "redirected-child"}
    <3> DEFINE m == Usual
    <3>1. Answer(c)[2] = Message(m)  BY <2>2 DEF Answer
    <3>2. Orderly(m, "6869", "plugin") /\ m["uv_mode"] = Str("built-in")  BY <2>a DEF Usual, Orderly
    <3> HIDE DEF m
    <3>3. Says(v, Message(m))  BY <2>1, <3>1
    <3>4. Diagnosis(v) = "result"  BY <2>b, <3>2, <3>3, MessageJudged
    <3>5. Required(c) = {"result"}  BY <2>2 DEF Required, Success
    <3>. QED  BY <2>1, <3>4, <3>5
  <2>3. CASE c = "pin"
    <3> DEFINE m == [Usual EXCEPT !.uv_mode = Str("pin")]
    <3>1. Answer(c)[2] = Message(m)  BY <2>3 DEF Answer
    <3>2. Orderly(m, "6869", "plugin") /\ m["uv_mode"] = Str("pin")  BY <2>a DEF Usual, Orderly
    <3> HIDE DEF m
    <3>3. Says(v, Message(m))  BY <2>1, <3>1
    <3>4. Diagnosis(v) = "result"  BY <2>b, <3>2, <3>3, MessageJudged
    <3>5. Required(c) = {"result"}  BY <2>3 DEF Required, Success
    <3>. QED  BY <2>1, <3>4, <3>5
  <2>4. CASE c = "mismatch"
    <3> DEFINE m == [Usual EXCEPT !.plaintext = Str("6868"), !.plaintext_sha256 = Str("other"), !.plugin_digest = Str("x")]
    <3>1. Answer(c)[2] = Message(m)  BY <2>4 DEF Answer
    <3>2. Orderly(m, "6868", "x") /\ m["uv_mode"] = Str("built-in")  BY <2>a DEF Usual, Orderly
    <3> HIDE DEF m
    <3>3. Says(v, Message(m))  BY <2>1, <3>1
    <3>4. Diagnosis(v) = "plugin_digest mismatch"
      <4>1. Orderly(m, "6868", "x")  BY <3>2
      <4>2. Diagnosis(v) = IF "x" # "plugin" THEN "plugin_digest mismatch"
                           ELSE IF m["uv_mode"] \notin {Str("built-in"), Str("pin")} THEN "unknown UV mode" ELSE "result"
        BY <3>3, <4>1, MessageJudged
      <4>. QED  BY <4>2
    <3>5. Required(c) = {"plugin_digest mismatch"}  BY <2>4 DEF Required, Success
    <3>. QED  BY <2>1, <3>4, <3>5
  <2>5. CASE c = "bad-uv"
    <3> DEFINE m == [Usual EXCEPT !.uv_mode = <<"arr", <<>>>>]
    <3>1. Answer(c)[2] = Message(m)  BY <2>5 DEF Answer
    <3>2. Orderly(m, "6869", "plugin") /\ m["uv_mode"] = <<"arr", <<>>>>  BY <2>a DEF Usual, Orderly
    <3> HIDE DEF m
    <3>3. Says(v, Message(m))  BY <2>1, <3>1
    <3>4. Diagnosis(v) = "unknown UV mode"  BY <2>b, <3>2, <3>3, MessageJudged
    <3>5. Required(c) = {"unknown UV mode"}  BY <2>5 DEF Required, Success
    <3>. QED  BY <2>1, <3>4, <3>5
  <2>6. CASE c = "partial"
    <3> DEFINE t == <<<<"status", Str("ok")>>>>
    <3>1. Answer(c)[2] = t  BY <2>6 DEF Answer
    <3>2. DOMAIN t = {1} /\ t[1][1] = "status" /\ t[1][2] = Str("ok")  OBVIOUS
    <3> HIDE DEF t
    <3>3. IsObj(v) /\ Keys(v) = {"status"} /\ Get(v, "status") = Str("ok")
      BY <2>1, <3>1, <3>2 DEF Says
    <3>4. Keys(v) # Members  BY <3>3 DEF Members
    <3>5. Diagnosis(v) = "incomplete worker output"  BY <3>3, <3>4 DEF Diagnosis, Has
    <3>6. Required(c) = {"incomplete worker output"}  BY <2>6 DEF Required, Success
    <3>. QED  BY <2>1, <3>5, <3>6
  <2>. QED  BY <1>1, <1>3, <2>2, <2>3, <2>4, <2>5, <2>6 DEF Judged, CheckedCases, Stuck, Refused, LastCases
<1>. QED  BY <1>2, <1>3

-----------------------------------------------------------------------------
\* They are judged; every step of the exchange.

\* Blanks and one reply are the reply.
LEMMA ReplyRead ==
  ReplyIn(<<"reply">>) = call.reply /\ ReplyIn(Said[7]) = call.reply
<1>1. ReplyIn(<<"reply">>) = call.reply
  <2> DEFINE t == <<"reply">>
  <2>1. DOMAIN t = {1} /\ t[1] = "reply"  OBVIOUS
  <2> HIDE DEF t
  <2>2. ReplyIn(t) = call.reply  BY <2>1 DEF ReplyIn
  <2>. QED  BY <2>2 DEF t
<1>2. ReplyIn(Said[7]) = call.reply
  <2> DEFINE t == Said[7]
  <2>1. DOMAIN t = 1 .. 4 /\ t[1] = "pad" /\ t[2] = "pad" /\ t[3] = "pad" /\ t[4] = "reply"  BY DEF Said
  <2> HIDE DEF t
  <2>2. 4 \in DOMAIN t /\ \A j \in DOMAIN t \ {4} : t[j] = "pad"
    <3>1. \A j \in 1 .. 4 : j = 1 \/ j = 2 \/ j = 3 \/ j = 4  OBVIOUS
    <3>. QED  BY <2>1, <3>1
  <2>3. ReplyIn(t) = call.reply  BY <2>1, <2>2 DEF ReplyIn
  <2>. QED  BY <2>3 DEF t
<1>. QED  BY <1>1, <1>2

\* The answer is judged as the case requires.
LEMMA TimedAdmit ==
  ASSUME ExchangeInv, TimedExchange, Admit
  PROVE  TimedExchange'
<1> USE DEF ExchangeInv, TimedExchange
<1> DEFINE c == call.case
           n == worker.at
           last == Len(Program)
<1>1. /\ pc = "admit" /\ pc' = "done"
      /\ UNCHANGED <<call, expired, registered, ready, offset, buffer, pipe, worker, child, written>>
  BY DEF Admit, Here, Own, Keep, World, Refuse
<1>2. c \in Judged /\ worker.state = "exited"  BY <1>1 DEF CourseInv
<1>3. outcome' \in Required(c)
  <2>1. Placed(c, n, last, Step) /\ Writes(c, n, last, Step) /\ Step[1] = "exit" /\ Step[2] = worker.status
    BY <1>1, <1>2, RunsOrExits DEF Busy
  <2>2. CASE c = "crash"
    <3>1. worker.status = 9  BY <2>1, <2>2 DEF Placed, PlaceInv
    <3>2. outcome' = "worker failure"
      <4>1. worker.status # 0  BY <3>1
      <4>2. \E x : outcome' = IF worker.status # 0 THEN "worker failure" ELSE x  BY Zenon DEF Admit, Refuse
      <4>. QED  BY <4>1, <4>2
    <3>. QED  BY <2>2, <3>2 DEF Required, Success
  <2>3. CASE c # "crash"
    <3>1. c \notin Sleepers  BY <1>2 DEF Judged, Stuck, Sleepers
    <3>2. n = last /\ worker.status = 0  BY <2>1, <2>3, <3>1 DEF Placed
    <3>3. written["stdout"] = <<"reply">> \/ written["stdout"] = Said[7]
      <4>1. c # "oversized-stdout"  BY <3>1 DEF Sleepers
      <4>2. c = "duplex" => n = 7  BY <2>1, <3>2 DEF Writes
      <4>. QED  BY <3>2, <4>1, <4>2 DEF SaysInv
    <3>4. buffer["stdout"] = written["stdout"]
      <4>1. pipe["stdout"] = <<>> /\ written["stdout"] = buffer["stdout"] \o pipe["stdout"] /\ buffer["stdout"] \in Seq(Units)
        BY <1>1 DEF OutputInv, Outputs, AdapterOK
      <4>. QED  BY <4>1, ConcatEmptySeq
    <3>5. ReplyIn(buffer.stdout) = call.reply  BY <3>3, <3>4, ReplyRead
    <3>6. outcome' = LET d == DecodeStrictJson(call.reply)
                     IN  IF ~IsOk(d) THEN (IF d[2] \in StrictErrors THEN "malformed worker output" ELSE "raised") ELSE Diagnosis(d[2])
      BY <3>2, <3>5 DEF Admit, Refuse
    <3>. QED  BY <1>2, <2>3, <3>6, AnswerJudged
  <2>. QED  BY <2>2, <2>3
<1>4. Program' = Program /\ InputEnd' = InputEnd /\ SleepsAt' = SleepsAt /\ (Denied <=> Denied') /\ Required(c)' = Required(c)
  BY <1>1, SameProgram, SamePlaces
<1>5. PlaceInv'  BY <1>1, <1>4 DEF PlaceInv
<1>6. ListensInv' /\ SaysInv'  BY <1>1, <1>4 DEF ListensInv, SaysInv
<1>7. ChildInv'  BY <1>1, <1>4 DEF ChildInv, Alive
<1>8. CourseInv'  BY <1>1, <1>3, <1>4 DEF CourseInv
<1>9. (call \in CheckedCalls)'  BY <1>1 DEF CheckedCalls, MainCall, Large
<1>. QED  BY <1>5, <1>6, <1>7, <1>8, <1>9

\* Every step of the exchange that comes in time.
LEMMA TimedStep ==
  ASSUME ExchangeInv, TimedExchange, OnTime, Worker \/ Adapter \/ Deadline
  PROVE  TimedExchange'
<1>1. CASE Worker
  BY <1>1, TimedLaunch, TimedRead, TimedWrite, TimedWork, TimedChildEnds DEF Worker
<1>2. ASSUME NEW s \in Outputs, Drain(s) PROVE TimedExchange'  BY <1>2, TimedDrain
<1>3. CASE Adapter
  BY <1>2, <1>3, TimedConstruct, TimedUnwrap, TimedSelect, TimedFeed, TimedAwait, TimedCleanup, TimedAdmit DEF Adapter
<1>. QED  BY <1>1, <1>3, TimedDeadline

-----------------------------------------------------------------------------
\* The markers.

\* The records of the probe.
LEMMA RecordFacts ==
  /\ Len(Stepwise) = 4 /\ (mode = "stepwise" => Records = Stepwise)
  /\ \A n \in 1 .. 4 : Complete(Stepwise[n]) <=> n = 4
<1>1. /\ Len(Stepwise) = 4 /\ ~Complete(Stepwise[1]) /\ ~Complete(Stepwise[2]) /\ ~Complete(Stepwise[3]) /\ Complete(Stepwise[4])
  BY DEF Stepwise, Complete
<1>2. \A n \in 1 .. 4 : n = 1 \/ n = 2 \/ n = 3 \/ n = 4  OBVIOUS
<1>. QED  BY <1>1, <1>2 DEF Records

\* The producer of the free mode.
LEMMA FreeProducer ==
  ASSUME TimedMarkers, mode = "free", Producer, producer'.status # "nonzero"
  PROVE  TimedMarkers'
<1> USE DEF TimedMarkers, Doing, Then
<1>1. UNCHANGED <<mode, checker, seen, reads, late>> /\ ~Die
  <2>1. Die => producer'.status = "nonzero"  BY DEF Die
  <2>. QED  BY <2>1 DEF Producer
<1>2. DOMAIN producer' = DOMAIN producer
  BY <1>1 DEF Producer, Truncate, Record, Announce, Resume
<1>3. FreeInv  OBVIOUS
<1>4. checker # "passed" => producer'.does \in {"truncate", "write", "sleep"}
  BY <1>1, <1>3 DEF FreeInv, Producer, Truncate, Record, Announce, Resume
<1>5. FreeInv'  BY <1>1, <1>3, <1>4 DEF FreeInv
<1>. QED  BY <1>1, <1>2, <1>5

\* The check of the free mode.
LEMMA FreeChecker ==
  ASSUME TimedMarkers, mode = "free", Checker
  PROVE  TimedMarkers'
<1> USE DEF TimedMarkers, At, Doing, Proceed, Fail
<1>1. UNCHANGED <<mode, marker>> /\ FreeInv  BY DEF Checker
<1>2. CASE Reread  BY <1>1, <1>2 DEF Reread, FreeInv
<1>3. CASE Judge  BY <1>1, <1>3 DEF Judge, FreeInv
<1>4. CASE Poll  BY <1>1, <1>4 DEF Poll, FreeInv
<1>5. CASE Accept  BY <1>1, <1>5 DEF Accept, FreeInv
<1>6. CASE Finally
  <2>1. checker' \in {"passed"} /\ late' = late  BY <1>1, <1>6 DEF Finally, FreeInv
  <2>2. DOMAIN producer' = DOMAIN producer  BY <1>6 DEF Finally
  <2>. QED  BY <1>1, <2>1, <2>2 DEF FreeInv
<1>7. ~Barrier /\ ~CollectProducer  BY <1>1 DEF Barrier, CollectProducer, FreeInv
<1>. QED  BY <1>2, <1>3, <1>4, <1>5, <1>6, <1>7 DEF Checker

\* The producer of the probe.
LEMMA StepwiseProducer ==
  ASSUME TimedMarkers, mode = "stepwise", Producer, producer'.status # "nonzero"
  PROVE  TimedMarkers'
<1> USE DEF TimedMarkers, Doing, Then
<1>1. UNCHANGED <<mode, checker, seen, reads, late>> /\ ~Die
  <2>1. Die => producer'.status = "nonzero"  BY DEF Die
  <2>. QED  BY <2>1 DEF Producer
<1>2. DOMAIN producer' = DOMAIN producer
  BY <1>1 DEF Producer, Truncate, Record, Announce, Resume
<1>3. StepwiseInv /\ Records = Stepwise /\ Len(Stepwise) = 4  BY RecordFacts
<1>r. reads \in 0 .. 4  BY <1>3 DEF StepwiseInv
<1>4. CASE Truncate
  <2>1. producer.does = "truncate" /\ labels' = labels /\ plus' = plus
        /\ producer'.does = "write" /\ producer'.at = producer.at /\ producer'.status = producer.status
    BY <1>4 DEF Truncate
  <2>2. checker = "barrier" /\ Writing /\ labels = <<>>  BY <1>3, <2>1 DEF StepwiseInv, Waits, Writing
  <2>3. Writing'  BY <1>1, <2>1, <2>2 DEF Writing
  <2>. QED  BY <1>1, <1>2, <1>3, <2>2, <2>3 DEF StepwiseInv
<1>5. CASE Record
  <2>1. producer.does = "write" /\ labels' = labels /\ plus' = plus /\ marker' = Stepwise[producer.at]
        /\ producer'.does = "announce" /\ producer'.at = producer.at /\ producer'.status = producer.status
    BY <1>3, <1>5 DEF Record
  <2>2. checker = "barrier" /\ Writing /\ labels = <<>>  BY <1>3, <2>1 DEF StepwiseInv, Waits, Writing
  <2>3. Writing'  BY <1>1, <2>1, <2>2 DEF Writing
  <2>. QED  BY <1>1, <1>2, <1>3, <2>2, <2>3 DEF StepwiseInv
<1>6. CASE Announce
  <2>1. producer.does = "announce" /\ labels' = Append(labels, producer.at) /\ plus' = plus /\ marker' = marker
        /\ producer'.does = "await" /\ producer'.at = producer.at /\ producer'.status = producer.status
    BY <1>6 DEF Announce
  <2>2. checker = "barrier" /\ Writing /\ labels = <<>> /\ marker = Stepwise[reads + 1]  BY <1>3, <2>1 DEF StepwiseInv, Waits, Writing
  <2>3. labels' = <<reads + 1>>
    <3>1. producer.at = reads + 1  BY <2>2 DEF Writing
    <3>. QED  BY <2>1, <2>2, <3>1
  <2>4. Writing'  BY <1>1, <2>1, <2>2, <2>3 DEF Writing
  <2>. QED  BY <1>1, <1>2, <1>3, <2>2, <2>4 DEF StepwiseInv
<1>7. CASE Resume
  <2>1. producer.does = "await" /\ plus > 0 /\ plus' = plus - 1 /\ labels' = labels /\ marker' = marker
    BY <1>7 DEF Resume
  <2>2. CASE checker = "barrier"
    <3>1. reads > 0 /\ reads < 4 /\ plus = 1 /\ Waits(reads)
      <4>1. plus # 0  BY <2>1
      <4>. QED  BY <1>3, <2>2, <4>1 DEF StepwiseInv, Writing
    <3>2. producer.at = reads /\ producer.at # 4 /\ producer.status = "none" /\ labels = <<>>
      <4>1. producer.at = reads /\ producer.status = "none" /\ labels = <<>>  BY <3>1 DEF Waits
      <4>. QED  BY <3>1, <4>1, <1>r
    <3>3. producer' = [producer EXCEPT !.at = @ + 1, !.does = "truncate"]  BY <1>3, <1>7, <3>2 DEF Resume
    <3>4. producer'.at = reads + 1 /\ producer'.does = "truncate" /\ producer'.status = "none"
      <4>1. producer'.at = producer.at + 1 /\ producer'.does = "truncate" /\ producer'.status = producer.status  BY <3>3
      <4>. QED  BY <3>2, <4>1
    <3>5. plus' = 0  BY <2>1, <3>1
    <3>6. Writing'  BY <1>1, <2>1, <3>2, <3>4, <3>5 DEF Writing
    <3>. QED  BY <1>1, <1>2, <1>3, <2>2, <3>6 DEF StepwiseInv
  <2>3. CASE checker = "collect"
    <3>1. Waits(4)  BY <1>3, <2>1, <2>3 DEF StepwiseInv
    <3>2. producer.at = 4  BY <3>1 DEF Waits
    <3>3. producer' = [producer EXCEPT !.does = "exited", !.status = "zero"]  BY <1>3, <1>7, <3>2 DEF Resume
    <3>4. producer'.does = "exited" /\ producer'.status = "zero"  BY <3>3
    <3>. QED  BY <1>1, <1>2, <1>3, <2>3, <3>4 DEF StepwiseInv
  <2>4. checker \in {"barrier", "collect"}
    <3>1. plus # 0  BY <2>1
    <3>. QED  BY <1>3, <2>1, <3>1 DEF StepwiseInv
  <2>. QED  BY <2>2, <2>3, <2>4
<1>. QED  BY <1>1, <1>4, <1>5, <1>6, <1>7 DEF Producer

\* The check of the probe.
LEMMA StepwiseChecker ==
  ASSUME TimedMarkers, mode = "stepwise", Checker
  PROVE  TimedMarkers'
<1> USE DEF TimedMarkers, At, Doing, Proceed, Fail
<1>1. UNCHANGED <<mode, marker>>  BY DEF Checker
<1>3. StepwiseInv /\ Records = Stepwise /\ Len(Stepwise) = 4  BY RecordFacts
<1>r. reads \in 0 .. 4  BY <1>3 DEF StepwiseInv
<1>4. CASE Barrier
  <2>1. checker = "barrier" /\ UNCHANGED <<producer, plus, seen, reads>>  BY <1>4 DEF Barrier
  <2>2. reads < 4 /\ (reads > 0 => seen = Stepwise[reads]) /\ (Writing \/ (reads > 0 /\ plus = 1 /\ Waits(reads)))
    BY <1>3, <2>1 DEF StepwiseInv
  <2>3. producer.does # "exited"
    <3>1. \A n : Waits(n) => producer.does = "await"  BY DEF Waits
    <3>. QED  BY <2>2, <3>1 DEF Writing
  <2>4. labels # <<>>  BY <1>4, <2>3 DEF Barrier
  <2>5. Writing /\ producer.does = "await" /\ labels = <<reads + 1>> /\ marker = Stepwise[reads + 1]
    BY <2>2, <2>4 DEF Writing, Waits
  <2>6. Head(labels) = reads + 1 /\ Tail(labels) = <<>>  BY <2>5
  <2>7. labels' = <<>> /\ late' = late /\ checker' = IF reads = 0 THEN "read" ELSE "judge"
    BY <1>4, <2>4, <2>6 DEF Barrier
  <2>8. Waits(reads + 1)'
    <3>1. producer.at = reads + 1 /\ producer.does = "await" /\ producer.status = "none"  BY <2>5 DEF Writing
    <3>. QED  BY <1>1, <2>1, <2>5, <2>7, <3>1 DEF Waits
  <2>9. plus = 0  BY <2>5 DEF Writing
  <2>10. (reads = 0 \/ reads > 0) /\ reads # 4  BY <1>r, <2>2
  <2>. QED  BY <1>1, <1>3, <2>1, <2>2, <2>7, <2>8, <2>9, <2>10 DEF StepwiseInv
<1>5. CASE Reread
  <2>1. checker = "read" /\ seen' = marker /\ UNCHANGED <<producer, labels>>  BY <1>5 DEF Reread
  <2>2. reads < 4 /\ plus = 0 /\ Waits(reads + 1)  BY <1>3, <2>1 DEF StepwiseInv
  <2>3. marker = Stepwise[reads + 1]  BY <2>2 DEF Waits
  <2>4. CASE reads < 3
    <3>1. reads' = reads + 1 /\ checker' = "barrier" /\ late' = late /\ plus' = plus + 1
      BY <1>3, <1>5, <2>3, <2>4 DEF Reread
    <3>2. Waits(reads)'  BY <1>1, <2>1, <2>2, <3>1 DEF Waits
    <3>3. reads' \in 0 .. 4 /\ reads' < 4 /\ reads' > 0 /\ plus' = 1  BY <1>r, <2>2, <2>4, <3>1
    <3>4. seen' = Stepwise[reads']  BY <2>1, <2>3, <3>1
    <3>. QED  BY <1>1, <2>1, <3>1, <3>2, <3>3, <3>4 DEF StepwiseInv
  <2>5. CASE ~(reads < 3)
    <3>1. reads = 3  BY <1>r, <2>2, <2>5
    <3>2. reads' = 4 /\ checker' = "judge" /\ late' = late /\ plus' = plus  BY <1>5, <2>5 DEF Reread
    <3>3. Waits(4)  BY <2>2, <3>1
    <3>4. Waits(4)'  BY <1>1, <2>1, <3>3 DEF Waits
    <3>5. seen' = Stepwise[4]  BY <2>1, <2>3, <3>1
    <3>. QED  BY <1>1, <2>1, <2>2, <3>2, <3>4, <3>5 DEF StepwiseInv
  <2>. QED  BY <2>4, <2>5
<1>6. CASE Judge
  <2>1. checker = "judge" /\ UNCHANGED <<producer, plus, labels, seen, reads, late>>
        /\ checker' = IF Complete(seen) THEN "ready" ELSE "poll"
    BY <1>6 DEF Judge
  <2>2. reads > 0 /\ seen = Stepwise[reads] /\ plus = 0 /\ Waits(IF reads = 4 THEN 4 ELSE reads + 1)  BY <1>3, <2>1 DEF StepwiseInv
  <2>3. Complete(seen) <=> reads = 4
    <3>1. reads \in 1 .. 4  BY <1>r, <2>2
    <3>. QED  BY <2>2, <3>1, RecordFacts
  <2>4. Waits(IF reads = 4 THEN 4 ELSE reads + 1)'  BY <1>1, <2>1, <2>2 DEF Waits
  <2>5. reads # 4 => reads < 4  BY <1>r
  <2>. QED  BY <1>1, <1>r, <2>1, <2>2, <2>3, <2>4, <2>5 DEF StepwiseInv
<1>7. CASE Poll
  <2>1. checker = "poll" /\ UNCHANGED <<producer, plus, labels, seen, reads>>  BY <1>7 DEF Poll
  <2>2. reads < 4 /\ plus = 0 /\ Waits(IF reads = 4 THEN 4 ELSE reads + 1)  BY <1>3, <2>1 DEF StepwiseInv
  <2>3. Waits(reads + 1)  BY <2>2
  <2>4. producer.does = "await"  BY <2>3 DEF Waits
  <2>5. checker' = "read" /\ late' = late  BY <1>7, <2>4 DEF Poll
  <2>6. Waits(reads + 1)'  BY <1>1, <2>1, <2>3 DEF Waits
  <2>. QED  BY <1>1, <1>r, <2>1, <2>2, <2>5, <2>6 DEF StepwiseInv
<1>8. CASE Accept
  <2>1. checker = "ready" /\ UNCHANGED <<producer, labels, seen, reads>>  BY <1>8 DEF Accept
  <2>2. reads = 4 /\ plus = 0 /\ Waits(4)  BY <1>3, <2>1 DEF StepwiseInv
  <2>3. checker' = "collect" /\ late' = FALSE /\ plus' = 1  BY <1>8, <2>2 DEF Accept
  <2>4. Waits(4)'  BY <1>1, <2>1, <2>2 DEF Waits
  <2>. QED  BY <1>1, <1>r, <2>1, <2>3, <2>4 DEF StepwiseInv
<1>9. CASE CollectProducer
  <2>1. checker = "collect" /\ UNCHANGED <<producer, reads>>  BY <1>9 DEF CollectProducer
  <2>2. producer.does = "exited" => producer.status = "zero"
    <3>1. Waits(4) => producer.does = "await"  BY DEF Waits
    <3>. QED  BY <1>3, <2>1, <3>1 DEF StepwiseInv
  <2>3. producer.does = "exited" /\ checker' = "finally" /\ late' = late  BY <1>9, <2>2 DEF CollectProducer
  <2>. QED  BY <1>1, <1>r, <2>1, <2>3 DEF StepwiseInv
<1>10. CASE Finally
  <2>1. checker = "finally"  BY <1>3, <1>10 DEF Finally, StepwiseInv
  <2>2. producer.does = "exited"  BY <1>3, <2>1 DEF StepwiseInv
  <2>3. checker' = "passed" /\ late' = late /\ producer' = producer /\ reads' = reads  BY <1>10, <2>1, <2>2 DEF Finally
  <2>. QED  BY <1>1, <1>r, <2>2, <2>3 DEF StepwiseInv
<1>. QED  BY <1>4, <1>5, <1>6, <1>7, <1>8, <1>9, <1>10 DEF Checker

-----------------------------------------------------------------------------
\* main.

\* The constructor's checks tell the arguments that main expects to be taken from
\* those it expects to be refused.
LEMMA LimitsAreRight == LimitsAreChecked
<1>1. ASSUME NEW t \in TakenTimeouts \union RefusedTimeouts
      PROVE  Timely([type |-> t[1], value |-> t[2]]) <=> t \in TakenTimeouts
  <2>1. CASE t \in TakenTimeouts  BY <2>1 DEF TakenTimeouts, Timely
  <2>2. CASE t \in RefusedTimeouts
    <3>1. ~Timely([type |-> t[1], value |-> t[2]])  BY <2>2 DEF RefusedTimeouts, Timely
    <3>2. t \notin TakenTimeouts  BY <2>2 DEF RefusedTimeouts, TakenTimeouts
    <3>. QED  BY <3>1, <3>2
  <2>. QED  BY <2>1, <2>2
<1>2. IsLimit(<<"int", 1000000>>)  BY DEF IsLimit
<1>3. ASSUME NEW l \in RefusedLimits PROVE ~IsLimit(l)  BY DEF RefusedLimits, IsLimit
<1>. QED  BY <1>1, <1>2, <1>3 DEF LimitsAreChecked

\* What main requires of the child follows at the end of the exchange.
LEMMA ChildIsAsRequired ==
  ASSUME ChildInv, pc = "done"
  PROVE  ChildAsRequired
BY DEF ChildInv, ChildAsRequired, Denied, Refused, LastCases

\* It holds when main begins, and the limits are checked as they are.
LEMMA InitTimed ==
  ASSUME CheckInit, ExchangeInv
  PROVE  TimedInv
<1> SUFFICES ASSUME timed PROVE TimedInv
  BY DEF TimedInv
<1> USE DEF CheckInit
<1>1. /\ call \in CheckedCalls /\ pc = "construct" /\ registered = {} /\ expired = FALSE
      /\ worker.state = "none" /\ worker.environment = {} /\ worker.at = 1 /\ worker.got = <<>> /\ worker.eof = FALSE /\ worker.closed = FALSE
      /\ child = "none" /\ written["stdout"] = <<>> /\ written["stderr"] = <<>>
  BY DEF Init, Empty, Outputs
<1>2. Program = Script(call.case)  BY <1>1, Scripting DEF Scripted
<1>3. Len(Program) \in Nat /\ Len(Program) > 2
  <2> DEFINE m == Len(Script(call.case))
  <2>1. m \in Nat /\ m > 2  BY DEF Script
  <2>2. Len(Program) = m  BY <1>2
  <2> HIDE DEF m
  <2>. QED  BY <2>1, <2>2
<1>4. PlaceInv  BY <1>1, <1>3 DEF PlaceInv, SleepsAt
<1>5. ListensInv
  <2>1. Len(<<>>) < 2  OBVIOUS
  <2>. QED  BY <1>1, <2>1 DEF ListensInv, InputEnd
<1>6. SaysInv
  <2>1. Said[1] = <<>>  BY DEF Said
  <2>2. worker.at # Len(Program)
    <3> DEFINE m == Len(Program)
    <3>1. m \in Nat /\ m > 2 /\ worker.at = 1  BY <1>1, <1>3
    <3> HIDE DEF m
    <3>2. worker.at # m  BY <3>1
    <3>. QED  BY <3>2 DEF m
  <2>. QED  BY <1>1, <2>1, <2>2 DEF SaysInv
<1>7. ChildInv /\ CourseInv  BY <1>1 DEF ChildInv, CourseInv
<1>8. TimedMarkers
  <2>1. DOMAIN producer = {"at", "does", "status"} /\ producer.at = 1 /\ producer.does = "truncate" /\ producer.status = "none"
    BY DEF MarkerInit
  <2>2. plus = 0 /\ labels = <<>> /\ reads = 0 /\ late = FALSE
        /\ (\/ mode = "stepwise" /\ checker = "barrier"
            \/ mode = "free" /\ checker = "read")
    BY DEF MarkerInit
  <2>. QED  BY <2>1, <2>2 DEF TimedMarkers, FreeInv, StepwiseInv, Writing
<1>9. stage = "markers"  OBVIOUS
<1>. QED  BY <1>1, <1>4, <1>5, <1>6, <1>7, <1>8, <1>9 DEF TimedInv, TimedExchange

\* The exchange is where it was as long as nothing of it changes.
LEMMA ExchangeRests ==
  ASSUME TimedExchange, UNCHANGED vars
  PROVE  TimedExchange'
<1> USE DEF TimedExchange, vars
<1>1. Program' = Program /\ InputEnd' = InputEnd /\ SleepsAt' = SleepsAt /\ (Denied <=> Denied') /\ \A c : Required(c)' = Required(c)
  BY SameProgram, SamePlaces
<1>2. PlaceInv'  BY <1>1 DEF PlaceInv
<1>3. ListensInv' /\ SaysInv'  BY <1>1 DEF ListensInv, SaysInv
<1>4. ChildInv'  BY <1>1 DEF ChildInv, Alive
<1>5. CourseInv'  BY <1>1 DEF CourseInv
<1>6. (call \in CheckedCalls)'  BY DEF CheckedCalls, MainCall, Large
<1>. QED  BY <1>2, <1>3, <1>4, <1>5, <1>6

\* So are the markers.
LEMMA MarkersRest ==
  ASSUME TimedMarkers, UNCHANGED markerVars
  PROVE  TimedMarkers'
BY DEF TimedMarkers, markerVars, FreeInv, StepwiseInv, Writing, Waits

\* Every step of main on a machine that keeps its times keeps it, given what
\* holds of the exchange in any case.
LEMMA StepTimed ==
  ASSUME ExchangeInv, TimedInv, [CheckNext]_checkVars
  PROVE  TimedInv'
<1> SUFFICES ASSUME timed' PROVE TimedInv'
  BY DEF TimedInv
<1>1. timed' = timed
  BY DEF CheckNext, Main, CheckerRuns, MarkersChecked, LimitsChecked, AdapterRuns, AnswerChecked, ProducerRuns, MarkersLate,
         WorkerRuns, DeadlinePasses, MarkerStep, ExchangeStep, Enter, checkVars
<1>2. TimedExchange /\ stage \in {"markers", "limits", "exchange", "passed"} /\ (stage = "markers" => TimedMarkers)
  BY <1>1 DEF TimedInv
<1>3. CASE ProducerRuns \/ CheckerRuns
  <2>1. stage = "markers" /\ stage' = stage /\ UNCHANGED vars  BY <1>3 DEF ProducerRuns, CheckerRuns, MarkerStep
  <2>2. TimedMarkers'
    <3>1. mode \in {"free", "stepwise"}  BY <1>2, <2>1 DEF TimedMarkers
    <3>2. CASE Producer /\ producer'.status # "nonzero"  BY <1>2, <2>1, <3>1, <3>2, FreeProducer, StepwiseProducer
    <3>3. CASE Checker  BY <1>2, <2>1, <3>1, <3>3, FreeChecker, StepwiseChecker
    <3>. QED  BY <1>1, <1>3, <3>2, <3>3 DEF ProducerRuns, CheckerRuns, MarkerStep
  <2>. QED  BY <1>2, <2>1, <2>2, ExchangeRests DEF TimedInv
<1>4. CASE MarkersLate  BY <1>1, <1>4 DEF MarkersLate, MarkerStep
<1>5. CASE MarkersChecked
  <2>1. stage = "markers" /\ UNCHANGED vars /\ stage' = IF At("passed") THEN "limits" ELSE "failed"
    BY <1>5 DEF MarkersChecked, Enter
  <2>2. At("passed")
    <3>1. checker # "failed"  BY <1>2, <2>1 DEF TimedMarkers, FreeInv, StepwiseInv
    <3>. QED  BY <1>5, <3>1 DEF MarkersChecked, At
  <2>. QED  BY <1>2, <2>1, <2>2, ExchangeRests DEF TimedInv
<1>6. CASE LimitsChecked
  <2>1. stage' = "exchange" /\ UNCHANGED vars  BY <1>6, LimitsAreRight DEF LimitsChecked, Enter
  <2>. QED  BY <1>2, <2>1, ExchangeRests DEF TimedInv
<1>7. CASE WorkerRuns \/ AdapterRuns \/ DeadlinePasses
  <2>1. stage = "exchange" /\ stage' = stage /\ OnTime /\ (Worker \/ Adapter \/ Deadline)
    BY <1>1, <1>7 DEF WorkerRuns, AdapterRuns, DeadlinePasses, ExchangeStep
  <2>2. TimedExchange'  BY <1>2, <2>1, TimedStep
  <2>. QED  BY <2>1, <2>2 DEF TimedInv
<1>8. CASE AnswerChecked
  <2>1. pc = "done" /\ UNCHANGED vars  BY <1>8 DEF AnswerChecked, Enter, Here
  <2>2. outcome \in Required(call.case) /\ ChildAsRequired  BY <1>2, <2>1, ChildIsAsRequired DEF TimedExchange, CourseInv
  <2>3. stage' = "passed"  BY <1>8, <2>2 DEF AnswerChecked, Enter
  <2>. QED  BY <1>2, <2>1, <2>3, ExchangeRests DEF TimedInv
<1>9. CASE UNCHANGED checkVars
  <2>1. UNCHANGED vars /\ UNCHANGED markerVars /\ stage' = stage  BY <1>9 DEF checkVars
  <2>. QED  BY <1>2, <2>1, ExchangeRests, MarkersRest DEF TimedInv
<1>. QED  BY <1>3, <1>4, <1>5, <1>6, <1>7, <1>8, <1>9 DEF CheckNext, Main

\* The conformance check cannot fail on a machine that keeps its times, whatever
\* pipes and reads hold: each of its cases ends as main requires, in every order
\* of reads, writes, exits and deadlines.
THEOREM CheckPassesHolds == CheckSpec => []CheckPasses
<1>1. CheckInit => TimedInv  BY InitExchange, InitTimed DEF CheckInit
<1>2. ExchangeInv /\ TimedInv /\ [CheckNext]_checkVars => TimedInv'  BY StepTimed
<1>3. TimedInv => CheckPasses  BY DEF TimedInv, CheckPasses
<1>. QED  BY <1>1, <1>2, <1>3, ExchangeInvariant, PTL DEF CheckSpec
=============================================================================
