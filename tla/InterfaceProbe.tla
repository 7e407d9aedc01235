--------------------------- MODULE InterfaceProbe ---------------------------
(***************************************************************************)
(* docs/research/fido-worker-interfaces/evidence/probe.py: the research    *)
(* probe that runs a pinned age binary twice (phase "pin", phase           *)
(* "cancel") against a fake plugin and keeps one file of observations.     *)
(*                                                                         *)
(* Who acts: the probe's main thread, one statement group per step; two    *)
(* reader threads per phase; age and the plugin, which share the phase's   *)
(* process group; the SIGALRM of the global bound, whose handler raises in *)
(* the main thread at whatever call it has reached; and whoever edits the  *)
(* source file of age.  Time is abstract: a deadline may pass whenever the *)
(* code would look at it.  A group's number is not reused during the run.  *)
(***************************************************************************)
EXTENDS Naturals, Sequences, FiniteSets

CONSTANTS Pinned,        \* the content, as a sequence of blocks, with the pinned digest
          Sources,       \* what may stand at the source path, before and after an edit
          AgeCap,        \* AGE_SIZE_CAP in blocks
          Conversations, \* what age may say to the plugin: [argv, stanzas]
          Stanzas        \* the stanzas read_phase reads at most (20 in the code)

ASSUME ProbeAssumption == /\ AgeCap \in Nat /\ Stanzas \in Nat
                          /\ Len(Pinned) \in 1 .. AgeCap
                          /\ Pinned \in Sources
                          /\ Sources \subseteq Seq(UNION {{s[i] : i \in DOMAIN s} : s \in Sources})

Phases  == {"pin", "cancel"}
Streams == {"out", "err"}

VARIABLES main,    \* the main thread: where it is and what it knows
          file,    \* the source file, the snapshot in the memfd, and what was executed
          age,     \* age[ph]: the group leader of a phase
          plug,    \* plug[ph]: the plugin in the same group
          doom,    \* doom[ph]: the strongest signal the group has been sent
          trace,   \* trace[ph]: the trace file the plugin keeps on disk
          reader,  \* reader[ph][s]: the thread that drains a stream
          flood,   \* flood[ph]: state["overflow"]
          owned,   \* how many children, and captures, the probe has recorded
          litter,  \* the output directory holds more than observations
          report   \* observations.json

vars == <<main, file, age, plug, doom, trace, reader, flood, owned, litter, report>>
group == <<age, plug, doom, trace>>
lines == <<reader, flood>>

NoTrace  == [premises |-> FALSE, stage |-> "none", terminal |-> "none"]
NoReport == [status |-> "none"]
Index(ph) == IF ph = "pin" THEN 1 ELSE 2
Child(i)  == IF i = 1 THEN "pin" ELSE "cancel"

Init ==
    /\ main = [pc |-> "open", back |-> "none", target |-> "pin", ok |-> TRUE, phase |-> "pin",
               bounded |-> TRUE, next |-> 1, clean |-> TRUE, quiet |-> TRUE, event |-> "none",
               alarm |-> "set", uncaught |-> FALSE, failure |-> "internal", status |-> "error"]
    /\ file \in [source : Sources, image : {<<>>}, sealed : {FALSE}, ran : {{}}]
    /\ age = [ph \in Phases |-> "none"]
    /\ plug = [ph \in Phases |-> "none"]
    /\ doom = [ph \in Phases |-> "none"]
    /\ trace = [ph \in Phases |-> NoTrace]
    /\ reader = [ph \in Phases |-> [s \in Streams |-> "none"]]
    /\ flood = [ph \in Phases |-> FALSE]
    /\ owned = [children |-> 0, captures |-> 0]
    /\ litter = FALSE
    /\ report = NoReport

Phase   == main.phase
At(p)   == main.pc = p
Go(p)   == main' = [main EXCEPT !.pc = p]
\* The classes of Fail, by their first word.
FailWith(class) == main' = [main EXCEPT !.pc = "except", !.failure = class]

-----------------------------------------------------------------------------
\* The snapshot of age (verified_age).

\* Somebody replaces or rewrites what stands at the source path.
SourceEdited ==
    /\ \E s \in Sources \ {file.source} : file' = [file EXCEPT !.source = s]
    /\ UNCHANGED <<main, group, lines, owned, litter, report>>

Open ==
    /\ At("open")
    /\ IF Len(file.source) \in 1 .. AgeCap THEN Go("copy") ELSE FailWith("age")
    /\ UNCHANGED <<file, group, lines, owned, litter, report>>

\* One block per step; the file may have changed since the last one.
Copy ==
    /\ At("copy")
    /\ LET n == Len(file.image) + 1 IN
       IF n > Len(file.source) THEN Go("seal") /\ UNCHANGED file
       ELSE IF n > AgeCap THEN FailWith("age") /\ UNCHANGED file
       ELSE /\ file' = [file EXCEPT !.image = Append(@, file.source[n])]
            /\ UNCHANGED main
    /\ UNCHANGED <<group, lines, owned, litter, report>>

\* The digest of the bytes in a descriptor, compared with the pinned one.
HashAge(bytes) == Len(bytes) <= AgeCap /\ bytes = Pinned

Verified == file.sealed /\ HashAge(file.image)

Seal ==
    /\ At("seal")
    /\ file' = [file EXCEPT !.sealed = TRUE]
    /\ Go("digest")
    /\ UNCHANGED <<group, lines, owned, litter, report>>

Digest ==
    /\ At("digest")
    /\ IF Verified THEN Go("prepare") ELSE FailWith("age")
    /\ UNCHANGED <<file, group, lines, owned, litter, report>>

-----------------------------------------------------------------------------
\* The fake plugin.  A conversation is what age sends until it says no more.

Last(s) == s[Len(s)]
Said(s, kind) == SelectSeq(s, LAMBDA z : z.kind = kind)

\* read_phase: what the first phase must have contained, the stanzas after
\* "done" and beyond the limit unread, and none of them malformed.
Premises(argv, said) ==
    LET upTo(n) == SubSeq(said, 1, n)
        stop == {n \in 1 .. Len(said) : said[n].kind = "done" \/ n = Stanzas}
        read == IF stop = {} THEN said ELSE upTo(CHOOSE n \in stop : \A m \in stop : n <= m)
    IN  /\ argv
        /\ \A k \in {"add-identity", "wrap-file-key", "extension-labels"} : Len(Said(read, k)) = 1
        /\ \A i \in DOMAIN read :
              \/ read[i].kind = "grease"
              \/ /\ read[i].kind \in {"add-identity", "wrap-file-key", "extension-labels", "done"}
                 /\ read[i].fits
        /\ read # <<>> /\ Last(read).kind = "done"

Live(ph)   == plug[ph] \in {"reading", "ready", "asking", "failing", "closing", "leaving"}
InGroup(ph) == age[ph] \in {"up", "zombie"} \/ Live(ph) \/ plug[ph] = "dead"
CanRun(ph) == doom[ph] # "KILL"

PluginStarts(ph) ==
    /\ age[ph] = "up" /\ CanRun(ph) /\ plug[ph] = "none"
    /\ plug' = [plug EXCEPT ![ph] = "reading"]
    /\ UNCHANGED <<main, file, age, doom, trace, lines, owned, litter, report>>

\* save: a rename, so a reader of the file sees the old trace or the new one.
Save(ph, t) == trace' = [trace EXCEPT ![ph] = t] /\ litter' = TRUE
PluginMoves(ph, from, to) ==
    /\ plug[ph] = from /\ CanRun(ph)
    /\ plug' = [plug EXCEPT ![ph] = to]
    /\ UNCHANGED <<main, file, age, doom, lines, owned, report>>

\* read_stanza, again and again: a whole conversation, or as much of it as age
\* had sent when it ended.
Heard(ph) ==
    UNION {{[c EXCEPT !.stanzas = SubSeq(@, 1, n)] :
               n \in IF age[ph] = "up" THEN {Len(c.stanzas)} ELSE 0 .. Len(c.stanzas)} :
           c \in Conversations}

PluginReads(ph) ==
    \E h \in Heard(ph) :
       LET p == Premises(h.argv, h.stanzas) IN
       /\ Save(ph, [NoTrace EXCEPT !.premises = p, !.stage = "read"])
       /\ PluginMoves(ph, "reading", IF ~p THEN "leaving" ELSE IF ph = "pin" THEN "asking" ELSE "ready")

PluginReady(ph) ==
    /\ Save(ph, [trace[ph] EXCEPT !.stage = "ready"])
    /\ PluginMoves(ph, "ready", "closing")

PluginAsks(ph) ==
    /\ Save(ph, [trace[ph] EXCEPT !.stage = "answered"])
    /\ PluginMoves(ph, "asking", "failing")

PluginFails(ph) ==
    /\ Save(ph, [trace[ph] EXCEPT !.stage = "acknowledged"])
    /\ PluginMoves(ph, "failing", "closing")

\* close_event: end of input, one more stanza, or the SIGINT that was sent to
\* age alone (the event is awaited from then on) and may be passed on.
PluginCloses(ph) ==
    /\ \E t \in {"eof", "stanza", "sigint"} :
          /\ t = "sigint" => ph = "cancel" /\ main.event # "none"
          /\ Save(ph, [trace[ph] EXCEPT !.terminal = t])
    /\ PluginMoves(ph, "closing", "leaving")

\* It exits, is killed, or dies of a broken pipe; later it is collected.
PluginDies(ph) ==
    /\ Live(ph)
    /\ plug[ph] = "leaving" \/ doom[ph] # "none" \/ age[ph] # "up"
    /\ plug' = [plug EXCEPT ![ph] = "dead"]
    /\ UNCHANGED <<main, file, age, doom, trace, lines, owned, litter, report>>
PluginGone(ph) ==
    /\ plug[ph] = "dead"
    /\ plug' = [plug EXCEPT ![ph] = "gone"]
    /\ UNCHANGED <<main, file, age, doom, trace, lines, owned, litter, report>>
AgeExits(ph) ==
    /\ age[ph] = "up"
    /\ age' = [age EXCEPT ![ph] = "zombie"]
    /\ UNCHANGED <<main, file, plug, doom, trace, lines, owned, litter, report>>

Plugin(ph) ==
    \/ PluginStarts(ph) \/ PluginReads(ph) \/ PluginReady(ph) \/ PluginAsks(ph) \/ PluginFails(ph)
    \/ PluginCloses(ph) \/ PluginDies(ph) \/ PluginGone(ph) \/ AgeExits(ph)

-----------------------------------------------------------------------------
\* The reader threads (drain).

Stronger(ph, s) == IF InGroup(ph) /\ doom[ph] # "KILL" THEN [doom EXCEPT ![ph] = s] ELSE doom

\* More than STREAM_CAP came in: the first thread to see it kills the group,
\* after it has let go of the lock.
Overflow(ph, s) ==
    /\ reader[ph][s] = "reading" /\ ~flood[ph]
    /\ flood' = [flood EXCEPT ![ph] = TRUE]
    /\ reader' = [reader EXCEPT ![ph][s] = "killing"]
    /\ UNCHANGED <<main, file, group, owned, litter, report>>
StopGroup(ph, s) ==
    /\ reader[ph][s] = "killing"
    /\ reader' = [reader EXCEPT ![ph][s] = "reading"]
    /\ doom' = Stronger(ph, "KILL")
    /\ UNCHANGED <<main, file, age, plug, trace, flood, owned, litter, report>>
\* End of file: no process holds the stream any more.  A plugin that holds it
\* on after age delays this step.
EndOfStream(ph, s) ==
    /\ reader[ph][s] = "reading" /\ age[ph] # "up"
    /\ reader' = [reader EXCEPT ![ph][s] = "ended"]
    /\ UNCHANGED <<main, file, group, flood, owned, litter, report>>
Reader(ph, s) == Overflow(ph, s) \/ StopGroup(ph, s) \/ EndOfStream(ph, s)
Drained(ph) == \A s \in Streams : reader[ph][s] = "ended"

-----------------------------------------------------------------------------
\* cleanup_group(p), from wherever it is called; back is where it returns.

CallCleanup(ph, m, back) == main' = [m EXCEPT !.pc = "term", !.target = ph, !.back = back, !.ok = TRUE]
SignalGroup(s) == doom' = Stronger(main.target, s)

CleanupSignals ==
    /\ \/ At("term") /\ SignalGroup("TERM") /\ Go("kill")
       \/ At("kill") /\ SignalGroup("KILL") /\ Go("wait")
       \/ At("again") /\ SignalGroup("KILL") /\ Go("rewait")
    /\ UNCHANGED <<file, age, plug, trace, lines, owned, litter, report>>

\* p.wait(0.7), twice at most.
WrongCleanupWaits ==
    /\ main.pc \in {"wait", "rewait"}
    /\ age[main.target] # "up"
    /\ age' = [age EXCEPT ![main.target] = "reaped"] /\ Go("probe")
    /\ UNCHANGED <<file, plug, doom, trace, lines, owned, litter, report>>
CleanupWaits ==
    /\ main.pc \in {"wait", "rewait"}
    /\ IF age[main.target] # "up"
       THEN age' = [age EXCEPT ![main.target] = "reaped"] /\ Go("probe")
       ELSE /\ main' = [main EXCEPT !.ok = FALSE, !.pc = IF At("wait") THEN "again" ELSE "probe"]
            /\ UNCHANGED age
    /\ UNCHANGED <<file, plug, doom, trace, lines, owned, litter, report>>

\* killpg(p.pid, 0) must say that there is no such group; its pending signals
\* are gone with it.
CleanupProbes ==
    /\ At("probe")
    /\ main' = [main EXCEPT !.pc = main.back, !.ok = @ /\ ~InGroup(main.target)]
    /\ doom' = IF InGroup(main.target) THEN doom ELSE [doom EXCEPT ![main.target] = "none"]
    /\ UNCHANGED <<file, age, plug, trace, lines, owned, litter, report>>

CleanupGroup == CleanupSignals \/ CleanupWaits \/ CleanupProbes

-----------------------------------------------------------------------------
\* Both phases start alike (spawn).

Prepare ==
    /\ At("prepare") /\ litter' = TRUE /\ Go("mode")
    /\ UNCHANGED <<file, group, lines, owned, report>>
WriteMode ==
    /\ At("mode") /\ Go("popen")
    /\ UNCHANGED <<file, group, lines, owned, litter, report>>

\* The kernel executes the descriptor, not the path.
WrongPopen ==
    /\ At("popen") /\ Go("append")
    /\ age' = [age EXCEPT ![Phase] = "up"]
    /\ file' = [file EXCEPT !.ran = @ \union {file.source}]
    /\ UNCHANGED <<plug, doom, trace, lines, owned, litter, report>>
Popen ==
    /\ At("popen")
    /\ age' = [age EXCEPT ![Phase] = "up"]
    /\ file' = [file EXCEPT !.ran = @ \union {file.image}]
    /\ Go("append")
    /\ UNCHANGED <<plug, doom, trace, lines, owned, litter, report>>
AppendChild ==
    /\ At("append")
    /\ owned' = [owned EXCEPT !.children = @ + 1]
    /\ Go("capture")
    /\ UNCHANGED <<file, group, lines, litter, report>>
AppendCapture ==
    /\ At("capture")
    /\ owned' = [owned EXCEPT !.captures = @ + 1]
    /\ reader' = [reader EXCEPT ![Phase] = [s \in Streams |-> "unstarted"]]
    /\ Go("start")
    /\ UNCHANGED <<file, group, flood, litter, report>>
StartReader ==
    /\ At("start")
    /\ LET s == IF reader[Phase]["out"] = "unstarted" THEN "out" ELSE "err" IN
       /\ reader' = [reader EXCEPT ![Phase][s] = "reading"]
       /\ Go(IF s = "out" THEN "start" ELSE "feed")
    /\ UNCHANGED <<file, group, flood, owned, litter, report>>
Feed ==
    /\ At("feed") /\ Go(IF Phase = "pin" THEN "poll" ELSE "ready")
    /\ UNCHANGED <<file, group, lines, owned, litter, report>>

Spawn == WriteMode \/ Popen \/ AppendChild \/ AppendCapture \/ StartReader \/ Feed

-----------------------------------------------------------------------------
\* The phase "pin" (finish and what main makes of it).

Exited == age[Phase] # "up"
PollAge == age' = IF Exited THEN [age EXCEPT ![Phase] = "reaped"] ELSE age

\* Age has ended, a stream overflowed, or the deadline passed.
Poll ==
    /\ At("poll") /\ PollAge
    /\ IF Exited /\ ~flood[Phase] THEN Go("join")
       ELSE CallCleanup(Phase, [main EXCEPT !.bounded = FALSE], "join")
    /\ UNCHANGED <<file, plug, doom, trace, lines, owned, litter, report>>

\* Each thread is joined for a second; one that is still alive ends the phase.
Join ==
    /\ At("join")
    /\ IF Drained(Phase) THEN CallCleanup(Phase, [main EXCEPT !.bounded = @ /\ ~flood[Phase]], "admit")
       ELSE FailWith("capture")
    /\ UNCHANGED <<file, group, lines, owned, litter, report>>

\* pin_bound, pin_cleanup, pin_premise.  The trace is not read again: what is
\* left of it in the model is that its premises held.
Admit ==
    /\ At("admit")
    /\ IF main.bounded /\ main.ok /\ trace["pin"].premises
       THEN /\ main' = [main EXCEPT !.phase = "cancel", !.pc = "mode"]
            /\ trace' = [trace EXCEPT !["pin"] = [NoTrace EXCEPT !.premises = TRUE]]
       ELSE FailWith("pin") /\ UNCHANGED trace
    /\ UNCHANGED <<file, age, plug, doom, lines, owned, litter, report>>

\* The phase "cancel".
Fixture == trace["cancel"].premises /\ trace["cancel"].stage = "ready"

\* The plugin is ready, or age ended, a stream overflowed or time is up first.
Ready ==
    /\ At("ready") /\ PollAge
    /\ \/ ~Exited /\ ~flood[Phase] /\ Fixture /\ Go("interrupt")
       \/ (Exited \/ flood[Phase] \/ ~Fixture) /\ FailWith("cancel")
    /\ UNCHANGED <<file, plug, doom, trace, lines, owned, litter, report>>

\* SIGINT goes to age alone, which this thread has not reaped yet.
Interrupt ==
    /\ At("interrupt")
    /\ main' = [main EXCEPT !.event = "other", !.pc = "exit"]
    /\ UNCHANGED <<file, group, lines, owned, litter, report>>
AwaitExit ==
    /\ At("exit") /\ PollAge /\ Go("event")
    /\ UNCHANGED <<file, plug, doom, trace, lines, owned, litter, report>>
AwaitEvent ==
    /\ At("event")
    /\ LET seen == IF trace["cancel"].terminal = "none" THEN "other" ELSE trace["cancel"].terminal
       IN  CallCleanup(Phase, [main EXCEPT !.event = seen], "judge")
    /\ UNCHANGED <<file, group, lines, owned, litter, report>>
\* cancel_bound, cancel_cleanup.
Judge ==
    /\ At("judge")
    /\ IF ~flood[Phase] /\ Drained(Phase) /\ main.ok THEN Go("rehash") ELSE FailWith("cancel")
    /\ UNCHANGED <<file, group, lines, owned, litter, report>>
Rehash ==
    /\ At("rehash")
    /\ IF HashAge(file.image)
       THEN main' = [main EXCEPT !.status = "complete", !.failure = "none", !.pc = "finally"]
       ELSE FailWith("age")
    /\ UNCHANGED <<file, group, lines, owned, litter, report>>

-----------------------------------------------------------------------------
\* Exceptions, and the finally clause of main.

Ends  == {"done", "escaped"}
Final == {"finally", "sweep", "swept", "joinall", "purge", "check", "publish"} \union Ends
Tried == main.pc \notin Final \union {"except"}

\* The alarm's handler raises.  After a killpg, whose try takes every
\* Exception, that only spoils the cleanup's answer; in the handler of an
\* earlier exception it is raised again at the end; and at the finally clause,
\* before alarm(0) has been called, it leaves the rest of the clause out.
GlobalTimeout ==
    /\ main.alarm = "set"
    /\ LET m == [main EXCEPT !.alarm = "spent"] IN
       \/ Tried /\ main' = [m EXCEPT !.pc = "except", !.failure = "global_bound"]
       \/ main.pc \in {"kill", "wait", "rewait", "probe"} /\ main' = [m EXCEPT !.ok = FALSE]
       \/ At("except") /\ main' = [m EXCEPT !.pc = "finally", !.uncaught = TRUE, !.failure = "internal"]
       \/ At("finally") /\ main' = [m EXCEPT !.pc = "escaped", !.uncaught = TRUE]
    /\ UNCHANGED <<file, group, lines, owned, litter, report>>

\* A system call of the try block fails.
CallFails ==
    /\ \/ main.pc \in {"open", "copy", "seal"} /\ FailWith("age")
       \/ /\ main.pc \in {"prepare", "mode", "popen", "start", "feed", "admit", "ready", "interrupt", "event"}
          /\ FailWith("internal")
    /\ UNCHANGED <<file, group, lines, owned, litter, report>>

Except ==
    /\ At("except") /\ Go("finally")
    /\ UNCHANGED <<file, group, lines, owned, litter, report>>
Finally ==
    /\ At("finally")
    /\ main' = [main EXCEPT !.alarm = IF @ = "set" THEN "off" ELSE @, !.pc = "sweep"]
    /\ UNCHANGED <<file, group, lines, owned, litter, report>>

\* Every recorded child's group is cleaned up, also one that already was.
Sweep ==
    /\ \/ /\ At("sweep")
          /\ IF main.next <= owned.children
             THEN CallCleanup(Child(main.next), [main EXCEPT !.next = @ + 1], "swept")
             ELSE Go("joinall")
       \/ At("swept") /\ main' = [main EXCEPT !.clean = @ /\ main.ok, !.pc = "sweep"]
    /\ UNCHANGED <<file, group, lines, owned, litter, report>>

\* Joining a thread that was never started raises out of the finally clause.
JoinAll ==
    /\ At("joinall")
    /\ LET captured == {ph \in Phases : Index(ph) <= owned.captures} IN
       IF \E ph \in captured, s \in Streams : reader[ph][s] = "unstarted"
       THEN main' = [main EXCEPT !.pc = "escaped", !.uncaught = TRUE]
       ELSE main' = [main EXCEPT !.quiet = \A ph \in captured : Drained(ph), !.pc = "purge"]
    /\ UNCHANGED <<file, group, lines, owned, litter, report>>

\* purge_output: remove every name that was listed, then list again.
Purge ==
    /\ \/ /\ At("purge")
          /\ \E removed \in BOOLEAN :
                /\ litter' = (litter /\ ~removed)
                /\ main' = [main EXCEPT !.ok = removed, !.pc = "check"]
       \/ /\ At("check")
          /\ main' = [main EXCEPT !.ok = @ /\ ~litter, !.pc = "publish"]
          /\ UNCHANGED litter
    /\ UNCHANGED <<file, group, lines, owned, report>>

\* atomic_json, which may fail too.
WrongPublish ==
    /\ At("publish") /\ Go("done")
    /\ report' = [status |-> main.status, failure |-> main.failure, groups |-> main.clean,
                  threads |-> main.quiet, removed |-> main.ok, event |-> main.event]
    /\ UNCHANGED <<file, group, lines, owned, litter>>
Publish ==
    /\ At("publish")
    /\ LET good == main.clean /\ main.quiet /\ main.ok IN
       \/ /\ report' = [status |-> IF good THEN main.status ELSE "error",
                        failure |-> IF good THEN main.failure ELSE "cleanup",
                        groups |-> main.clean, threads |-> main.quiet, removed |-> main.ok, event |-> main.event]
          /\ Go("done")
       \/ main' = [main EXCEPT !.pc = "escaped", !.uncaught = TRUE] /\ UNCHANGED report
    /\ UNCHANGED <<file, group, lines, owned, litter>>

ExitStatus == IF main.uncaught \/ report.status # "complete" THEN 1 ELSE 0

Main ==
    \/ Open \/ Copy \/ Seal \/ Digest \/ Prepare \/ Spawn \/ CleanupGroup
    \/ Poll \/ Join \/ Admit \/ Ready \/ Interrupt \/ AwaitExit \/ AwaitEvent \/ Judge \/ Rehash
    \/ Except \/ Finally \/ Sweep \/ JoinAll \/ Purge \/ Publish

Next ==
    \/ Main \/ GlobalTimeout \/ CallFails \/ SourceEdited
    \/ \E ph \in Phases : Plugin(ph) \/ \E s \in Streams : Reader(ph, s)

\* Only the main thread is sure to go on: each of its waits has a deadline.
\* Nothing is assumed of age, the plugin or the readers, which may hang.
Spec == Init /\ [][Next]_vars /\ WF_vars(Main)

-----------------------------------------------------------------------------
TypeOK ==
    /\ main.alarm \in {"set", "spent", "off"} /\ main.phase \in Phases /\ main.target \in Phases
    /\ main.status \in {"error", "complete"} /\ {main.ok, main.bounded, main.clean, main.quiet} \subseteq BOOLEAN
    /\ Len(file.image) <= AgeCap
    /\ \A ph \in Phases : age[ph] \in {"none", "up", "zombie", "reaped"} /\ doom[ph] \in {"none", "TERM", "KILL"}
    /\ owned.captures <= owned.children /\ owned.children <= 2 /\ litter \in BOOLEAN

\* Observations that say "complete" (and an exit status of 0) rest on two phases
\* whose fixture was verified, after which no process of either group, no
\* reader thread and no other file is left, for good; and neither an overflow
\* nor the global bound has been swallowed on the way, although cleanup_group
\* catches every exception and the groups are cleaned up two or three times.
CompleteMeansClean ==
    /\ TypeOK
    /\ ExitStatus = 0 <=> report.status = "complete" /\ ~main.uncaught
    /\ report.status = "complete" =>
          /\ report.failure = "none" /\ main.alarm = "off" /\ ~litter
          /\ \A ph \in Phases :
                /\ trace[ph].premises /\ ~flood[ph] /\ Drained(ph)
                /\ age[ph] = "reaped" /\ plug[ph] \in {"none", "gone"}

\* Whatever is done to the source path before, during or after the copy, only
\* the pinned content is ever executed (ADR 0005).
OnlyPinnedCodeRuns == file.ran \subseteq {Pinned}

\* The probe ends although age, the plugin or a stream may hang for ever.
ProbeEnds == <>(main.pc \in Ends)

=============================================================================
